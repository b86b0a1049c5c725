--------------------------- MODULE UartOutputProofs ---------------------------
(***************************************************************************)
(* Proofs about UartOutput, for any threads and priorities, sizes of pipe  *)
(* and FIFO, trigger level and lengths of what is sent.                    *)
(***************************************************************************)
EXTENDS UartOutput, SequenceTheorems, TLAPS

-----------------------------------------------------------------------------
(* What the handler takes out of the pipe and puts into the FIFO.          *)

LEMMA SmallerOfTwo ==
  ASSUME NEW a \in Int, NEW b \in Int
  PROVE  Smaller(a, b) \in {a, b} /\ Smaller(a, b) <= a /\ Smaller(a, b) <= b
BY DEF Smaller

LEMMA Splitting ==
  ASSUME NEW S, NEW s \in Seq(S), NEW n \in 0 .. Len(s)
  PROVE  /\ SubSeq(s, 1, n) \in Seq(S) /\ Len(SubSeq(s, 1, n)) = n
         /\ \A i \in 1 .. n : SubSeq(s, 1, n)[i] = s[i]
         /\ SubSeq(s, n + 1, Len(s)) \in Seq(S)
         /\ Len(SubSeq(s, n + 1, Len(s))) = Len(s) - n
         /\ \A i \in 1 .. Len(s) - n : SubSeq(s, n + 1, Len(s))[i] = s[n + i]
<1>1. Len(s) \in Nat
  BY LenProperties
<1>2. \A i \in 1 .. n : s[i] \in S
  BY <1>1, ElementOfSeq
<1>3. \A i \in n + 1 .. Len(s) : s[i] \in S
  BY <1>1, ElementOfSeq
<1>4. /\ SubSeq(s, 1, n) \in Seq(S) /\ Len(SubSeq(s, 1, n)) = n
      /\ \A i \in 1 .. n : SubSeq(s, 1, n)[i] = s[i]
  BY <1>1, <1>2, SubSeqProperties
<1>5. /\ SubSeq(s, n + 1, Len(s)) \in Seq(S)
      /\ Len(SubSeq(s, n + 1, Len(s))) = Len(s) - n
      /\ \A i \in 1 .. Len(s) - n : SubSeq(s, n + 1, Len(s))[i] = s[n + i]
  BY <1>1, <1>3, SubSeqProperties
<1> QED
  BY <1>4, <1>5

LEMMA Feeding ==
  ASSUME TypeOK, NEW u \in Uarts
  PROVE  /\ Fed(u) \in 0 .. Len(pipe[u])
         /\ Fed(u) <= FifoSize - Len(fifo[u])
         /\ Fed(u) < Len(pipe[u]) => Len(fifo[u]) + Fed(u) = FifoSize
         /\ PutRaw(u, SubSeq(pipe[u], 1, Fed(u))) = fifo[u] \o SubSeq(pipe[u], 1, Fed(u))
<1>1. /\ pipe[u] \in Seq(Bytes) /\ fifo[u] \in Seq(Bytes)
      /\ Len(pipe[u]) \in Nat /\ Len(fifo[u]) \in Nat
      /\ Len(fifo[u]) <= FifoSize /\ FifoSize \in Nat
  BY SizesAssumption, LenProperties DEF TypeOK
<1>2. /\ Fed(u) \in {Len(pipe[u]), FifoSize - Len(fifo[u])}
      /\ Fed(u) <= Len(pipe[u]) /\ Fed(u) <= FifoSize - Len(fifo[u])
  BY <1>1, SmallerOfTwo DEF Fed
<1>3. /\ Fed(u) \in 0 .. Len(pipe[u])
      /\ Fed(u) < Len(pipe[u]) => Len(fifo[u]) + Fed(u) = FifoSize
  BY <1>1, <1>2
<1> DEFINE taken == SubSeq(pipe[u], 1, Fed(u))
<1>4. taken \in Seq(Bytes) /\ Len(taken) = Fed(u)
  BY <1>1, <1>3, Splitting
<1>5. Smaller(Len(taken), FifoSize - Len(fifo[u])) = Len(taken)
  BY <1>1, <1>2, <1>3, <1>4 DEF Smaller
<1>6. SubSeq(taken, 1, Len(taken)) = taken
  BY <1>4, SubSeqFull
<1> QED
  BY <1>2, <1>3, <1>5, <1>6 DEF PutRaw

-----------------------------------------------------------------------------
LEMMA UartsAre == "UART_0" \in Uarts /\ "UART_1" \in Uarts
BY DEF Uarts

LEMMA Updated ==
  ASSUME NEW D, NEW S, NEW f \in [D -> S], NEW d \in D, NEW x \in S
  PROVE  /\ [f EXCEPT ![d] = x] \in [D -> S]
         /\ [f EXCEPT ![d] = x][d] = x
         /\ \A e \in D : e # d => [f EXCEPT ![d] = x][e] = f[e]
OBVIOUS

LEMMA PushedAreUarts == \A t \in Threads : Uses[t] \subseteq Uarts
BY SizesAssumption DEF Uarts

LEMMA TypesInitially == Init => TypeOK
<1>1. Idle \in [at : {"idle", "put", "raise"}, uart : Uarts, to : Bytes, left : Nat]
      /\ Idle.at = "idle" /\ Idle.left = 0
  BY UartsAre DEF Idle, Bytes
<1>2. <<"UART_0">> \in Seq(Uarts) /\ <<"UART_0">> # <<>>
  BY UartsAre
<1>3. <<>> \in Seq(Bytes) /\ <<>> \in Seq(Targets) /\ Len(<<>>) = 0
  BY EmptySeq
<1> SUFFICES ASSUME Init PROVE TypeOK
  OBVIOUS
<1>4. /\ uartStack \in Seq(Uarts) /\ uartStack # <<>>
      /\ targets \in Seq(Targets) /\ crossed \in BOOLEAN
      /\ missed \subseteq Uarts /\ sends \in 0 .. MaxSends
  <2>1. uartStack \in Seq(Uarts) /\ uartStack # <<>>
    BY <1>2 DEF Init
  <2>2. targets \in Seq(Targets) /\ crossed \in BOOLEAN
    BY <1>3 DEF Init
  <2>3. missed \subseteq Uarts /\ sends \in 0 .. MaxSends
    BY SizesAssumption DEF Init
  <2> QED
    BY <2>1, <2>2, <2>3
<1>5. send \in [Threads -> [at : {"idle", "put", "raise"}, uart : Uarts, to : Bytes, left : Nat]]
      /\ \A t \in Threads : send[t].at = "put" <=> send[t].left > 0
  BY <1>1 DEF Init
<1> QED
  BY <1>3, <1>4, <1>5, UartsAre, SizesAssumption DEF Init, TypeOK

(* The top of the stack and what is left when it is popped.                *)
LEMMA Stack ==
  ASSUME NEW S, NEW s \in Seq(S), s # <<>>
  PROVE  Last(s) \in S /\ Front(s) \in Seq(S) /\ Len(Front(s)) = Len(s) - 1
<1>1. Len(s) \in Nat /\ Len(s) >= 1
  BY LenProperties, EmptySeq
<1>2. Last(s) \in S
  BY <1>1, ElementOfSeq DEF Last
<1>3. Len(s) - 1 \in 0 .. Len(s)
  BY <1>1
<1>4. SubSeq(s, 1, Len(s) - 1) \in Seq(S) /\ Len(SubSeq(s, 1, Len(s) - 1)) = Len(s) - 1
  BY <1>3, Splitting
<1> QED
  BY <1>2, <1>4 DEF Front

(* What is left when one of a sequence is removed.                         *)
LEMMA Removing ==
  ASSUME NEW S, NEW s \in Seq(S), NEW i \in 1 .. Len(s)
  PROVE  /\ RemoveAt(s, i) \in Seq(S) /\ Len(RemoveAt(s, i)) = Len(s) - 1
         /\ \A j \in 1 .. i - 1 : RemoveAt(s, i)[j] = s[j]
<1>1. Len(s) \in Nat
  BY LenProperties
<1> DEFINE a == SubSeq(s, 1, i - 1)
           b == SubSeq(s, i + 1, Len(s))
<1>2. i - 1 \in 0 .. Len(s) /\ i \in 0 .. Len(s) /\ i \in Nat
  BY <1>1
<1>3. /\ a \in Seq(S) /\ Len(a) = i - 1
      /\ \A j \in 1 .. i - 1 : a[j] = s[j]
  BY <1>2, Splitting
<1>4. b \in Seq(S) /\ Len(b) = Len(s) - i
  BY <1>2, Splitting
<1>5. RemoveAt(s, i) = a \o b
  BY DEF RemoveAt
<1> HIDE DEF a, b
<1>6. /\ a \o b \in Seq(S) /\ Len(a \o b) = Len(a) + Len(b)
      /\ \A j \in 1 .. Len(a) + Len(b) : (a \o b)[j] = IF j <= Len(a) THEN a[j] ELSE b[j - Len(a)]
  BY <1>3, <1>4, ConcatProperties
<1>7. ASSUME NEW j \in 1 .. i - 1
      PROVE  (a \o b)[j] = s[j]
  BY <1>1, <1>2, <1>3, <1>4, <1>6
<1> QED
  BY <1>1, <1>2, <1>3, <1>4, <1>5, <1>6, <1>7

LEMMA TypesKept ==
  ASSUME TypeOK, [Next]_vars
  PROVE  TypeOK'
<1>1. ASSUME NEW t \in Threads, NEW u \in Uarts, UartPush(t, u)
      PROVE  TypeOK'
  <2>1. uartStack' \in Seq(Uarts) /\ uartStack' # <<>>
    <3>1. uartStack' = Append(uartStack, u)
      BY <1>1 DEF UartPush
    <3>2. uartStack \in Seq(Uarts)
      BY DEF TypeOK
    <3> QED
      BY <3>1, <3>2, AppendProperties
  <2>2. targets' \in Seq(Targets)
    <3>1. [by |-> t, uart |-> u] \in Targets
      BY DEF Targets
    <3> QED
      BY <1>1, <3>1, AppendProperties DEF TypeOK, UartPush
  <2> QED
    BY <1>1, <2>1, <2>2 DEF TypeOK, UartPush, deviceVars
<1>2. ASSUME NEW t \in Threads, UartPop(t)
      PROVE  TypeOK'
  <2>1. uartStack' \in Seq(Uarts) /\ uartStack' # <<>>
    <3>1. CASE Len(uartStack) = 1
      BY <1>2, <3>1 DEF TypeOK, UartPop, Popped
    <3>2. CASE Len(uartStack) # 1
      <4>1. Len(Front(uartStack)) = Len(uartStack) - 1 /\ Front(uartStack) \in Seq(Uarts)
        BY Stack DEF TypeOK
      <4>2. Len(uartStack) \in Nat /\ Len(uartStack) # 0
        BY LenProperties, EmptySeq DEF TypeOK
      <4>3. Front(uartStack) # <<>>
        BY <3>2, <4>1, <4>2, EmptySeq
      <4> QED
        BY <1>2, <3>2, <4>1, <4>3 DEF UartPop, Popped
    <3> QED
      BY <3>1, <3>2
  <2>2. targets' \in Seq(Targets) /\ crossed' \in BOOLEAN
    <3>1. PICK i \in DOMAIN targets :
            /\ targets' = RemoveAt(targets, i)
            /\ crossed' = (targets' # <<>> /\ (crossed \/ i # Len(targets)))
      BY <1>2 DEF UartPop
    <3>2. targets \in Seq(Targets) /\ i \in 1 .. Len(targets)
      BY LenProperties DEF TypeOK
    <3>3. RemoveAt(targets, i) \in Seq(Targets)
      BY <3>2, Removing
    <3> QED
      BY <3>1, <3>3
  <2> QED
    BY <1>2, <2>1, <2>2 DEF TypeOK, UartPop, deviceVars
<1>3. ASSUME NEW t \in Threads, NEW bufLen \in Lengths, UartSend(t, bufLen)
      PROVE  TypeOK'
  <2>1. UartCurrent \in Uarts /\ Goal(t) \in Bytes
    <3>1. UartCurrent \in Uarts
      BY Stack DEF TypeOK, UartCurrent
    <3>2. targets # <<>> => Last(targets) \in Targets
      BY Stack DEF TypeOK
    <3> QED
      BY <3>1, <3>2, UartsAre DEF Goal, Targets, Bytes
  <2>2. bufLen \in Nat /\ bufLen > 0
    BY SizesAssumption
  <2>3. [at |-> "put", uart |-> UartCurrent, to |-> Goal(t), left |-> bufLen]
          \in [at : {"idle", "put", "raise"}, uart : Uarts, to : Bytes, left : Nat]
    BY <2>1, <2>2
  <2>4. sends' \in 0 .. MaxSends
    BY <1>3, SizesAssumption DEF TypeOK, UartSend
  <2> QED
    BY <1>3, <2>2, <2>3, <2>4 DEF TypeOK, UartSend, deviceVars, stackVars
<1>4. ASSUME NEW t \in Threads, PutByte(t)
      PROVE  TypeOK'
  <2> DEFINE u == send[t].uart
             byte == send[t].to
  <2>1. u \in Uarts /\ byte \in Bytes /\ send[t].left \in Nat /\ send[t].left > 0
    BY <1>4 DEF TypeOK, PutByte
  <2>2. Append(pipe[u], byte) \in Seq(Bytes) /\ Len(Append(pipe[u], byte)) = Len(pipe[u]) + 1
    <3>1. pipe[u] \in Seq(Bytes)
      BY <2>1 DEF TypeOK
    <3> HIDE DEF u, byte
    <3> QED
      BY <2>1, <3>1, AppendProperties
  <2>3. Len(pipe[u]) \in Nat /\ Len(pipe[u]) < PipeSize
    <3>1. pipe[u] \in Seq(Bytes) /\ Len(pipe[u]) <= PipeSize
      BY <2>1 DEF TypeOK
    <3>2. Len(pipe[u]) \in Nat
      BY <3>1, LenProperties
    <3>3. Len(pipe[u]) # PipeSize
      BY <1>4 DEF PutByte, Full
    <3> QED
      BY <3>1, <3>2, <3>3, SizesAssumption
  <2>4. pipe' \in [Uarts -> Seq(Bytes)] /\ \A v \in Uarts : Len(pipe'[v]) <= PipeSize
    <3>1. pipe' = [pipe EXCEPT ![u] = Append(pipe[u], byte)]
      BY <1>4 DEF PutByte
    <3>2. /\ pipe' \in [Uarts -> Seq(Bytes)] /\ pipe'[u] = Append(pipe[u], byte)
          /\ \A v \in Uarts : v # u => pipe'[v] = pipe[v]
      BY <3>1, <2>1, <2>2, Updated DEF TypeOK
    <3>3. Len(pipe'[u]) <= PipeSize
      BY <3>2, <2>2, <2>3, SizesAssumption
    <3>4. ASSUME NEW v \in Uarts, v # u
          PROVE  Len(pipe'[v]) <= PipeSize
      BY <3>2, <3>4 DEF TypeOK
    <3> QED
      BY <3>2, <3>3, <3>4
  <2>5. /\ send' \in [Threads -> [at : {"idle", "put", "raise"}, uart : Uarts, to : Bytes, left : Nat]]
        /\ \A t2 \in Threads : send'[t2].at = "put" <=> send'[t2].left > 0
    <3> DEFINE next == [send[t] EXCEPT !.left = send[t].left - 1,
                                       !.at = IF send[t].left = 1 THEN "raise" ELSE send[t].at]
    <3>1. send' = [send EXCEPT ![t] = next]
      BY <1>4 DEF PutByte
    <3> DEFINE Sends == [at : {"idle", "put", "raise"}, uart : Uarts, to : Bytes, left : Nat]
    <3>a. send[t] \in Sends /\ send[t].at = "put" /\ send[t].left > 0
      BY <1>4 DEF TypeOK, PutByte
    <3>2. /\ next \in [at : {"idle", "put", "raise"}, uart : Uarts, to : Bytes, left : Nat]
          /\ next.at = "put" <=> next.left > 0
      <4>1. send[t].left - 1 \in Nat /\ (send[t].left - 1 > 0 <=> send[t].left # 1)
        BY <3>a
      <4>2. (IF send[t].left = 1 THEN "raise" ELSE send[t].at) \in {"idle", "put", "raise"}
        BY <3>a
      <4> QED
        BY <3>a, <4>1, <4>2
    <3> HIDE DEF next
    <3>3. /\ send' \in [Threads -> [at : {"idle", "put", "raise"}, uart : Uarts, to : Bytes, left : Nat]]
          /\ send'[t] = next
          /\ \A t2 \in Threads : t2 # t => send'[t2] = send[t2]
      BY <3>1, <3>2, Updated DEF TypeOK
    <3> QED
      BY <3>2, <3>3 DEF TypeOK
  <2> QED
    BY <1>4, <2>4, <2>5 DEF TypeOK, PutByte, deviceVars, stackVars
<1>5. ASSUME NEW t \in Threads, RaiseIrq(t)
      PROVE  TypeOK'
  <2>1. Raised \in Uarts
    BY Stack DEF TypeOK, UartCurrent, Raised
  <2> QED
    <3>1. send' = [send EXCEPT ![t] = Idle] /\ pending' = [pending EXCEPT ![Raised] = TRUE]
      BY <1>5 DEF RaiseIrq
    <3>2. /\ Idle \in [at : {"idle", "put", "raise"}, uart : Uarts, to : Bytes, left : Nat]
          /\ Idle.at = "idle" /\ Idle.left = 0
      BY UartsAre DEF Idle, Bytes
    <3>3. /\ send' \in [Threads -> [at : {"idle", "put", "raise"}, uart : Uarts, to : Bytes, left : Nat]]
          /\ send'[t] = Idle /\ \A t2 \in Threads : t2 # t => send'[t2] = send[t2]
      BY <3>1, <3>2, Updated DEF TypeOK
    <3>4. ASSUME NEW t2 \in Threads
          PROVE  send'[t2].at = "put" <=> send'[t2].left > 0
      <4>1. CASE t2 = t
        BY <4>1, <3>2, <3>3
      <4>2. CASE t2 # t
        BY <4>2, <3>3 DEF TypeOK
      <4> QED
        BY <4>1, <4>2
    <3>5. pending' \in [Uarts -> BOOLEAN]
      BY <3>1, <2>1, Updated DEF TypeOK
    <3>6. missed' \subseteq Uarts
      BY <1>5 DEF TypeOK, RaiseIrq, Misses
    <3> QED
      BY <1>5, <3>3, <3>4, <3>5, <3>6 DEF TypeOK, RaiseIrq, deviceVars, stackVars
<1>6. ASSUME NEW u \in Uarts, UartInterruptHandler(u)
      PROVE  TypeOK'
  <2> DEFINE taken == SubSeq(pipe[u], 1, Fed(u))
             rest == SubSeq(pipe[u], Fed(u) + 1, Len(pipe[u]))
  <2>1. /\ taken \in Seq(Bytes) /\ Len(taken) = Fed(u)
        /\ rest \in Seq(Bytes) /\ Len(rest) = Len(pipe[u]) - Fed(u)
    <3>1. pipe[u] \in Seq(Bytes)
      BY DEF TypeOK
    <3>2. Fed(u) \in 0 .. Len(pipe[u])
      BY Feeding
    <3> QED
      BY <3>1, <3>2, Splitting
  <2>2. fifo[u] \o taken \in Seq(Bytes) /\ Len(fifo[u] \o taken) = Len(fifo[u]) + Fed(u)
    BY <2>1, ConcatProperties DEF TypeOK
  <2>3. Len(fifo[u]) \in Nat /\ Len(pipe[u]) \in Nat /\ FifoSize \in Nat /\ PipeSize \in Nat
    BY LenProperties, SizesAssumption DEF TypeOK
  <2>4. Len(rest) <= PipeSize /\ Len(fifo[u] \o taken) <= FifoSize
    <3>1. Fed(u) \in 0 .. Len(pipe[u]) /\ Fed(u) <= FifoSize - Len(fifo[u])
      BY Feeding
    <3>2. Len(pipe[u]) <= PipeSize
      BY DEF TypeOK
    <3> QED
      BY <2>1, <2>2, <2>3, <3>1, <3>2
  <2>5. fifo' \in [Uarts -> Seq(Bytes)] /\ \A v \in Uarts : Len(fifo'[v]) <= FifoSize
    BY <1>6, <2>2, <2>4, Feeding DEF TypeOK, UartInterruptHandler
  <2>6. pipe' \in [Uarts -> Seq(Bytes)] /\ \A v \in Uarts : Len(pipe'[v]) <= PipeSize
    BY <1>6, <2>1, <2>4 DEF TypeOK, UartInterruptHandler
  <2>7. txIrq' \in [Uarts -> BOOLEAN] /\ pending' \in [Uarts -> BOOLEAN]
    BY <1>6 DEF TypeOK, UartInterruptHandler
  <2> QED
    BY <1>6, <2>5, <2>6, <2>7 DEF TypeOK, UartInterruptHandler, stackVars
<1>7. ASSUME NEW u \in Uarts, Transmit(u)
      PROVE  TypeOK'
  <2>1. Head(fifo[u]) \in Bytes /\ Tail(fifo[u]) \in Seq(Bytes)
        /\ Len(Tail(fifo[u])) = Len(fifo[u]) - 1 /\ Len(fifo[u]) \in Nat
    BY <1>7, HeadTailProperties, LenProperties DEF TypeOK, Transmit
  <2>2. <<Head(fifo[u])>> \in Seq(Bytes)
    BY <2>1
  <2>3. /\ wire' \in [Uarts -> Seq(Bytes)]
        /\ fifo' \in [Uarts -> Seq(Bytes)] /\ \A v \in Uarts : Len(fifo'[v]) <= FifoSize
    <3>1. /\ wire' = [wire EXCEPT ![u] = <<Head(fifo[u])>>]
          /\ fifo' = [fifo EXCEPT ![u] = Tail(fifo[u])]
      BY <1>7 DEF Transmit
    <3>2. wire' \in [Uarts -> Seq(Bytes)]
      BY <3>1, <2>2, Updated DEF TypeOK
    <3>3. /\ fifo' \in [Uarts -> Seq(Bytes)] /\ fifo'[u] = Tail(fifo[u])
          /\ \A v \in Uarts : v # u => fifo'[v] = fifo[v]
      BY <3>1, <2>1, Updated DEF TypeOK
    <3>4. Len(fifo[u]) <= FifoSize /\ FifoSize \in Nat
      BY SizesAssumption DEF TypeOK
    <3>5. Len(fifo'[u]) <= FifoSize
      BY <3>3, <3>4, <2>1
    <3>6. ASSUME NEW v \in Uarts, v # u
          PROVE  Len(fifo'[v]) <= FifoSize
      BY <3>3, <3>6 DEF TypeOK
    <3> QED
      BY <3>2, <3>3, <3>5, <3>6
  <2>4. txIrq' \in [Uarts -> BOOLEAN]
    BY <1>7 DEF TypeOK, Transmit
  <2> QED
    BY <1>7, <2>3, <2>4 DEF TypeOK, Transmit, stackVars
<1>8. ASSUME NEW t \in Threads, NEW u \in Uarts, UartEnable(t, u)
      PROVE  TypeOK'
  <2>1. <<>> \in Seq(Bytes) /\ Len(<<>>) = 0 /\ FifoSize \in Nat
    BY EmptySeq, SizesAssumption
  <2>2. /\ fifo' \in [Uarts -> Seq(Bytes)] /\ fifo'[u] = <<>>
        /\ \A v \in Uarts : v # u => fifo'[v] = fifo[v]
    BY <1>8, <2>1, Updated DEF TypeOK, UartEnable
  <2>3. ASSUME NEW v \in Uarts
        PROVE  Len(fifo'[v]) <= FifoSize
    <3>1. CASE v = u
      BY <3>1, <2>1, <2>2
    <3>2. CASE v # u
      BY <3>2, <2>2 DEF TypeOK
    <3> QED
      BY <3>1, <3>2
  <2>4. /\ enabled' \in [Uarts -> BOOLEAN] /\ enabled'["UART_0"]
        /\ txIrq' \in [Uarts -> BOOLEAN] /\ pending' \in [Uarts -> BOOLEAN]
    BY <1>8, UartsAre DEF TypeOK, UartEnable
  <2> QED
    BY <1>8, <2>2, <2>3, <2>4 DEF TypeOK, UartEnable, stackVars
<1>9. ASSUME NEW t \in Threads, UartDisable(t)
      PROVE  TypeOK'
  <2>1. <<>> \in Seq(Bytes) /\ Len(<<>>) = 0 /\ FifoSize \in Nat /\ PipeSize \in Nat
    BY EmptySeq, SizesAssumption
  <2>2. /\ fifo' \in [Uarts -> Seq(Bytes)] /\ fifo'["UART_1"] = <<>>
        /\ \A v \in Uarts : v # "UART_1" => fifo'[v] = fifo[v]
    BY <1>9, <2>1, UartsAre, Updated DEF TypeOK, UartDisable
  <2>3. /\ pipe' \in [Uarts -> Seq(Bytes)] /\ pipe'["UART_1"] = <<>>
        /\ \A v \in Uarts : v # "UART_1" => pipe'[v] = pipe[v]
    BY <1>9, <2>1, UartsAre, Updated DEF TypeOK, UartDisable
  <2>4. ASSUME NEW v \in Uarts
        PROVE  Len(pipe'[v]) <= PipeSize /\ Len(fifo'[v]) <= FifoSize
    <3>1. CASE v = "UART_1"
      BY <3>1, <2>1, <2>2, <2>3
    <3>2. CASE v # "UART_1"
      BY <3>2, <2>2, <2>3 DEF TypeOK
    <3> QED
      BY <3>1, <3>2
  <2>5. /\ enabled' \in [Uarts -> BOOLEAN] /\ enabled'["UART_0"]
        /\ txIrq' \in [Uarts -> BOOLEAN]
    BY <1>9, UartsAre DEF TypeOK, UartDisable
  <2> QED
    BY <1>9, <2>2, <2>3, <2>4, <2>5 DEF TypeOK, UartDisable, stackVars
<1>10. CASE UNCHANGED vars
  BY <1>10 DEF TypeOK, vars, stackVars, deviceVars
<1> QED
  BY <1>1, <1>2, <1>3, <1>4, <1>5, <1>6, <1>7, <1>8, <1>9, <1>10, PushedAreUarts
  DEF Next, Sending, Client

(* The state has its types, and pipe and FIFO their bounds.                *)
THEOREM OutputTypes == Spec => []TypeOK
BY TypesInitially, TypesKept, PTL DEF Spec

-----------------------------------------------------------------------------
(* UartOutput implements OutputChannel: what waits in FIFO and pipe, in    *)
(* that order, is what the channel was given and has not sent.             *)

Waiting == [u \in Uarts |-> fifo[u] \o pipe[u]]

LEMMA AppendBehind ==
  ASSUME NEW S, NEW s \in Seq(S), NEW r \in Seq(S), NEW x \in S
  PROVE  s \o Append(r, x) = Append(s \o r, x)
<1>1. Append(r, x) = r \o <<x>> /\ <<x>> \in Seq(S)
  BY AppendIsConcat
<1>2. s \o r \in Seq(S)
  BY ConcatProperties
<1>3. Append(s \o r, x) = (s \o r) \o <<x>>
  BY <1>2, AppendIsConcat
<1>4. s \o (r \o <<x>>) = (s \o r) \o <<x>>
  BY <1>1, ConcatAssociative
<1> QED
  BY <1>1, <1>3, <1>4

LEMMA TakeFromFront ==
  ASSUME NEW S, NEW s \in Seq(S), NEW r \in Seq(S), s # <<>>
  PROVE  /\ s \o r # <<>> /\ Head(s \o r) = Head(s)
         /\ Tail(s) \o r = Tail(s \o r)
<1>1. /\ Len(s) \in Nat /\ Len(s) >= 1 /\ Len(r) \in Nat
      /\ s \o r \in Seq(S) /\ Len(s \o r) = Len(s) + Len(r)
      /\ \A i \in 1 .. Len(s) + Len(r) :
           (s \o r)[i] = IF i <= Len(s) THEN s[i] ELSE r[i - Len(s)]
  BY LenProperties, EmptySeq, ConcatProperties
<1>2. s \o r # <<>>
  BY <1>1, EmptySeq
<1>3. /\ Tail(s) \in Seq(S) /\ Len(Tail(s)) = Len(s) - 1
      /\ \A i \in 1 .. Len(s) - 1 : Tail(s)[i] = s[i + 1]
  BY HeadTailProperties
<1>4. /\ Tail(s \o r) \in Seq(S) /\ Len(Tail(s \o r)) = Len(s) + Len(r) - 1
      /\ \A i \in 1 .. Len(s) + Len(r) - 1 : Tail(s \o r)[i] = (s \o r)[i + 1]
  BY <1>1, <1>2, HeadTailProperties
<1>5. /\ Tail(s) \o r \in Seq(S) /\ Len(Tail(s) \o r) = Len(s) - 1 + Len(r)
      /\ \A i \in 1 .. Len(s) - 1 + Len(r) :
           (Tail(s) \o r)[i] = IF i <= Len(s) - 1 THEN Tail(s)[i] ELSE r[i - (Len(s) - 1)]
  BY <1>3, ConcatProperties
<1>6. ASSUME NEW i \in 1 .. Len(s) + Len(r) - 1
      PROVE  (Tail(s) \o r)[i] = Tail(s \o r)[i]
  BY <1>1, <1>3, <1>4, <1>5
<1>7. Tail(s) \o r = Tail(s \o r)
  BY <1>1, <1>4, <1>5, <1>6, SeqEqual
<1>8. Head(s \o r) = Head(s)
  BY <1>1, <1>2
<1> QED
  BY <1>2, <1>7, <1>8

LEMMA DropFront ==
  ASSUME NEW S, NEW s \in Seq(S), NEW r \in Seq(S)
  PROVE  SubSeq(s \o r, Len(s) + 1, Len(s \o r)) = r
<1>1. /\ Len(s) \in Nat /\ Len(r) \in Nat
      /\ s \o r \in Seq(S) /\ Len(s \o r) = Len(s) + Len(r)
      /\ \A i \in 1 .. Len(s) + Len(r) :
           (s \o r)[i] = IF i <= Len(s) THEN s[i] ELSE r[i - Len(s)]
  BY LenProperties, ConcatProperties
<1> DEFINE q == SubSeq(s \o r, Len(s) + 1, Len(s \o r))
<1>2. /\ q \in Seq(S) /\ Len(q) = Len(r)
      /\ \A i \in 1 .. Len(r) : q[i] = (s \o r)[Len(s) + i]
  BY <1>1, Splitting
<1>3. \A i \in 1 .. Len(r) : q[i] = r[i]
  BY <1>1, <1>2
<1> QED
  BY <1>2, <1>3, SeqEqual

(* The same, for the sequences that UartOutput has.                        *)
LEMMA OnBytes ==
  /\ \A a, b, c \in Seq(Bytes) : (a \o b) \o c = a \o (b \o c)
  /\ \A a, b \in Seq(Bytes) : \A x \in Bytes : a \o Append(b, x) = Append(a \o b, x)
  /\ \A a, b \in Seq(Bytes) : SubSeq(a \o b, Len(a) + 1, Len(a \o b)) = b
  /\ \A a \in Seq(Bytes) : Len(a) \in Nat /\ (Len(a) = 0 <=> a = <<>>)
<1>1. \A a, b, c \in Seq(Bytes) : (a \o b) \o c = a \o (b \o c)
  BY ConcatAssociative
<1>2. \A a, b \in Seq(Bytes) : \A x \in Bytes : a \o Append(b, x) = Append(a \o b, x)
  BY AppendBehind
<1>3. \A a, b \in Seq(Bytes) : SubSeq(a \o b, Len(a) + 1, Len(a \o b)) = b
  BY DropFront
<1>4. \A a \in Seq(Bytes) : Len(a) \in Nat /\ (Len(a) = 0 <=> a = <<>>)
  BY LenProperties, EmptySeq
<1> QED
  BY <1>1, <1>2, <1>3, <1>4

(* A step of one UART's bytes is a step of the channel or none.            *)
LEMMA WaitingChanges ==
  ASSUME NEW u \in Uarts, NEW x, (fifo[u] \o pipe[u])' = x,
         \A v \in Uarts : v # u => fifo'[v] = fifo[v] /\ pipe'[v] = pipe[v]
  PROVE  Waiting' = [Waiting EXCEPT ![u] = x]
BY DEF Waiting

LEMMA ChannelInitially == Init => Channel!Init
<1> SUFFICES ASSUME Init PROVE Channel!Init
  OBVIOUS
<1>1. \A u \in Uarts : fifo[u] \o pipe[u] = <<>>
  BY DEF Init
<1> QED
  BY <1>1 DEF Init, Channel!Init

LEMMA ChannelStep ==
  ASSUME TypeOK, [Next]_vars
  PROVE  [Channel!Next]_Channel!vars
<1>1. ASSUME UNCHANGED <<fifo, pipe, wire>>
      PROVE  UNCHANGED Channel!vars
  BY <1>1 DEF Channel!vars
<1>2. ASSUME NEW t \in Threads, PutByte(t)
      PROVE  Channel!Next
  <2>1. PICK u \in Uarts, byte \in Bytes :
          u = send[t].uart /\ byte = send[t].to
    BY DEF TypeOK
  <2>2. /\ pipe' = [pipe EXCEPT ![u] = Append(pipe[u], byte)]
        /\ fifo' = fifo /\ wire' = wire
    BY <1>2, <2>1 DEF PutByte, deviceVars
  <2>3. (fifo[u] \o pipe[u])' = Append(Waiting[u], byte)
    <3>1. Waiting[u] = fifo[u] \o pipe[u] /\ fifo'[u] = fifo[u] /\ pipe'[u] = Append(pipe[u], byte)
      BY <2>1, <2>2 DEF TypeOK, Waiting
    <3>2. fifo[u] \o Append(pipe[u], byte) = Append(fifo[u] \o pipe[u], byte)
      <4>1. fifo[u] \in Seq(Bytes) /\ pipe[u] \in Seq(Bytes)
        BY DEF TypeOK
      <4> QED
        BY <4>1, OnBytes
    <3> QED
      BY <3>1, <3>2
  <2>4. Waiting' = [Waiting EXCEPT ![u] = Append(Waiting[u], byte)]
    <3>1. \A v \in Uarts : v # u => fifo'[v] = fifo[v] /\ pipe'[v] = pipe[v]
      BY <2>2 DEF TypeOK
    <3> QED
      BY <2>1, <2>3, <3>1, WaitingChanges
  <2>5. Channel!Accept(u, byte)
    BY <2>2, <2>4 DEF Channel!Accept, Waiting
  <2> QED
    <3>1. \E b \in Bytes : Channel!Accept(u, b)
      BY <2>1, <2>5
    <3> QED
      BY <2>1, <3>1 DEF Channel!Next
<1>3. ASSUME NEW u \in Uarts, UartInterruptHandler(u)
      PROVE  UNCHANGED Channel!vars
  <2> DEFINE taken == SubSeq(pipe[u], 1, Fed(u))
             rest == SubSeq(pipe[u], Fed(u) + 1, Len(pipe[u]))
  <2>1. pipe[u] \in Seq(Bytes) /\ fifo[u] \in Seq(Bytes) /\ Fed(u) \in 0 .. Len(pipe[u])
    BY Feeding DEF TypeOK
  <2>2. taken \in Seq(Bytes) /\ rest \in Seq(Bytes)
    BY <2>1, Splitting
  <2>3. taken \o rest = pipe[u]
    <3>1. Len(pipe[u]) \in Nat
      BY <2>1, LenProperties
    <3>2. taken \o rest = SubSeq(pipe[u], 1, Len(pipe[u]))
      <4>1. /\ 1 \in 1 .. Len(pipe[u]) + 1 /\ Fed(u) \in 1 - 1 .. Len(pipe[u])
            /\ Len(pipe[u]) \in Fed(u) .. Len(pipe[u])
        BY <2>1, <3>1
      <4> QED
        BY <2>1, <4>1, ConcatAdjacentSubSeq
    <3> QED
      BY <2>1, <3>2, SubSeqFull
  <2>4. (fifo[u] \o taken) \o rest = fifo[u] \o pipe[u]
    <3>1. (fifo[u] \o taken) \o rest = fifo[u] \o (taken \o rest)
      <4> HIDE DEF taken, rest
      <4>1. \A a, b, c \in Seq(Bytes) : (a \o b) \o c = a \o (b \o c)
        BY OnBytes
      <4> QED
        BY <2>1, <2>2, <4>1
    <3> QED
      BY <2>3, <3>1
  <2>5. fifo'[u] = fifo[u] \o taken /\ pipe'[u] = rest
    BY <1>3, Feeding DEF TypeOK, UartInterruptHandler
  <2>6. \A v \in Uarts : v # u => fifo'[v] = fifo[v] /\ pipe'[v] = pipe[v]
    BY <1>3 DEF TypeOK, UartInterruptHandler
  <2>7. Waiting' = Waiting
    BY <2>4, <2>5, <2>6 DEF Waiting
  <2> QED
    BY <1>3, <2>7 DEF UartInterruptHandler, Channel!vars, Waiting
<1>4. ASSUME NEW u \in Uarts, Transmit(u)
      PROVE  Channel!Next
  <2>1. fifo[u] \in Seq(Bytes) /\ pipe[u] \in Seq(Bytes) /\ fifo[u] # <<>>
    BY <1>4 DEF TypeOK, Transmit
  <2>2. /\ fifo'[u] = Tail(fifo[u]) /\ pipe' = pipe
        /\ \A v \in Uarts : v # u => fifo'[v] = fifo[v]
        /\ wire' = [wire EXCEPT ![u] = <<Head(fifo[u])>>]
    BY <1>4 DEF TypeOK, Transmit
  <2>3. /\ Waiting[u] # <<>> /\ Head(Waiting[u]) = Head(fifo[u])
        /\ (fifo[u] \o pipe[u])' = Tail(Waiting[u])
    BY <2>1, <2>2, TakeFromFront DEF Waiting
  <2>4. Waiting' = [Waiting EXCEPT ![u] = Tail(Waiting[u])]
    BY <2>2, <2>3, WaitingChanges
  <2>5. Channel!Transmit(u)
    BY <2>2, <2>3, <2>4 DEF Channel!Transmit, Waiting
  <2> QED
    BY <2>5 DEF Channel!Next
<1>5. ASSUME NEW t \in Threads, NEW u \in Uarts, UartEnable(t, u)
      PROVE  [Channel!Next]_Channel!vars
  <2>1. fifo[u] \in Seq(Bytes) /\ pipe[u] \in Seq(Bytes)
    BY DEF TypeOK
  <2>2. /\ fifo'[u] = <<>> /\ pipe' = pipe /\ wire' = wire
        /\ \A v \in Uarts : v # u => fifo'[v] = fifo[v]
    BY <1>5 DEF TypeOK, UartEnable
  <2>3. CASE fifo[u] = <<>>
    <3>1. fifo' = fifo
      BY <1>5, <2>3 DEF TypeOK, UartEnable
    <3> QED
      BY <2>2, <3>1, <1>1
  <2>4. CASE fifo[u] # <<>>
    <3>n. PICK n \in Nat : n = Len(fifo[u])
      BY <2>1, LenProperties
    <3>1. n \in 1 .. Len(Waiting[u])
      <4>1. n # 0 /\ Len(pipe[u]) \in Nat
        BY <2>1, <2>4, <3>n, OnBytes
      <4>2. Len(fifo[u] \o pipe[u]) = Len(fifo[u]) + Len(pipe[u])
        BY <2>1, ConcatProperties
      <4>3. Waiting[u] = fifo[u] \o pipe[u]
        BY DEF Waiting
      <4>4. Len(Waiting[u]) = n + Len(pipe[u])
        BY <3>n, <4>2, <4>3
      <4> QED
        BY <4>1, <4>4
    <3>2. (fifo[u] \o pipe[u])' = pipe[u]
      BY <2>1, <2>2, ConcatEmptySeq
    <3>3. pipe[u] = SubSeq(Waiting[u], n + 1, Len(Waiting[u]))
      BY <2>1, <3>n, OnBytes DEF Waiting
    <3>4. Waiting' = [Waiting EXCEPT ![u] = SubSeq(Waiting[u], n + 1, Len(Waiting[u]))]
      BY <2>2, <3>2, <3>3, WaitingChanges
    <3>5. Channel!Drop(u, n)
      BY <2>2, <3>4 DEF Channel!Drop, Waiting
    <3> QED
      <4>1. \E m \in 1 .. Len(Waiting[u]) : Channel!Drop(u, m)
        BY <3>1, <3>5
      <4> QED
        BY <4>1 DEF Channel!Next, Waiting
  <2> QED
    BY <2>3, <2>4
<1>6. ASSUME NEW t \in Threads, UartDisable(t)
      PROVE  [Channel!Next]_Channel!vars
  <2> DEFINE u == "UART_1"
  <2>1. u \in Uarts /\ fifo[u] \in Seq(Bytes) /\ pipe[u] \in Seq(Bytes)
    BY UartsAre DEF TypeOK
  <2>2. /\ fifo'[u] = <<>> /\ pipe'[u] = <<>> /\ wire' = wire
        /\ \A v \in Uarts : v # u => fifo'[v] = fifo[v] /\ pipe'[v] = pipe[v]
    BY <1>6, <2>1 DEF TypeOK, UartDisable
  <2>3. Waiting[u] \in Seq(Bytes) /\ Len(Waiting[u]) \in Nat
    BY <2>1, ConcatProperties, LenProperties DEF Waiting
  <2> PICK n \in Nat : n = Len(Waiting[u])
    BY <2>3
  <2>4. (fifo[u] \o pipe[u])' = <<>>
    BY <2>2
  <2>5. CASE n = 0
    <3>1. Waiting[u] = <<>>
      BY <2>3, <2>5, EmptySeq
    <3>2. Waiting' = Waiting
      BY <2>1, <2>2, <2>4, <3>1 DEF Waiting
    <3> QED
      BY <2>2, <3>2 DEF Channel!vars, Waiting
  <2>6. CASE n # 0
    <3>1. SubSeq(Waiting[u], n + 1, n) = <<>>
      BY <2>3, SubSeqEmpty
    <3>2. Waiting' = [Waiting EXCEPT ![u] = SubSeq(Waiting[u], n + 1, n)]
      BY <2>1, <2>2, <2>4, <3>1, WaitingChanges
    <3>3. Channel!Drop(u, n)
      BY <2>2, <3>2 DEF Channel!Drop, Waiting
    <3> QED
      <4>1. n \in 1 .. Len(Waiting[u])
        BY <2>3, <2>6
      <4>2. \E m \in 1 .. Len(Waiting[u]) : Channel!Drop(u, m)
        BY <3>3, <4>1
      <4> QED
        BY <2>1, <4>2 DEF Channel!Next, Waiting
  <2> QED
    BY <2>5, <2>6
<1>7. CASE UNCHANGED vars
  BY <1>7, <1>1 DEF vars, deviceVars
<1>8. ASSUME NEW t \in Threads, NEW u \in Uarts, UartPush(t, u)
      PROVE  UNCHANGED Channel!vars
  BY <1>8, <1>1 DEF UartPush, deviceVars
<1>9. ASSUME NEW t \in Threads, UartPop(t)
      PROVE  UNCHANGED Channel!vars
  BY <1>9, <1>1 DEF UartPop, deviceVars
<1>10. ASSUME NEW t \in Threads, NEW bufLen \in Lengths, UartSend(t, bufLen)
      PROVE  UNCHANGED Channel!vars
  BY <1>10, <1>1 DEF UartSend, deviceVars
<1>11. ASSUME NEW t \in Threads, RaiseIrq(t)
      PROVE  UNCHANGED Channel!vars
  BY <1>11, <1>1 DEF RaiseIrq, deviceVars
<1> QED
  BY <1>2, <1>3, <1>4, <1>5, <1>6, <1>7, <1>8, <1>9, <1>10, <1>11, PushedAreUarts
  DEF Next, Sending, Client

(* Bytes leave in the order they were put, each once, and only a reset     *)
(* drops any: whatever threads, interrupts and resets do meanwhile.        *)
THEOREM OutputInOrder == Spec => ImplementsChannel
<1>1. Spec => Channel!Init /\ [][Channel!Next]_Channel!vars
  BY OutputTypes, ChannelInitially, ChannelStep, PTL DEF Spec
<1> QED
  BY <1>1 DEF ImplementsChannel, Channel!Spec

-----------------------------------------------------------------------------
(* The stack is UART_0 and a UART for each target; while the top is popped *)
(* by the newest target only, the UART each target asked for.  So the top  *)
(* is the goal of a thread that has the newest, and UART_0 again when all  *)
(* targets are gone, in whatever order they went.                          *)

StackIsTargets ==
  /\ Len(uartStack) = Len(targets) + 1 /\ uartStack[1] = "UART_0"
  /\ ~crossed => \A i \in 1 .. Len(targets) : uartStack[i + 1] = targets[i].uart

SendsToGoal ==
  \A t \in Threads : send[t].at # "idle" => send[t].to \in {send[t].uart, "any"}

(* The inductive invariant.                                                *)
StackInv == StackIsTargets /\ SendsToGoal

LEMMA TopIsGoal ==
  ASSUME TypeOK, StackIsTargets, NEW t \in Threads
  PROVE  Goal(t) \in {UartCurrent, "any"}
<1>1. targets \in Seq(Targets) /\ Len(targets) \in Nat
  BY LenProperties DEF TypeOK
<1>2. CASE targets = <<>>
  <2>1. Len(uartStack) = 1 /\ Goal(t) = "UART_0"
    BY <1>2 DEF StackIsTargets, Goal
  <2> QED
    BY <2>1 DEF StackIsTargets, UartCurrent, Last
<1>3. CASE targets # <<>> /\ ~crossed
  <2>1. Len(targets) \in 1 .. Len(targets)
    BY <1>1, <1>3, EmptySeq
  <2>2. uartStack[Len(targets) + 1] = targets[Len(targets)].uart
    BY <1>3, <2>1 DEF StackIsTargets
  <2>3. UartCurrent = Last(targets).uart
    BY <2>2 DEF StackIsTargets, UartCurrent, Last
  <2> QED
    BY <1>3, <2>3 DEF Goal
<1>4. CASE targets # <<>> /\ crossed
  BY <1>4 DEF Goal
<1> QED
  BY <1>2, <1>3, <1>4

LEMMA StackInitially == Init => TypeOK /\ StackInv
<1> SUFFICES ASSUME Init PROVE TypeOK /\ StackInv
  OBVIOUS
<1>1. TypeOK
  BY TypesInitially
<1>2. uartStack = <<"UART_0">> /\ targets = <<>> /\ \A t \in Threads : send[t].at = "idle"
  BY DEF Init, Idle
<1>3. Len(uartStack) = 1 /\ uartStack[1] = "UART_0" /\ Len(targets) = 0
  BY <1>2
<1> QED
  BY <1>1, <1>2, <1>3 DEF StackInv, StackIsTargets, SendsToGoal

LEMMA StackKept ==
  ASSUME TypeOK, StackInv, [Next]_vars
  PROVE  StackInv'
<1> USE DEF StackInv
<1>0. /\ uartStack \in Seq(Uarts) /\ targets \in Seq(Targets)
      /\ Len(uartStack) \in Nat /\ Len(targets) \in Nat
      /\ Len(uartStack) = Len(targets) + 1 /\ uartStack[1] = "UART_0"
  BY LenProperties DEF TypeOK, StackIsTargets
<1>1. ASSUME NEW t \in Threads, NEW u \in Uarts, UartPush(t, u)
      PROVE  StackInv'
  <2> DEFINE target == [by |-> t, uart |-> u]
  <2>1. target \in Targets /\ target.uart = u
    BY DEF Targets
  <2>2. /\ uartStack' = Append(uartStack, u) /\ targets' = Append(targets, target)
        /\ crossed' = crossed /\ send' = send
    BY <1>1 DEF UartPush
  <2> HIDE DEF target
  <2>3. /\ Len(uartStack') = Len(uartStack) + 1 /\ uartStack'[Len(uartStack) + 1] = u
        /\ \A i \in 1 .. Len(uartStack) : uartStack'[i] = uartStack[i]
    BY <1>0, <2>2, AppendProperties
  <2>4. /\ Len(targets') = Len(targets) + 1 /\ targets'[Len(targets) + 1] = target
        /\ \A i \in 1 .. Len(targets) : targets'[i] = targets[i]
    BY <1>0, <2>1, <2>2, AppendProperties
  <2>5. Len(uartStack') = Len(targets') + 1 /\ uartStack'[1] = "UART_0"
    BY <1>0, <2>3, <2>4
  <2>6. ASSUME ~crossed', NEW i \in 1 .. Len(targets')
        PROVE  uartStack'[i + 1] = targets'[i].uart
    <3>1. CASE i = Len(targets')
      BY <1>0, <2>1, <2>3, <2>4, <3>1
    <3>2. CASE i # Len(targets')
      <4>1. i \in 1 .. Len(targets) /\ i + 1 \in 1 .. Len(uartStack)
        BY <1>0, <2>4, <3>2
      <4>2. uartStack[i + 1] = targets[i].uart
        BY <2>2, <2>6, <4>1 DEF StackIsTargets
      <4> QED
        BY <2>3, <2>4, <4>1, <4>2
    <3> QED
      BY <3>1, <3>2
  <2>7. StackIsTargets'
    BY <2>5, <2>6 DEF StackIsTargets
  <2> QED
    BY <2>2, <2>7 DEF SendsToGoal
<1>2. ASSUME NEW t \in Threads, UartPop(t)
      PROVE  StackInv'
  <2>1. PICK i \in 1 .. Len(targets) :
          /\ targets' = RemoveAt(targets, i)
          /\ crossed' = (targets' # <<>> /\ (crossed \/ i # Len(targets)))
    BY <1>0, <1>2, LenProperties DEF UartPop
  <2>2. uartStack' = Front(uartStack) /\ send' = send
    BY <1>0, <1>2, <2>1 DEF UartPop, Popped
  <2>3. /\ Len(targets') = Len(targets) - 1 /\ targets' \in Seq(Targets)
        /\ \A j \in 1 .. i - 1 : targets'[j] = targets[j]
    BY <1>0, <2>1, Removing
  <2>4. /\ Len(uartStack') = Len(uartStack) - 1
        /\ \A j \in 1 .. Len(uartStack) - 1 : uartStack'[j] = uartStack[j]
    <3>1. Len(uartStack) - 1 \in 0 .. Len(uartStack)
      BY <1>0
    <3> QED
      BY <1>0, <2>2, <3>1, Splitting DEF Front
  <2>5. Len(uartStack') = Len(targets') + 1 /\ uartStack'[1] = "UART_0"
    BY <1>0, <2>1, <2>3, <2>4
  <2>6. ASSUME ~crossed', NEW j \in 1 .. Len(targets')
        PROVE  uartStack'[j + 1] = targets'[j].uart
    <3>1. targets' # <<>>
      BY <1>0, <2>3, EmptySeq
    <3>2. ~crossed /\ i = Len(targets)
      BY <2>1, <2>6, <3>1
    <3>3. j \in 1 .. i - 1 /\ j \in 1 .. Len(targets) /\ j + 1 \in 1 .. Len(uartStack) - 1
      BY <1>0, <2>3, <3>2
    <3>4. uartStack[j + 1] = targets[j].uart
      BY <3>2, <3>3 DEF StackIsTargets
    <3> QED
      BY <2>3, <2>4, <3>3, <3>4
  <2>7. StackIsTargets'
    BY <2>5, <2>6 DEF StackIsTargets
  <2> QED
    BY <2>2, <2>7 DEF SendsToGoal
<1>3. ASSUME NEW t \in Threads, NEW bufLen \in Lengths, UartSend(t, bufLen)
      PROVE  StackInv'
  <2>1. Goal(t) \in {UartCurrent, "any"}
    BY TopIsGoal
  <2>2. /\ UNCHANGED stackVars
        /\ \A other \in Threads : other # t => send'[other] = send[other]
        /\ \/ send'[t] = send[t]
           \/ send'[t] = [at |-> "put", uart |-> UartCurrent, to |-> Goal(t), left |-> bufLen]
    BY <1>3 DEF TypeOK, UartSend
  <2>3. SendsToGoal'
    BY <2>1, <2>2 DEF SendsToGoal
  <2> QED
    BY <2>2, <2>3 DEF StackIsTargets, stackVars
<1>4. ASSUME NEW t \in Threads, PutByte(t) \/ RaiseIrq(t)
      PROVE  StackInv'
  <2>1. /\ UNCHANGED stackVars /\ send[t].at # "idle"
        /\ \A other \in Threads : other # t => send'[other] = send[other]
    <3>1. UNCHANGED stackVars /\ send[t].at # "idle"
      BY <1>4 DEF PutByte, RaiseIrq
    <3>2. \E x : send' = [send EXCEPT ![t] = x]
      BY <1>4 DEF PutByte, RaiseIrq
    <3> QED
      BY <3>1, <3>2 DEF TypeOK
  <2>2. \/ send'[t] = Idle
        \/ send'[t].uart = send[t].uart /\ send'[t].to = send[t].to
    <3>1. send \in [Threads -> [at : {"idle", "put", "raise"}, uart : Uarts, to : Bytes, left : Nat]]
      BY DEF TypeOK
    <3>2. CASE PutByte(t)
      <4>1. send' = [send EXCEPT ![t].left = @ - 1,
                                 ![t].at = IF send[t].left = 1 THEN "raise" ELSE @]
        BY <3>2 DEF PutByte
      <4> QED
        BY <3>1, <4>1
    <3>3. CASE RaiseIrq(t)
      <4>1. send' = [send EXCEPT ![t] = Idle]
        BY <3>3 DEF RaiseIrq
      <4> QED
        BY <3>1, <4>1
    <3> QED
      BY <1>4, <3>2, <3>3
  <2>3. SendsToGoal'
    BY <2>1, <2>2 DEF SendsToGoal, Idle
  <2> QED
    BY <2>1, <2>3 DEF StackIsTargets, stackVars
<1>5. ASSUME UNCHANGED <<stackVars, send>>
      PROVE  StackInv'
  BY <1>5 DEF stackVars, StackIsTargets, SendsToGoal
<1>6. ASSUME NEW u \in Uarts, UartInterruptHandler(u) \/ Transmit(u)
      PROVE  UNCHANGED <<stackVars, send>>
  BY <1>6 DEF UartInterruptHandler, Transmit
<1>7. ASSUME NEW t \in Threads, UartDisable(t) \/ \E u \in Uarts : UartEnable(t, u)
      PROVE  UNCHANGED <<stackVars, send>>
  BY <1>7 DEF UartDisable, UartEnable
<1>8. CASE UNCHANGED vars
  BY <1>5, <1>8 DEF vars
<1> QED
  BY <1>1, <1>2, <1>3, <1>4, <1>5, <1>6, <1>7, <1>8, PushedAreUarts DEF Next, Sending, Client

(* The stack all threads share holds one UART for each target they have,   *)
(* and the UARTs these asked for until the top is popped for an older one, *)
(* for any threads, however many have targets at once.                     *)
THEOREM StackInvariant == Spec => [](TypeOK /\ StackInv)
<1>1. TypeOK /\ StackInv /\ [Next]_vars => (TypeOK /\ StackInv)'
  BY TypesKept, StackKept
<1> QED
  BY <1>1, StackInitially, PTL DEF Spec

-----------------------------------------------------------------------------
(* No byte is stranded: the pipe that is left when the FIFO is full, and   *)
(* the FIFO that runs down below the trigger, are seen to by the device;   *)
(* what is put meanwhile, by who put it, when the stack is then what it    *)
(* was, and by nobody when it is not, which missed records.                *)

(* What NoByteStranded says of one UART.                                   *)
Attended(u) ==
  \/ pending[u] \/ txIrq[u] \/ Len(fifo[u]) > Trigger
  \/ \E t \in Threads : send[t].at # "idle" /\ send[t].uart = u
  \/ u \in missed

LEMMA StrandedIsUnattended ==
  NoByteStranded <=> \A u \in Uarts : enabled[u] /\ pipe[u] # <<>> => Attended(u)
BY DEF NoByteStranded, Attended

(* A UART that a step leaves alone stays attended when its sender stays.   *)
LEMMA StaysAttended ==
  ASSUME NEW v \in Uarts, Attended(v),
         pending'[v] = pending[v], txIrq'[v] = txIrq[v], fifo'[v] = fifo[v],
         v \in missed => v \in missed',
         \A t \in Threads : send[t].at # "idle" /\ send[t].uart = v =>
                              send'[t].at # "idle" /\ send'[t].uart = v
  PROVE  Attended(v)'
BY DEF Attended

LEMMA AttendedKept ==
  ASSUME TypeOK, NoByteStranded, [Next]_vars
  PROVE  NoByteStranded'
<1> SUFFICES ASSUME NEW v \in Uarts, enabled'[v], pipe'[v] # <<>>
             PROVE  Attended(v)'
  BY DEF NoByteStranded, Attended
<1>1. enabled[v] /\ pipe[v] # <<>> => Attended(v)
  BY StrandedIsUnattended
<1>2. ASSUME NEW t \in Threads, PutByte(t)
      PROVE  Attended(v)'
  <2>1. /\ \A other \in Threads : send[other].at # "idle" =>
             send'[other].at # "idle" /\ send'[other].uart = send[other].uart
        /\ send[t].at = "put" /\ send[t].uart \in Uarts
        /\ \A u \in Uarts : u # send[t].uart => pipe'[u] = pipe[u]
        /\ pending' = pending /\ txIrq' = txIrq /\ fifo' = fifo /\ enabled' = enabled
        /\ missed' = missed
    BY <1>2 DEF PutByte, TypeOK, deviceVars
  <2>2. CASE v = send[t].uart
    BY <2>1, <2>2 DEF Attended
  <2>3. CASE v # send[t].uart
    BY <1>1, <2>1, <2>3, StaysAttended
  <2> QED
    BY <2>2, <2>3
<1>3. ASSUME NEW t \in Threads, RaiseIrq(t)
      PROVE  Attended(v)'
  <2>1. Raised \in Uarts
    BY Stack DEF TypeOK, UartCurrent, Raised
  <2>2. /\ pending'[Raised] = TRUE
        /\ \A u \in Uarts : u # Raised => pending'[u] = pending[u]
        /\ \A other \in Threads : other # t => send'[other] = send[other]
        /\ pipe' = pipe /\ txIrq' = txIrq /\ fifo' = fifo /\ enabled' = enabled
        /\ missed' = (missed \ {Raised}) \cup Misses(t)
    BY <1>3, <2>1 DEF RaiseIrq, TypeOK, deviceVars
  <2>3. CASE v = Raised
    BY <2>2, <2>3 DEF Attended
  <2>4. CASE v # Raised /\ send[t].uart = v
    <3>1. v \in Misses(t)
      BY <1>1, <2>2, <2>4 DEF Misses, Raised
    <3> QED
      BY <2>2, <3>1 DEF Attended
  <2>5. CASE v # Raised /\ send[t].uart # v
    <3>1. Attended(v)
      BY <1>1, <2>2
    <3>2. \A other \in Threads : send[other].at # "idle" /\ send[other].uart = v =>
            send'[other].at # "idle" /\ send'[other].uart = v
      BY <2>2, <2>5
    <3>3. v \in missed => v \in missed'
      BY <2>2, <2>5
    <3> QED
      BY <2>2, <2>5, <3>1, <3>2, <3>3, StaysAttended
  <2> QED
    BY <2>3, <2>4, <2>5
<1>4. ASSUME NEW u \in Uarts, UartInterruptHandler(u)
      PROVE  Attended(v)'
  <2>1. /\ fifo'[u] = PutRaw(u, SubSeq(pipe[u], 1, Fed(u)))
        /\ pipe'[u] = SubSeq(pipe[u], Fed(u) + 1, Len(pipe[u]))
        /\ \A w \in Uarts : w # u => fifo'[w] = fifo[w] /\ pipe'[w] = pipe[w]
                                      /\ txIrq'[w] = txIrq[w] /\ pending'[w] = pending[w]
        /\ enabled' = enabled /\ send' = send /\ missed' = missed \ {u}
    BY <1>4 DEF UartInterruptHandler, TypeOK
  <2>2. CASE v # u
    BY <1>1, <2>1, <2>2, StaysAttended
  <2>3. CASE v = u
    <3>1. /\ pipe[u] \in Seq(Bytes) /\ fifo[u] \in Seq(Bytes)
          /\ Len(pipe[u]) \in Nat /\ Len(fifo[u]) \in Nat
      BY LenProperties DEF TypeOK
    <3>2. /\ Fed(u) \in 0 .. Len(pipe[u])
          /\ Fed(u) < Len(pipe[u]) => Len(fifo[u]) + Fed(u) = FifoSize
          /\ fifo'[u] = fifo[u] \o SubSeq(pipe[u], 1, Fed(u))
      BY <2>1, Feeding
    <3>3. /\ SubSeq(pipe[u], 1, Fed(u)) \in Seq(Bytes)
          /\ Len(SubSeq(pipe[u], 1, Fed(u))) = Fed(u)
          /\ pipe'[u] \in Seq(Bytes)
          /\ Len(pipe'[u]) = Len(pipe[u]) - Fed(u)
      <4> PICK s \in Seq(Bytes) : s = pipe[u]
        BY <3>1
      <4> PICK n \in 0 .. Len(s) : n = Fed(u)
        BY <3>2
      <4>1. /\ SubSeq(s, 1, n) \in Seq(Bytes) /\ Len(SubSeq(s, 1, n)) = n
            /\ SubSeq(s, n + 1, Len(s)) \in Seq(Bytes)
            /\ Len(SubSeq(s, n + 1, Len(s))) = Len(s) - n
        BY Splitting
      <4> QED
        BY <2>1, <4>1
    <3>4. Len(pipe'[u]) # 0
      BY <2>3, <3>3, EmptySeq
    <3>5. Fed(u) < Len(pipe[u])
      BY <3>1, <3>2, <3>3, <3>4
    <3>6. Len(fifo'[u]) = Len(fifo[u]) + Fed(u)
      BY <3>1, <3>2, <3>3, ConcatProperties
    <3>7. Len(fifo'[u]) > Trigger
      BY <3>2, <3>5, <3>6, SizesAssumption
    <3> QED
      BY <2>3, <3>7 DEF Attended
  <2> QED
    BY <2>2, <2>3
<1>5. ASSUME NEW u \in Uarts, Transmit(u)
      PROVE  Attended(v)'
  <2>1. /\ fifo[u] \in Seq(Bytes) /\ fifo[u] # <<>> /\ fifo'[u] = Tail(fifo[u])
        /\ txIrq'[u] = (txIrq[u] \/ Len(fifo[u]) = Trigger + 1)
        /\ \A w \in Uarts : w # u => fifo'[w] = fifo[w] /\ txIrq'[w] = txIrq[w]
        /\ pipe' = pipe /\ pending' = pending /\ enabled' = enabled /\ send' = send
        /\ missed' = missed
    BY <1>5 DEF Transmit, TypeOK
  <2>2. CASE v # u
    BY <1>1, <2>1, <2>2, StaysAttended
  <2>3. CASE v = u
    <3>1. Len(fifo[u]) \in Nat /\ Len(fifo'[u]) = Len(fifo[u]) - 1
      BY <2>1, LenProperties, HeadTailProperties
    <3>2. Len(fifo[u]) > Trigger => Len(fifo'[u]) > Trigger \/ Len(fifo[u]) = Trigger + 1
      BY <3>1, SizesAssumption
    <3>3. Attended(u)
      BY <1>1, <2>1, <2>3
    <3> QED
      BY <2>1, <2>3, <3>2, <3>3 DEF Attended
  <2> QED
    BY <2>2, <2>3
<1>6. ASSUME NEW t \in Threads, NEW u \in Uarts, UartEnable(t, u)
      PROVE  Attended(v)'
  <2>1. /\ pending'[u] = TRUE /\ pipe' = pipe /\ send' = send /\ missed' = missed \ {u}
        /\ \A w \in Uarts : w # u => fifo'[w] = fifo[w] /\ txIrq'[w] = txIrq[w]
                              /\ pending'[w] = pending[w] /\ enabled'[w] = enabled[w]
    BY <1>6 DEF UartEnable, TypeOK
  <2>2. CASE v = u
    BY <2>1, <2>2 DEF Attended
  <2>3. CASE v # u
    BY <1>1, <2>1, <2>3, StaysAttended
  <2> QED
    BY <2>2, <2>3
<1>7. ASSUME NEW t \in Threads, UartDisable(t)
      PROVE  Attended(v)'
  <2>1. /\ ~enabled'["UART_1"] /\ pending' = pending /\ send' = send
        /\ missed' = missed \ {"UART_1"}
        /\ \A w \in Uarts : w # "UART_1" => fifo'[w] = fifo[w] /\ txIrq'[w] = txIrq[w]
                              /\ pipe'[w] = pipe[w] /\ enabled'[w] = enabled[w]
    BY <1>7, UartsAre DEF UartDisable, TypeOK
  <2> QED
    BY <1>1, <2>1, StaysAttended
<1>8. ASSUME NEW t \in Threads, NEW bufLen \in Lengths, UartSend(t, bufLen)
      PROVE  Attended(v)'
  <2>1. /\ pipe' = pipe /\ pending' = pending /\ fifo' = fifo /\ txIrq' = txIrq
        /\ enabled' = enabled /\ missed' = missed
        /\ \A other \in Threads : send[other].at # "idle" => send'[other] = send[other]
    BY <1>8 DEF UartSend, TypeOK, deviceVars
  <2> QED
    BY <1>1, <2>1, StaysAttended
<1>9. ASSUME \/ \E t \in Threads : UartPop(t) \/ \E u \in Uarts : UartPush(t, u)
             \/ UNCHANGED vars
      PROVE  Attended(v)'
  <2>1. /\ pipe' = pipe /\ pending' = pending /\ fifo' = fifo /\ txIrq' = txIrq
        /\ enabled' = enabled /\ send' = send /\ missed' = missed
    BY <1>9 DEF UartPop, UartPush, vars, deviceVars
  <2> QED
    BY <1>1, <2>1, StaysAttended
<1> QED
  BY <1>2, <1>3, <1>4, <1>5, <1>6, <1>7, <1>8, <1>9, PushedAreUarts DEF Next, Sending, Client

(* No byte is in the pipe of an enabled UART with nobody to take it out,   *)
(* but where the stack was changed before the interrupt was raised, for    *)
(* any threads, sizes and trigger.                                         *)
THEOREM NoneStranded == Spec => []NoByteStranded
<1>1. Init => NoByteStranded
  BY DEF Init, NoByteStranded
<1>2. TypeOK /\ NoByteStranded /\ [Next]_vars => NoByteStranded'
  BY AttendedKept
<1> QED
  BY <1>1, <1>2, OutputTypes, PTL DEF Spec

-----------------------------------------------------------------------------
(* A byte goes where it should: on its way it is only ever in the pipe,    *)
(* the FIFO and on the wire of that UART.                                  *)

For(s, u) == \A i \in 1 .. Len(s) : s[i] \in {u, "any"}

LEMMA ForBytes ==
  /\ \A u \in Uarts : For(<<>>, u)
  /\ \A s \in Seq(Bytes) : \A u \in Uarts : \A x \in Bytes :
       For(s, u) /\ x \in {u, "any"} => For(Append(s, x), u)
  /\ \A s, r \in Seq(Bytes) : \A u \in Uarts : For(s, u) /\ For(r, u) => For(s \o r, u)
  /\ \A s \in Seq(Bytes) : \A u \in Uarts : s # <<>> /\ For(s, u) =>
       For(Tail(s), u) /\ Head(s) \in {u, "any"} /\ Head(s) \in Bytes
  /\ \A s \in Seq(Bytes) : \A u \in Uarts : \A n \in 0 .. Len(s) : For(s, u) =>
       For(SubSeq(s, 1, n), u) /\ For(SubSeq(s, n + 1, Len(s)), u)
<1>1. \A u \in Uarts : For(<<>>, u)
  BY EmptySeq DEF For
<1>2. ASSUME NEW s \in Seq(Bytes), NEW u \in Uarts, NEW x \in Bytes, For(s, u), x \in {u, "any"}
      PROVE  For(Append(s, x), u)
  <2>1. /\ Len(s) \in Nat /\ Len(Append(s, x)) = Len(s) + 1
        /\ \A i \in 1 .. Len(s) : Append(s, x)[i] = s[i]
        /\ Append(s, x)[Len(s) + 1] = x
    BY LenProperties, AppendProperties
  <2>2. ASSUME NEW i \in 1 .. Len(s) + 1
        PROVE  Append(s, x)[i] \in {u, "any"}
    <3>1. CASE i = Len(s) + 1
      BY <1>2, <2>1, <3>1
    <3>2. CASE i # Len(s) + 1
      <4>1. i \in 1 .. Len(s)
        BY <2>1, <3>2
      <4> QED
        BY <1>2, <2>1, <4>1 DEF For
    <3> QED
      BY <3>1, <3>2
  <2> QED
    BY <2>1, <2>2 DEF For
<1>3. ASSUME NEW s \in Seq(Bytes), NEW r \in Seq(Bytes), NEW u \in Uarts,
             For(s, u), For(r, u)
      PROVE  For(s \o r, u)
  <2>1. /\ Len(s) \in Nat /\ Len(r) \in Nat /\ Len(s \o r) = Len(s) + Len(r)
        /\ \A i \in 1 .. Len(s) + Len(r) :
             (s \o r)[i] = IF i <= Len(s) THEN s[i] ELSE r[i - Len(s)]
    BY LenProperties, ConcatProperties
  <2>2. ASSUME NEW i \in 1 .. Len(s) + Len(r)
        PROVE  (s \o r)[i] \in {u, "any"}
    <3>1. CASE i <= Len(s)
      <4>1. i \in 1 .. Len(s) /\ (s \o r)[i] = s[i]
        BY <2>1, <3>1
      <4> QED
        BY <1>3, <4>1 DEF For
    <3>2. CASE ~(i <= Len(s))
      <4>1. i - Len(s) \in 1 .. Len(r) /\ (s \o r)[i] = r[i - Len(s)]
        BY <2>1, <3>2
      <4> QED
        BY <1>3, <4>1 DEF For
    <3> QED
      BY <3>1, <3>2
  <2> QED
    BY <2>1, <2>2 DEF For
<1>4. ASSUME NEW s \in Seq(Bytes), NEW u \in Uarts, s # <<>>, For(s, u)
      PROVE  For(Tail(s), u) /\ Head(s) \in {u, "any"} /\ Head(s) \in Bytes
  <2>1. /\ Len(s) \in Nat /\ Len(s) >= 1 /\ Head(s) = s[1] /\ Head(s) \in Bytes
        /\ Len(Tail(s)) = Len(s) - 1
        /\ \A i \in 1 .. Len(s) - 1 : Tail(s)[i] = s[i + 1]
    BY <1>4, LenProperties, EmptySeq, HeadTailProperties
  <2>2. ASSUME NEW i \in 1 .. Len(s) - 1
        PROVE  Tail(s)[i] \in {u, "any"}
    <3>1. i + 1 \in 1 .. Len(s)
      BY <2>1
    <3> QED
      BY <1>4, <2>1, <3>1 DEF For
  <2>3. 1 \in 1 .. Len(s)
    BY <2>1
  <2> QED
    BY <1>4, <2>1, <2>2, <2>3 DEF For
<1>5. ASSUME NEW s \in Seq(Bytes), NEW u \in Uarts, NEW n \in 0 .. Len(s), For(s, u)
      PROVE  For(SubSeq(s, 1, n), u) /\ For(SubSeq(s, n + 1, Len(s)), u)
  <2>1. /\ Len(s) \in Nat
        /\ Len(SubSeq(s, 1, n)) = n /\ \A i \in 1 .. n : SubSeq(s, 1, n)[i] = s[i]
        /\ Len(SubSeq(s, n + 1, Len(s))) = Len(s) - n
        /\ \A i \in 1 .. Len(s) - n : SubSeq(s, n + 1, Len(s))[i] = s[n + i]
    BY LenProperties, Splitting
  <2>2. \A i \in 1 .. n : i \in 1 .. Len(s)
    BY <2>1
  <2>3. \A i \in 1 .. Len(s) - n : n + i \in 1 .. Len(s)
    BY <2>1
  <2> QED
    BY <1>5, <2>1, <2>2, <2>3 DEF For
<1> QED
  BY <1>1, <1>2, <1>3, <1>4, <1>5

OnTarget == \A u \in Uarts : For(pipe[u], u) /\ For(fifo[u], u) /\ For(wire[u], u)

LEMMA OnTargetKept ==
  ASSUME TypeOK, StackInv, OnTarget, [Next]_vars
  PROVE  OnTarget'
<1> SUFFICES ASSUME NEW v \in Uarts
             PROVE  (For(pipe[v], v) /\ For(fifo[v], v) /\ For(wire[v], v))'
  BY DEF OnTarget
<1>1. /\ For(pipe[v], v) /\ For(fifo[v], v) /\ For(wire[v], v)
      /\ pipe[v] \in Seq(Bytes) /\ fifo[v] \in Seq(Bytes) /\ wire[v] \in Seq(Bytes)
  BY DEF OnTarget, TypeOK
<1> DEFINE Kept == pipe'[v] = pipe[v] /\ fifo'[v] = fifo[v] /\ wire'[v] = wire[v]
<1>2. Kept => (For(pipe[v], v) /\ For(fifo[v], v) /\ For(wire[v], v))'
  BY <1>1 DEF For
<1> HIDE DEF Kept
<1>3. ASSUME NEW t \in Threads, PutByte(t)
      PROVE  (For(pipe[v], v) /\ For(fifo[v], v) /\ For(wire[v], v))'
  <2>1. /\ send[t].to \in {send[t].uart, "any"} /\ send[t].to \in Bytes
        /\ send[t].uart \in Uarts
    BY <1>3 DEF PutByte, StackInv, SendsToGoal, TypeOK
  <2>2. /\ fifo' = fifo /\ wire' = wire
        /\ pipe' = [pipe EXCEPT ![send[t].uart] = Append(@, send[t].to)]
    BY <1>3 DEF PutByte, deviceVars
  <2>3. CASE v = send[t].uart
    <3> PICK x \in Bytes : x = send[t].to
      BY <2>1
    <3>1. x \in {v, "any"}
      BY <2>1, <2>3
    <3>2. pipe'[v] = Append(pipe[v], x)
      BY <2>1, <2>2, <2>3 DEF TypeOK
    <3>3. For(Append(pipe[v], x), v)
      BY <1>1, <3>1, ForBytes
    <3> QED
      BY <1>1, <2>2, <3>2, <3>3 DEF For
  <2>4. CASE v # send[t].uart
    <3>1. Kept
      BY <2>1, <2>2, <2>4 DEF Kept, TypeOK
    <3> QED
      BY <1>2, <3>1
  <2> QED
    BY <2>3, <2>4
<1>4. ASSUME NEW u \in Uarts, UartInterruptHandler(u)
      PROVE  (For(pipe[v], v) /\ For(fifo[v], v) /\ For(wire[v], v))'
  <2>1. CASE v = u
    <3>1. /\ fifo'[v] = fifo[v] \o SubSeq(pipe[v], 1, Fed(v))
          /\ pipe'[v] = SubSeq(pipe[v], Fed(v) + 1, Len(pipe[v]))
          /\ wire' = wire /\ Fed(v) \in 0 .. Len(pipe[v])
      BY <1>4, <2>1, Feeding DEF UartInterruptHandler, TypeOK
    <3>2. /\ For(SubSeq(pipe[v], 1, Fed(v)), v)
          /\ For(SubSeq(pipe[v], Fed(v) + 1, Len(pipe[v])), v)
      BY <1>1, <3>1, ForBytes
    <3>3. SubSeq(pipe[v], 1, Fed(v)) \in Seq(Bytes)
      BY <1>1, <3>1, Splitting
    <3>4. For(fifo[v] \o SubSeq(pipe[v], 1, Fed(v)), v)
      BY <1>1, <3>2, <3>3, ForBytes
    <3> QED
      BY <1>1, <3>1, <3>2, <3>4 DEF For
  <2>2. CASE v # u
    <3>1. Kept
      BY <1>4, <2>2 DEF Kept, UartInterruptHandler, TypeOK
    <3> QED
      BY <1>2, <3>1
  <2> QED
    BY <2>1, <2>2
<1>5. ASSUME NEW u \in Uarts, Transmit(u)
      PROVE  (For(pipe[v], v) /\ For(fifo[v], v) /\ For(wire[v], v))'
  <2>1. CASE v = u
    <3>1. /\ fifo[v] # <<>> /\ fifo'[v] = Tail(fifo[v]) /\ pipe' = pipe
          /\ wire'[v] = <<Head(fifo[v])>>
      BY <1>5, <2>1 DEF Transmit, TypeOK
    <3>2. For(Tail(fifo[v]), v) /\ Head(fifo[v]) \in {v, "any"} /\ Head(fifo[v]) \in Bytes
      BY <1>1, <3>1, ForBytes
    <3>3. For(<<Head(fifo[v])>>, v)
      BY <3>2 DEF For
    <3> QED
      BY <1>1, <3>1, <3>2, <3>3 DEF For
  <2>2. CASE v # u
    <3>1. Kept
      BY <1>5, <2>2 DEF Kept, Transmit, TypeOK
    <3> QED
      BY <1>2, <3>1
  <2> QED
    BY <2>1, <2>2
<1>6. ASSUME NEW t \in Threads, NEW u \in Uarts, UartEnable(t, u)
      PROVE  (For(pipe[v], v) /\ For(fifo[v], v) /\ For(wire[v], v))'
  <2>1. pipe' = pipe /\ wire' = wire /\ fifo'[v] \in {<<>>, fifo[v]}
    BY <1>6 DEF UartEnable, TypeOK
  <2> QED
    BY <1>1, <2>1, ForBytes DEF For
<1>7. ASSUME NEW t \in Threads, UartDisable(t)
      PROVE  (For(pipe[v], v) /\ For(fifo[v], v) /\ For(wire[v], v))'
  <2>1. wire' = wire /\ fifo'[v] \in {<<>>, fifo[v]} /\ pipe'[v] \in {<<>>, pipe[v]}
    BY <1>7 DEF UartDisable, TypeOK
  <2> QED
    BY <1>1, <2>1, ForBytes DEF For
<1>8. ASSUME \/ \E t \in Threads : RaiseIrq(t) \/ UartPop(t)
             \/ \E t \in Threads : \E u \in Uarts : UartPush(t, u)
             \/ \E t \in Threads : \E bufLen \in Lengths : UartSend(t, bufLen)
             \/ UNCHANGED vars
      PROVE  (For(pipe[v], v) /\ For(fifo[v], v) /\ For(wire[v], v))'
  <2>1. Kept
    BY <1>8 DEF Kept, RaiseIrq, UartPop, UartPush, UartSend, vars, deviceVars
  <2> QED
    BY <1>2, <2>1
<1> QED
  BY <1>3, <1>4, <1>5, <1>6, <1>7, <1>8, PushedAreUarts DEF Next, Sending, Client

(* What a thread sends reaches the UART its own newest target names, or    *)
(* UART_0 when there are no targets, and no other, however calls of all    *)
(* threads, interrupts and resets interleave.  It is not said of what is   *)
(* sent while another thread has the newest target, or out of order.       *)
THEOREM OutputReachesTarget == Spec => []OutputToTarget
<1>1. Init => OnTarget
  BY ForBytes DEF Init, OnTarget
<1>2. TypeOK /\ StackInv /\ OnTarget /\ [Next]_vars => OnTarget'
  BY OnTargetKept
<1>3. TypeOK /\ OnTarget => OutputToTarget
  <2> SUFFICES ASSUME TypeOK, OnTarget, NEW u \in Uarts
               PROVE  \A i \in DOMAIN wire[u] : wire[u][i] \in {u, "any"}
    BY DEF OutputToTarget
  <2>1. DOMAIN wire[u] = 1 .. Len(wire[u])
    BY LenProperties DEF TypeOK
  <2> QED
    BY <2>1 DEF OnTarget, For
<1> QED
  BY <1>1, <1>2, <1>3, StackInvariant, PTL DEF Spec
=============================================================================
