------------------------------ MODULE UartOutput ------------------------------
(***************************************************************************)
(* What threads send to the UARTs: the output half of                      *)
(* src/src/App/Peripheral/UART.cpp.  A thread sends to the UART on top of  *)
(* a stack that all threads share, a byte at a time, into the pipe of that *)
(* UART, and then raises its interrupt.  The handler feeds the FIFO of the *)
(* device from the pipe, and the device interrupts again when its FIFO has *)
(* run down, but not when bytes are put into the pipe.                     *)
(*                                                                         *)
(* A thread runs while those of higher priority wait: between two calls,   *)
(* or in Put() for room in a pipe.  Nothing keeps two threads from having  *)
(* targets at once: one may then send to the UART of the other, raise its  *)
(* interrupt, and take the other's target off the stack for its own.  The  *)
(* histories crossed and missed say when that happened.                    *)
(***************************************************************************)
EXTENDS Integers, Sequences, SequencesExt

CONSTANTS
  Threads,
  Priority,          \* of each thread, a number
  PipeSize,          \* UART_OUTPUT_PIPE_SIZE
  FifoSize, Trigger, \* the device's FIFO and when it interrupts
  Lengths,           \* what threads send: the lengths of their buffers
  Uses,              \* which UARTs each thread has targets for
  MaxSends,          \* bound: calls of UartSend
  MaxDepth           \* bound: the stack

ASSUME SizesAssumption ==
  /\ PipeSize \in Nat \ {0} /\ FifoSize \in Nat \ {0}
  /\ Trigger \in 0 .. FifoSize - 1 /\ Uses \in [Threads -> SUBSET {"UART_0", "UART_1"}]
  /\ Lengths \subseteq Nat \ {0} /\ MaxSends \in Nat /\ MaxDepth \in Nat

VARIABLES
  uartStack,  \* the UARTs that were pushed, on top of the first
  targets,    \* the UartTarget objects there are, the newest last
  crossed,    \* has the top been popped for an older target, since there was none?
  pipe,       \* UART_x_OUTPUT_PIPE
  fifo,       \* in the device
  wire,       \* the byte the device has sent last, if any
  txIrq,      \* the device's interrupt, until it is cleared
  pending,    \* irq_set_pending
  enabled,    \* uart1Enabled_; the other is always
  send,       \* where each thread is in UartSend
  missed,     \* the UARTs with bytes whose interrupt another got instead
  sends       \* how many calls of UartSend there were

stackVars == <<uartStack, targets, crossed>>
deviceVars == <<fifo, wire, txIrq, enabled>>
vars == <<stackVars, pipe, deviceVars, pending, send, missed, sends>>

Uarts == {"UART_0", "UART_1"}
Targets == [by : Threads, uart : Uarts]

(* A byte is known by where it should go: to a UART, or to any.            *)
Bytes == Uarts \cup {"any"}

Idle == [at |-> "idle", uart |-> "UART_0", to |-> "UART_0", left |-> 0]

Init ==
  /\ uartStack = <<"UART_0">> /\ targets = <<>> /\ crossed = FALSE
  /\ pipe = [u \in Uarts |-> <<>>]
  /\ fifo = [u \in Uarts |-> <<>>] /\ wire = [u \in Uarts |-> <<>>]
  /\ txIrq = [u \in Uarts |-> FALSE] /\ pending = [u \in Uarts |-> TRUE]
  /\ enabled = [u \in Uarts |-> TRUE]
  /\ send = [t \in Threads |-> Idle]
  /\ missed = {} /\ sends = 0

-----------------------------------------------------------------------------
(* The stack of UARTs.                                                     *)

UartCurrent == Last(uartStack)

(* Where what a thread sends now should go: to its own target, or to the   *)
(* first UART when there is none.  While the newest target is another's,   *)
(* or after targets were popped out of order, the code promises nothing.   *)
Goal(t) ==
  IF targets = <<>> THEN "UART_0"
  ELSE IF Last(targets).by = t /\ ~crossed THEN Last(targets).uart
  ELSE "any"

Full(u) == Len(pipe[u]) = PipeSize

Waits(t) == send[t].at = "idle" \/ (send[t].at = "put" /\ Full(send[t].uart))

CanRun(t) == \A other \in Threads : Priority[other] > Priority[t] => Waits(other)

(* A UartTarget object.                                                    *)
UartPush(t, u) ==
  /\ CanRun(t) /\ send[t].at = "idle" /\ Len(uartStack) < MaxDepth
  /\ uartStack' = Append(uartStack, u)
  /\ targets' = Append(targets, [by |-> t, uart |-> u])
  /\ UNCHANGED <<crossed, pipe, deviceVars, pending, send, missed, sends>>

(* Mutant: the last but one stays, too.                                    *)
PoppedButTwo == IF Len(uartStack) > 2 THEN Front(uartStack) ELSE uartStack

Popped == IF Len(uartStack) # 1 THEN Front(uartStack) ELSE uartStack

Newest(t, i) ==
  targets[i].by = t /\ \A j \in i + 1 .. Len(targets) : targets[j].by # t

(* ~UartTarget, of the newest that the thread has.  It takes the top of    *)
(* the stack, whoever pushed that.                                         *)
UartPop(t) ==
  /\ CanRun(t) /\ send[t].at = "idle"
  /\ \E i \in DOMAIN targets :
       /\ Newest(t, i)
       /\ targets' = RemoveAt(targets, i)
       /\ crossed' = (targets' # <<>> /\ (crossed \/ i # Len(targets)))
  /\ uartStack' = Popped
  /\ UNCHANGED <<pipe, deviceVars, pending, send, missed, sends>>

-----------------------------------------------------------------------------
(* UartSend, outside of interrupts.                                        *)

(* A buffer that is longer than the pipe is not sent.                      *)
UartSend(t, bufLen) ==
  /\ CanRun(t) /\ send[t].at = "idle" /\ sends < MaxSends
  /\ sends' = sends + 1
  /\ send' = IF bufLen <= PipeSize
             THEN [send EXCEPT ![t] = [at |-> "put", uart |-> UartCurrent,
                                       to |-> Goal(t), left |-> bufLen]]
             ELSE send
  /\ UNCHANGED <<stackVars, pipe, deviceVars, pending, missed>>

(* Put(), which waits for room for each byte.                              *)
PutByte(t) ==
  LET u == send[t].uart
  IN
  /\ CanRun(t) /\ send[t].at = "put" /\ ~Full(u)
  /\ pipe' = [pipe EXCEPT ![u] = Append(@, send[t].to)]
  /\ send' = [send EXCEPT ![t].left = @ - 1,
                          ![t].at = IF send[t].left = 1 THEN "raise" ELSE @]
  /\ UNCHANGED <<stackVars, deviceVars, pending, missed, sends>>

(* Mutant: only the first UART has an interrupt to be raised.              *)
RaisedAlways0 == "UART_0"

(* Whose interrupt: the current UART's, asked for anew.                    *)
Raised == UartCurrent

(* Did others change the stack meanwhile, so that another UART is current, *)
(* with bytes left in the pipe?                                            *)
Misses(t) ==
  {u \in Uarts : u = send[t].uart /\ u # UartCurrent /\ pipe[u] # <<>>}

RaiseIrq(t) ==
  /\ CanRun(t) /\ send[t].at = "raise"
  /\ pending' = [pending EXCEPT ![Raised] = TRUE]
  /\ send' = [send EXCEPT ![t] = Idle]
  /\ missed' = (missed \ {Raised}) \cup Misses(t)
  /\ UNCHANGED <<stackVars, pipe, deviceVars, sends>>

-----------------------------------------------------------------------------
(* Interrupts and the device.                                              *)

Smaller(a, b) == IF a < b THEN a ELSE b

(* Mutant: nobody asks whether the device is writable.                     *)
FedUnasked(u) == Len(pipe[u])

(* while (pipeOut.Count() && uart_is_writable(uart))                       *)
Fed(u) == Smaller(Len(pipe[u]), FifoSize - Len(fifo[u]))

(* uart_putc_raw: a FIFO that is full takes no more.                       *)
PutRaw(u, bytes) ==
  fifo[u] \o SubSeq(bytes, 1, Smaller(Len(bytes), FifoSize - Len(fifo[u])))

(* The device takes back its interrupt when its FIFO is above the trigger, *)
(* and the handler clears it when the pipe is empty.  It runs for what is  *)
(* received, too, so it may at any time.                                   *)
UartInterruptHandler(u) ==
  /\ enabled[u]
  /\ fifo' = [fifo EXCEPT ![u] = PutRaw(u, SubSeq(pipe[u], 1, Fed(u)))]
  /\ pipe' = [pipe EXCEPT ![u] = SubSeq(@, Fed(u) + 1, Len(@))]
  /\ txIrq' = [txIrq EXCEPT ![u] = @ /\ pipe'[u] # <<>> /\ Len(fifo'[u]) <= Trigger]
  /\ pending' = [pending EXCEPT ![u] = FALSE]
  /\ missed' = missed \ {u}
  /\ UNCHANGED <<stackVars, wire, enabled, send, sends>>

Interrupts(u) == (txIrq[u] \/ pending[u]) /\ UartInterruptHandler(u)

Transmit(u) ==
  /\ fifo[u] # <<>>
  /\ wire' = [wire EXCEPT ![u] = <<Head(fifo[u])>>]
  /\ fifo' = [fifo EXCEPT ![u] = Tail(@)]
  /\ txIrq' = [txIrq EXCEPT ![u] = @ \/ Len(fifo[u]) = Trigger + 1]
  /\ UNCHANGED <<stackVars, pipe, pending, enabled, send, missed, sends>>

(* Mutant: interrupts are set up, but none is raised.                      *)
UartEnableOnly(t, u) ==
  /\ CanRun(t) /\ send[t].at = "idle"
  /\ enabled' = [enabled EXCEPT ![u] = TRUE]
  /\ fifo' = [fifo EXCEPT ![u] = <<>>]
  /\ txIrq' = [txIrq EXCEPT ![u] = FALSE]
  /\ missed' = missed \ {u}
  /\ UNCHANGED <<stackVars, pipe, pending, wire, send, sends>>

(* Resets the device, which RP2040 clock changes do to an enabled one too. *)
UartEnable(t, u) ==
  /\ CanRun(t) /\ send[t].at = "idle"
  /\ enabled' = [enabled EXCEPT ![u] = TRUE]
  /\ fifo' = [fifo EXCEPT ![u] = <<>>]
  /\ txIrq' = [txIrq EXCEPT ![u] = FALSE]
  /\ pending' = [pending EXCEPT ![u] = TRUE]
  /\ missed' = missed \ {u}
  /\ UNCHANGED <<stackVars, pipe, wire, send, sends>>

(* Does nothing to UART_0.                                                 *)
UartDisable(t) ==
  /\ CanRun(t) /\ send[t].at = "idle"
  /\ pipe' = [pipe EXCEPT !["UART_1"] = <<>>]
  /\ fifo' = [fifo EXCEPT !["UART_1"] = <<>>]
  /\ txIrq' = [txIrq EXCEPT !["UART_1"] = FALSE]
  /\ enabled' = [enabled EXCEPT !["UART_1"] = FALSE]
  /\ missed' = missed \ {"UART_1"}
  /\ UNCHANGED <<stackVars, pending, wire, send, sends>>

-----------------------------------------------------------------------------
Sending(t) == PutByte(t) \/ RaiseIrq(t)

Client(t) ==
  \/ \E u \in Uses[t] : UartPush(t, u)
  \/ UartPop(t)
  \/ \E bufLen \in Lengths : UartSend(t, bufLen)
  \/ \E u \in Uarts : UartEnable(t, u)
  \/ UartDisable(t)

Next ==
  \/ \E t \in Threads : Sending(t) \/ Client(t)
  \/ \E u \in Uarts : UartInterruptHandler(u) \/ Transmit(u)

Spec == Init /\ [][Next]_vars

(* The device works, interrupts that are asked for come, and a thread that *)
(* can go on again and again does, for all that those above it do.         *)
FairSpec ==
  /\ Spec
  /\ \A u \in Uarts : WF_vars(Interrupts(u)) /\ WF_vars(Transmit(u))
  /\ \A t \in Threads : SF_vars(Sending(t))

-----------------------------------------------------------------------------
(* Types, and the bounds of stack, pipe and FIFO.                          *)
TypeOK ==
  /\ uartStack \in Seq(Uarts) /\ uartStack # <<>>
  /\ targets \in Seq(Targets) /\ crossed \in BOOLEAN
  /\ pipe \in [Uarts -> Seq(Bytes)]
  /\ fifo \in [Uarts -> Seq(Bytes)]
  /\ wire \in [Uarts -> Seq(Bytes)]
  /\ \A u \in Uarts : Len(pipe[u]) <= PipeSize /\ Len(fifo[u]) <= FifoSize
  /\ txIrq \in [Uarts -> BOOLEAN] /\ pending \in [Uarts -> BOOLEAN]
  /\ enabled \in [Uarts -> BOOLEAN] /\ enabled["UART_0"]
  /\ send \in [Threads -> [at : {"idle", "put", "raise"}, uart : Uarts, to : Bytes, left : Nat]]
  /\ \A t \in Threads : send[t].at = "put" <=> send[t].left > 0
  /\ missed \subseteq Uarts
  /\ sends \in 0 .. MaxSends

(* "Allow code to decide which UART it wants to send data to" (UART.h):    *)
(* what a thread sends goes where its own UartTarget objects say when they *)
(* are the newest, and to UART_0 again when there are none, whatever other *)
(* threads pushed, sent and popped before and do while it waits for room.  *)
OutputToTarget ==
  \A u \in Uarts : \A i \in DOMAIN wire[u] : wire[u][i] \in {u, "any"}

(* "trigger interrupts to kick off any already-queued data" (UartEnable),  *)
(* and after every Put(): no byte is in the pipe of an enabled UART with   *)
(* neither an interrupt, nor a FIFO that will give one, nor somebody on    *)
(* the way to raise one, unless that was given to another UART because the *)
(* stack changed between the first byte and the last.                      *)
NoByteStranded ==
  \A u \in Uarts : enabled[u] /\ pipe[u] # <<>> =>
    \/ pending[u] \/ txIrq[u] \/ Len(fifo[u]) > Trigger
    \/ \E t \in Threads : send[t].at # "idle" /\ send[t].uart = u
    \/ u \in missed

(* Bytes leave in the order they were put, each once, and only a reset of  *)
(* the device or of its pipe drops any.                                    *)
Channel == INSTANCE OutputChannel
  WITH Outputs <- Uarts, waiting <- [u \in Uarts |-> fifo[u] \o pipe[u]]

ImplementsChannel == Channel!Spec

(* What is put into the pipe of an enabled UART leaves it, or its UART has *)
(* missed the interrupt.                                                   *)
OutputSent ==
  \A u \in Uarts :
    enabled[u] /\ pipe[u] # <<>> ~> pipe[u] = <<>> \/ ~enabled[u] \/ u \in missed
=============================================================================
