-------------------------------- MODULE UsbCdc --------------------------------
(***************************************************************************)
(* The serial output over USB of src/src/App/Peripheral/USB_CDC.cpp.  The  *)
(* Evm thread calls Send(); the TinyUSB thread, of a lower priority, has   *)
(* the callbacks of TinyUSB, and SendFromQueue() in one of them.  Send()   *)
(* does not wait, so it is one step, and may come between any two steps of *)
(* the TinyUSB thread: it preempts.  TinyUSB and the host are external.    *)
(*                                                                         *)
(* A byte is its number, modulo Modulus, among those Send() has taken.     *)
(***************************************************************************)
EXTENDS Integers, Sequences, SequencesExt, FiniteSetsExt

CONSTANTS
  FifoSize,      \* of TinyUSB
  PacketSize,    \* bytes of a transfer
  Capacities,    \* what SetSendBufCapacity is called with
  MaxLen,        \* the longest buffer that is sent
  Modulus,       \* bound: more bytes than are under way at a time
  SendsInErase   \* may Send() come just as SendFromQueue() removes what it sent?

ASSUME UsbCdcAssumption ==
  /\ {FifoSize, PacketSize, Modulus} \subseteq Nat \ {0} /\ MaxLen \in Nat
  /\ Capacities \subseteq Nat /\ Capacities # {}
  /\ \A c \in Capacities : FifoSize + PacketSize + c < Modulus
  /\ SendsInErase \in BOOLEAN

VARIABLES
  dtr_,
  sendBuf_,          \* the bytes in it
  capacity,          \* sendBuf_.capacity()
  sendBufCapacity_,
  fifo, packet,      \* of TinyUSB, and the transfer that is going on
  complete,          \* did it end, and the TinyUSB thread is still to see it?
  line,              \* the DTR the host asks for
  stage,             \* where the TinyUSB thread is
  bytesSent,         \* by its SendFromQueue()
  finish,            \* the length of sendBuf_ when it began to erase
  accepted, received \* the last byte Send() took, and the last the host got

tud == <<fifo, packet, complete, line>>
thread == <<stage, bytesSent, finish>>
cdcVars == <<dtr_, sendBuf_, capacity, sendBufCapacity_, tud, thread, accepted, received>>

CdcInit ==
  /\ dtr_ = FALSE /\ sendBuf_ = <<>> /\ capacity = 0 /\ sendBufCapacity_ \in Capacities
  /\ fifo = <<>> /\ packet = <<>> /\ complete = FALSE /\ line = FALSE
  /\ stage = "tud_task" /\ bytesSent = 0 /\ finish = 0
  /\ accepted = 0 /\ received = 0

-----------------------------------------------------------------------------
(* TinyUSB and the host.                                                   *)

(* tud_cdc_n_write and tud_cdc_n_write_flush: bytes that fit, and the next *)
(* packet when there is none under way.                                    *)
Room == FifoSize - Len(fifo)
Write(bytes) ==
  LET all == fifo \o bytes
      n == IF packet # <<>> \/ complete THEN 0 ELSE Min({PacketSize, Len(all)})
  IN  /\ fifo' = SubSeq(all, n + 1, Len(all))
      /\ packet' = IF n > 0 THEN SubSeq(all, 1, n) ELSE packet

Transfer ==
  /\ packet # <<>> /\ line
  /\ received' = Last(packet) /\ packet' = <<>> /\ complete' = TRUE
  /\ UNCHANGED <<dtr_, sendBuf_, capacity, sendBufCapacity_, fifo, line, thread, accepted>>

(* A program on the host opens the port, or closes it.                     *)
SetControlLineState ==
  /\ line = dtr_ /\ line' = ~line
  /\ UNCHANGED <<dtr_, sendBuf_, capacity, sendBufCapacity_, fifo, packet, complete, thread,
                 accepted, received>>

-----------------------------------------------------------------------------
(* The Evm thread.                                                         *)

Numbers(n) == [i \in 1 .. n |-> (accepted + i) % Modulus]

(* reserve() never makes the buffer smaller.                               *)
Reserved == Max({capacity, sendBufCapacity_})

(* SendImmediate() when nothing is queued, and what is left is queued as   *)
(* far as there is room; the rest overflows.                               *)
TakeBytes(bufLen) ==
  LET now == IF sendBuf_ = <<>> THEN Min({bufLen, Room}) ELSE 0
      queued == Min({bufLen - now, Reserved - Len(sendBuf_)})
      bytes == Numbers(now + queued)
  IN  /\ IF sendBuf_ = <<>> THEN Write(SubSeq(bytes, 1, now)) ELSE UNCHANGED <<fifo, packet>>
      /\ sendBuf_' = sendBuf_ \o SubSeq(bytes, now + 1, now + queued)
      /\ capacity' = IF bufLen > now THEN Reserved ELSE capacity
      /\ accepted' = (accepted + now + queued) % Modulus

Send(bufLen) ==
  /\ stage \in {"clear", "erase"} => SendsInErase
  /\ dtr_ /\ bufLen > 0
  /\ TakeBytes(bufLen)
  /\ UNCHANGED <<dtr_, sendBufCapacity_, complete, line, thread, received>>

SetSendBufCapacity(c) ==
  /\ c # sendBufCapacity_ /\ sendBufCapacity_' = c
  /\ UNCHANGED <<dtr_, sendBuf_, capacity, tud, thread, accepted, received>>

-----------------------------------------------------------------------------
(* The TinyUSB thread.                                                     *)

(* tud_cdc_line_state_cb: closed, it calls Clear(); while dtr_ is FALSE    *)
(* Send() does nothing, so this is one step.  A packet under way stays     *)
(* with TinyUSB.  What is dropped was never taken.                         *)
LineState ==
  /\ dtr_' = line
  /\ IF line THEN UNCHANGED <<fifo, sendBuf_, accepted>>
     ELSE /\ fifo' = <<>> /\ sendBuf_' = <<>>
          /\ accepted' = IF packet # <<>> THEN Last(packet) ELSE received

LineStateCallback ==
  /\ stage = "tud_task" /\ line # dtr_
  /\ LineState
  /\ UNCHANGED <<capacity, sendBufCapacity_, packet, complete, line, thread, received>>

(* Mutant: only when all that is queued fits.                              *)
TxCompleteWhole == stage' = IF Len(sendBuf_) <= Room THEN "queue" ELSE "tud_task"

TxComplete == stage' = "queue"

(* tud_cdc_tx_complete_cb: the endpoint is free again.                     *)
TxCompleteCallback ==
  /\ stage = "tud_task" /\ complete
  /\ complete' = FALSE /\ TxComplete
  /\ UNCHANGED <<dtr_, sendBuf_, capacity, sendBufCapacity_, fifo, packet, line, bytesSent,
                 finish, accepted, received>>

(* SendFromQueue(): the size, SendImmediate(), and the size again.         *)
SendFromQueue ==
  /\ stage = "queue"
  /\ LET n == Min({Len(sendBuf_), Room})
     IN  /\ bytesSent' = n /\ stage' = IF sendBuf_ = <<>> THEN "flush" ELSE "sent"
         /\ Write(SubSeq(sendBuf_, 1, n))
  /\ UNCHANGED <<dtr_, sendBuf_, capacity, sendBufCapacity_, complete, line, finish, accepted,
                 received>>

(* Mutant: all that was queued is gone with what was sent.                 *)
AfterSentClears == stage' = IF bytesSent > 0 THEN "clear" ELSE "flush"

AfterSent == stage' = CASE bytesSent = Len(sendBuf_) -> "clear"
                     [] bytesSent < Len(sendBuf_) /\ bytesSent > 0 -> "erase"
                     [] OTHER -> "flush"

CompareSent ==
  /\ stage = "sent" /\ AfterSent
  /\ finish' = Len(sendBuf_)
  /\ UNCHANGED <<dtr_, sendBuf_, capacity, sendBufCapacity_, tud, bytesSent, accepted,
                 received>>

(* erase() moves what is left to the front and sets the length.  Of bytes  *)
(* that were added meanwhile it moves all, or drops them, or has what was  *)
(* in their new place before.                                              *)
Erased ==
  LET kept == SubSeq(sendBuf_, bytesSent + 1, finish)
  IN  {kept, SubSeq(sendBuf_, bytesSent + 1, Len(sendBuf_)),
       kept \o SubSeq(sendBuf_, finish - bytesSent + 1, Len(sendBuf_) - bytesSent)}

RemoveSent ==
  /\ \/ stage = "clear" /\ sendBuf_' = <<>>
     \/ stage = "erase" /\ sendBuf_' \in Erased
  /\ stage' = "flush" /\ bytesSent' = 0 /\ finish' = 0
  /\ UNCHANGED <<dtr_, capacity, sendBufCapacity_, tud, accepted, received>>

(* TinyUSB flushes when its callback returns.                              *)
Flush ==
  /\ stage = "flush" /\ stage' = "tud_task"
  /\ Write(<<>>)
  /\ UNCHANGED <<dtr_, sendBuf_, capacity, sendBufCapacity_, complete, line, bytesSent,
                 finish, accepted, received>>

TinyUsbThread ==
  LineStateCallback \/ TxCompleteCallback \/ SendFromQueue \/ CompareSent \/ RemoveSent \/ Flush

CdcNext ==
  \/ Transfer \/ SetControlLineState
  \/ \E n \in 1 .. MaxLen : Send(n)
  \/ \E c \in Capacities : SetSendBufCapacity(c)
  \/ TinyUsbThread

CdcSpec == CdcInit /\ [][CdcNext]_cdcVars

(* The Evm thread waits often enough for TinyUSB's to run, and the host    *)
(* reads a port that it has open.                                          *)
CdcFairness == WF_cdcVars(Transfer) /\ WF_cdcVars(TinyUsbThread)

-----------------------------------------------------------------------------
(* Of sendBuf_, what SendFromQueue() has not handed on.                    *)
Unsent == SubSeq(sendBuf_, 1 + (IF stage \in {"sent", "clear", "erase"} THEN bytesSent ELSE 0),
                 Len(sendBuf_))
UnderWay == packet \o fifo \o Unsent

(* "Send will take as many bytes as possible to send, queuing if           *)
(* necessary": each byte it took reaches the host once, in order, or is    *)
(* dropped with all after it when the port is closed.                      *)
NoneLost ==
  /\ UnderWay = [i \in DOMAIN UnderWay |-> (received + i) % Modulus]
  /\ accepted = (received + Len(UnderWay)) % Modulus

(* "TinyUSB will call back the application on send complete, at which      *)
(* point we send more data from our queue": whenever there is a queue, a   *)
(* send is under way that will complete, or the callback has yet to end.   *)
QueueMoves == sendBuf_ # <<>> => packet # <<>> \/ complete \/ stage # "tud_task"

(* A port that is open for good gets what Send() took, however much more   *)
(* is sent.                                                                *)
Delivered ==
  <>[](line /\ UnderWay # <<>>) => []<><<received' # received>>_cdcVars
=============================================================================
