-------------------------------- MODULE BleGatt --------------------------------
(***************************************************************************)
(* The attribute server of src/src/BLE/BleGatt.cpp: reads, writes and      *)
(* notifications of characteristics, between callbacks of btstack, which   *)
(* come as interrupts, and the work these queue for the Evm thread, where  *)
(* the application's callbacks are.  Work runs in the order it was queued, *)
(* and interrupts come in the middle of it.                                *)
(*                                                                         *)
(* btstack is external.  It has one request of the client at a time; an    *)
(* answer that is pending it asks for again when att_server_response_ready *)
(* is called.  A long value comes in blobs of up to Chunk bytes, a client  *)
(* may ask for the next after a full one.  A long write comes in chunks,   *)
(* then VALIDATE, then EXECUTE, or CANCEL after an error.                  *)
(*                                                                         *)
(* A byte that is written is known by the write it is part of, and a byte  *)
(* that is read by the characteristic and the version of its value.        *)
(*                                                                         *)
(* Three things go wrong here that nothing in the code prevents, and the   *)
(* histories say when they have: outpaced, that interrupts came faster     *)
(* than Evm ran what they queued; recounted, that a long write began with  *)
(* bytes of another still counted; gaveUp, that a client did not ask for   *)
(* the rest of a value.                                                    *)
(***************************************************************************)
EXTENDS Integers, Sequences

CONSTANTS
  Handles,          \* of characteristics, as handleReadWriteMap_ has them
  Notified,         \* those that have a handle in handleNotifyMap_ as well
  ServiceLists,     \* the sets of characteristics Init() is called with
  NoHandle,         \* 0
  Versions,         \* of values the application has to tell
  Length,           \* and how many bytes they are
  Chunk,            \* bytes of an answer
  WRITE_BUF_SIZE,
  Sizes,            \* bytes of a single-shot write, or of a chunk of a long one
  GoesOn,           \* are there steps after something went wrong?
  QueueSize         \* the room for this work in Evm's queue, when there is any

ASSUME BleGattAssumption ==
  /\ Notified \subseteq Handles /\ ServiceLists \subseteq SUBSET Handles /\ NoHandle \notin Handles
  /\ Length \in [Versions -> Nat] /\ Chunk \in Nat \ {0} /\ Sizes \subseteq Nat
  /\ QueueSize \in Nat /\ GoesOn \in BOOLEAN

VARIABLES
  handles,        \* the keys of handleReadWriteMap_
  connected_,
  readState_, writeState_,
  handle_,        \* the characteristic last notified of
  evmQueue, evm,  \* Evm's queue, and the work it is in the middle of
  canSend,        \* has btstack an ATT_EVENT_CAN_SEND_NOW to give?
  client,         \* what the client is at
  writeId,        \* which write is next, of two
  owed,           \* writes that were accepted and not delivered; NoHandle in one
                  \* that another came after, to another characteristic
  toNotify,       \* the characteristic whose subscriber was promised a notification
  crashed,        \* an access out of range, of the map or of the buffer
  outpaced,       \* was work dropped, or overtaken by a connection or by Init()?
  recounted,      \* will a long write count bytes that were another's?
  gaveUp          \* is there the rest of a value nobody asked for?

readVars == <<readState_, gaveUp>>
writeVars == <<writeState_, writeId, recounted>>
notifyVars == <<handle_, canSend, toNotify>>
evmVars == <<evmQueue, evm, outpaced>>
vars == <<handles, connected_, readVars, writeVars, owed, notifyVars, evmVars,
          client, crashed>>

Idle == [op |-> "idle"]
NoValue == [handle |-> NoHandle, version |-> NoHandle]
ReadState == [readyToSend |-> FALSE, handle |-> NoHandle, byteList |-> NoValue]
WriteState == [handle |-> NoHandle, byteList |-> <<>>, bufferExceeded |-> FALSE,
               bytesAccumulated |-> 0]

Quiet == evmQueue = <<>> /\ evm = Idle
AtRest == client = Idle
SizeOf(b) == IF b = NoValue THEN 0 ELSE Length[b.version]

Init ==
  /\ handles \in ServiceLists /\ connected_ = FALSE
  /\ readState_ = ReadState /\ writeState_ = WriteState /\ handle_ = NoHandle
  /\ evmQueue = <<>> /\ evm = Idle /\ canSend = FALSE
  /\ client = Idle /\ writeId = 0 /\ owed = <<>>
  /\ toNotify = NoHandle /\ crashed = FALSE
  /\ outpaced = FALSE /\ recounted = FALSE /\ gaveUp = FALSE

(* Evm::QueueWork from an interrupt: when the queue is full, with this     *)
(* work or with others', the work is dropped and nobody is told.           *)
QueueWork(work) ==
  \/ /\ Len(evmQueue) < QueueSize /\ evmQueue' = Append(evmQueue, work)
     /\ UNCHANGED outpaced
  \/ outpaced' = TRUE /\ UNCHANGED evmQueue

(* What is owed is known as long as no account was lost.                   *)
Owe(writes) == owed' = IF outpaced' \/ recounted' THEN <<>> ELSE writes

-----------------------------------------------------------------------------
(* Connections.                                                            *)

OnConnect ==
  /\ connected_' = TRUE
  /\ readState_' = ReadState /\ writeState_' = WriteState

(* When all work is done, it starts afresh.                                *)
Connect ==
  /\ ~connected_
  /\ OnConnect
  /\ outpaced' = ~Quiet /\ recounted' = (recounted /\ ~Quiet) /\ gaveUp' = FALSE
  /\ Owe(owed)
  /\ UNCHANGED <<handles, writeId, notifyVars, evmQueue, evm, client, crashed>>

OnDisconnect ==
  /\ connected_
  /\ connected_' = FALSE /\ client' = Idle
  /\ canSend' = FALSE /\ toNotify' = NoHandle
  /\ UNCHANGED <<handles, readVars, writeVars, owed, handle_, evmVars, crashed>>

-----------------------------------------------------------------------------
(* Reads.                                                                  *)

(* A read is sound when it finds nothing that was got for another.         *)
ReadRequest(h) ==
  /\ connected_ /\ AtRest
  /\ client' = [op |-> "read", handle |-> h, offset |-> 0, from |-> {}, pending |-> FALSE,
                sound |-> ~gaveUp]
  /\ UNCHANGED <<handles, connected_, readVars, writeVars, owed, notifyVars, evmVars,
                 crashed>>

(* The client has a full blob, and does not ask for the next.              *)
GiveUp ==
  /\ client.op = "read" /\ ~client.pending /\ client.offset > 0
  /\ client' = Idle
  /\ gaveUp' = (gaveUp \/ readState_.readyToSend)
  /\ UNCHANGED <<handles, connected_, readState_, writeVars, owed, notifyVars, evmVars,
                 crashed>>

(* Mutant: nobody says that this was the end of it.                        *)
EndsNever(offset) == FALSE

(* bytesLeftAfterThisSend is zero.                                         *)
Ends(offset) == SizeOf(readState_.byteList) <= offset + Chunk

(* Mutant: a value that was just asked for is taken to be on its way.      *)
ReadPendingOnce ==
  /\ ~readState_.readyToSend
  /\ readState_' = [readState_ EXCEPT !.handle = client.handle]
  /\ client' = [client EXCEPT !.pending = TRUE]
  /\ IF client.handle \in handles \ {readState_.handle} THEN QueueWork([op |-> "read"])
                                                       ELSE UNCHANGED <<evmQueue, outpaced>>
  /\ UNCHANGED gaveUp

(* att_read_callback_read.  Not ready, it is called twice: to say pending, *)
(* and with ATT_READ_RESPONSE_PENDING to have the value got.               *)
ReadPending ==
  /\ ~readState_.readyToSend
  /\ readState_' = [readState_ EXCEPT !.handle = client.handle]
  /\ client' = [client EXCEPT !.pending = TRUE]
  /\ IF client.handle \in handles THEN QueueWork([op |-> "read"])
                                  ELSE UNCHANGED <<evmQueue, outpaced>>
  /\ UNCHANGED gaveUp

ReadSend ==
  LET b == readState_.byteList
  IN  /\ readState_.readyToSend
      /\ readState_' = [readState_ EXCEPT !.readyToSend = ~Ends(client.offset)]
      /\ client' = IF SizeOf(b) - client.offset < Chunk
                     THEN Idle
                     ELSE [client EXCEPT !.offset = @ + Chunk, !.from = @ \cup {b}]
      /\ gaveUp' = (gaveUp /\ ~Ends(client.offset))
      /\ UNCHANGED <<evmQueue, outpaced>>

AttRead ==
  /\ client.op = "read" /\ ~client.pending
  /\ ReadPending \/ ReadSend
  /\ UNCHANGED <<handles, connected_, writeVars, notifyVars, evm, crashed>>
  /\ Owe(owed)

-----------------------------------------------------------------------------
(* Writes.                                                                 *)

Bytes(n) == [i \in 1 .. n |-> writeId]
Fits(n) == Len(writeState_.byteList) + n <= WRITE_BUF_SIZE

(* writeState_.handle is one for all the writes that wait.                 *)
Redirected(h) ==
  [i \in DOMAIN owed |-> IF owed[i].handle = h THEN owed[i]
                                              ELSE [owed[i] EXCEPT !.handle = NoHandle]]

(* What has accumulated is handed to Evm.                                  *)
Commit(w, debt) ==
  IF w.handle \in handles
    THEN /\ QueueWork([op |-> "write", n |-> w.bytesAccumulated])
         /\ Owe(Append(Redirected(w.handle), debt))
    ELSE UNCHANGED <<evmQueue, outpaced>> /\ Owe(Redirected(w.handle))

(* ATT_TRANSACTION_MODE_ACTIVE, with room: a chunk adds to what has        *)
(* accumulated.  Also a mutant of StoreSingle.                             *)
StoreOn(w, h, n) ==
  [w EXCEPT !.handle = h, !.byteList = @ \o Bytes(n), !.bytesAccumulated = @ + n]

(* ATT_TRANSACTION_MODE_NONE, with and without room.                       *)
StoreSingle(w, h, n) ==
  [w EXCEPT !.handle = h, !.byteList = @ \o Bytes(n), !.bytesAccumulated = n]

WriteSingle(h, n) ==
  /\ connected_ /\ AtRest
  /\ UNCHANGED recounted
  /\ IF Fits(n)
       THEN /\ writeState_' = StoreSingle(writeState_, h, n) /\ writeId' = 1 - writeId
            /\ Commit(writeState_', [handle |-> h, bytes |-> Bytes(n)])
       ELSE /\ writeState_' = [writeState_ EXCEPT !.handle = h]
            /\ UNCHANGED <<writeId, evmQueue, outpaced>> /\ Owe(Redirected(h))
  /\ UNCHANGED <<handles, connected_, readVars, notifyVars, evm, client, crashed>>

LongWrite(h) ==
  /\ connected_ /\ AtRest
  /\ client' = [op |-> "write", handle |-> h, bytes |-> <<>>, mode |-> "ACTIVE"]
  /\ recounted' = (recounted \/ writeState_.bytesAccumulated # 0)
  /\ UNCHANGED outpaced /\ Owe(owed)
  /\ UNCHANGED <<handles, connected_, readVars, writeState_, writeId, notifyVars,
                 evmQueue, evm, crashed>>

(* ATT_TRANSACTION_MODE_ACTIVE: after a chunk that does not fit, btstack   *)
(* goes on to CANCEL.                                                      *)
Active(n) ==
  /\ client.mode = "ACTIVE"
  /\ IF Fits(n)
       THEN /\ writeState_' = StoreOn(writeState_, client.handle, n)
            /\ \E m \in {"ACTIVE", "VALIDATE"} :
                 client' = [client EXCEPT !.bytes = @ \o Bytes(n), !.mode = m]
       ELSE /\ writeState_' = [writeState_ EXCEPT !.handle = client.handle,
                                                  !.bufferExceeded = TRUE]
            /\ client' = [client EXCEPT !.mode = "CANCEL"]
  /\ UNCHANGED <<writeId, evmQueue, outpaced, crashed>>
  /\ Owe(Redirected(client.handle))

Validate ==
  /\ client.mode = "VALIDATE"
  /\ client' = [client EXCEPT !.mode = IF writeState_.bufferExceeded THEN "CANCEL" ELSE "EXECUTE"]
  /\ UNCHANGED <<writeState_, writeId, owed, evmQueue, outpaced, crashed>>

Execute ==
  /\ client.mode = "EXECUTE"
  /\ Commit(writeState_, [handle |-> client.handle, bytes |-> client.bytes])
  /\ client' = Idle /\ writeId' = 1 - writeId
  /\ UNCHANGED <<writeState_, crashed>>

(* ResetWriteStateButOnlyTrashByesAccumulated: and the handle.             *)
Cancel ==
  /\ client.mode = "CANCEL"
  /\ IF writeState_.bytesAccumulated > Len(writeState_.byteList)
       THEN crashed' = TRUE /\ UNCHANGED writeState_
       ELSE /\ writeState_' = [WriteState EXCEPT !.byteList =
                 SubSeq(writeState_.byteList, 1,
                        Len(writeState_.byteList) - writeState_.bytesAccumulated)]
            /\ UNCHANGED crashed
  /\ client' = Idle /\ writeId' = 1 - writeId
  /\ UNCHANGED <<evmQueue, outpaced>> /\ Owe(Redirected(NoHandle))

AttWrite ==
  /\ client.op = "write"
  /\ UNCHANGED recounted
  /\ (\E n \in Sizes : Active(n)) \/ Validate \/ Execute \/ Cancel
  /\ UNCHANGED <<handles, connected_, readVars, notifyVars, evm>>

(* att_write_callback_notify: the client subscribes, or no longer.         *)
WriteSubscription(h) ==
  /\ connected_ /\ AtRest /\ h \in handles
  /\ QueueWork([op |-> "subscribe", handle |-> h])
  /\ UNCHANGED <<handles, connected_, readVars, writeVars, notifyVars, evm, client,
                 crashed>>
  /\ Owe(owed)

-----------------------------------------------------------------------------
(* Notifications.                                                          *)

(* TriggerNotify, called by the application.                               *)
TriggerNotify(h) ==
  /\ evm = Idle /\ h \in handles
  /\ handle_' = h
  /\ canSend' = (connected_ \/ canSend)
  /\ toNotify' = IF connected_ THEN h ELSE NoHandle
  /\ UNCHANGED <<handles, connected_, readVars, writeVars, owed, evmVars, client,
                 crashed>>

(* ATT_EVENT_CAN_SEND_NOW: DoNotify.                                       *)
DoNotify ==
  /\ canSend /\ canSend' = FALSE
  /\ QueueWork([op |-> "notify"])
  /\ UNCHANGED <<handles, connected_, readVars, writeVars, handle_, toNotify, evm,
                 client, crashed>>
  /\ Owe(owed)

-----------------------------------------------------------------------------
(* Work in the Evm thread.                                                 *)

(* readyToSend is set first, then the callback has the value.              *)
RunRead ==
  /\ readState_' = [readState_ EXCEPT !.readyToSend = TRUE, !.byteList = NoValue]
  /\ evm' = [op |-> "read"]
  /\ UNCHANGED <<writeState_, toNotify, crashed>>

(* Mutant: takes all there is.                                             *)
RunWriteAll(n) ==
  /\ evm' = [op |-> "write", bytes |-> writeState_.byteList]
  /\ writeState_' = [writeState_ EXCEPT !.byteList = <<>>]
  /\ UNCHANGED <<readState_, toNotify, crashed>>

(* With interrupts off, takes its bytes from the front of the buffer.      *)
RunWrite(n) ==
  /\ IF n > Len(writeState_.byteList)
       THEN crashed' = TRUE /\ UNCHANGED <<writeState_, evm>>
       ELSE /\ evm' = [op |-> "write", bytes |-> SubSeq(writeState_.byteList, 1, n)]
            /\ writeState_' = [writeState_ EXCEPT !.byteList =
                                 SubSeq(@, n + 1, Len(@))]
            /\ UNCHANGED crashed
  /\ UNCHANGED <<readState_, toNotify>>

RunNotify ==
  /\ crashed' = (connected_ /\ handle_ \notin handles)
  /\ toNotify' = IF connected_ /\ handle_ = toNotify THEN NoHandle ELSE toNotify
  /\ UNCHANGED <<readState_, writeState_, evm>>

RunSubscribe(h) ==
  /\ crashed' = (h \notin handles)
  /\ UNCHANGED <<readState_, writeState_, toNotify, evm>>

RunWork ==
  /\ evm = Idle /\ evmQueue # <<>>
  /\ evmQueue' = Tail(evmQueue)
  /\ LET work == Head(evmQueue)
     IN  CASE work.op = "read"      -> RunRead
           [] work.op = "write"     -> RunWrite(work.n)
           [] work.op = "notify"    -> RunNotify
           [] work.op = "subscribe" -> RunSubscribe(work.handle)
  /\ UNCHANGED <<handles, connected_, gaveUp, writeId, recounted, owed, handle_, canSend,
                 outpaced, client>>

(* btstack asks again.  A read that is told the next part of a value is    *)
(* not sound when it had all of another.                                   *)
Answered(b) ==
  client' = IF client.op = "read" THEN [client EXCEPT !.pending = FALSE,
                                                      !.sound = @ /\ client.from \subseteq {b}]
                                  ELSE client

(* The read callback, which has the version v to tell, and                 *)
(* att_server_response_ready.                                              *)
FinishRead(v) ==
  LET b == [handle |-> readState_.handle, version |-> v]
  IN  /\ evm.op = "read" /\ evm' = Idle
      /\ IF b.handle \in handles
           THEN /\ readState_' = [readState_ EXCEPT !.byteList = b]
                /\ Answered(b) /\ UNCHANGED crashed
           ELSE crashed' = TRUE /\ UNCHANGED <<readState_, client>>
      /\ UNCHANGED <<handles, connected_, gaveUp, writeVars, owed, notifyVars, evmQueue,
                     outpaced>>

(* The write callback of the characteristic that was last written to.      *)
FinishWrite ==
  /\ evm.op = "write"
  /\ IF writeState_.handle \in handles
       THEN /\ evm' = Idle /\ UNCHANGED crashed
            /\ owed' = IF owed = <<>> THEN <<>> ELSE Tail(owed)
       ELSE crashed' = TRUE /\ UNCHANGED <<evm, owed>>
  /\ UNCHANGED <<handles, connected_, readVars, writeVars, notifyVars, evmQueue, outpaced,
                 client>>

(* BleGatt::Init with another list of services.                            *)
Restart ==
  /\ evm = Idle
  /\ handles' \in ServiceLists
  /\ outpaced' = (outpaced \/ connected_ \/ ~Quiet)
  /\ UNCHANGED <<connected_, readVars, writeVars, notifyVars, evmQueue, evm, client,
                 crashed>>
  /\ Owe(owed)

Interrupt ==
  \/ Connect \/ OnDisconnect \/ GiveUp \/ AttRead \/ AttWrite \/ DoNotify
  \/ \E h \in handles : ReadRequest(h) \/ LongWrite(h) \/ \E n \in Sizes : WriteSingle(h, n)
  \/ \E h \in Notified : WriteSubscription(h)

EvmThread ==
  \/ RunWork \/ FinishWrite \/ Restart \/ \E v \in Versions : FinishRead(v)
  \/ \E h \in Notified : TriggerNotify(h)

Next == ~crashed /\ (outpaced \/ recounted => GoesOn) /\ (Interrupt \/ EvmThread)

Spec == Init /\ [][Next]_vars

(* Evm runs what is queued, and btstack asks again and sends.              *)
FairSpec ==
  /\ Spec
  /\ WF_vars(~crashed /\ (RunWork \/ FinishWrite \/ \E v \in Versions : FinishRead(v)))
  /\ WF_vars(~crashed /\ AttRead) /\ WF_vars(~crashed /\ DoNotify)

-----------------------------------------------------------------------------
(* What Evm hands to a write callback is what was written, all of it, in   *)
(* the order of the writes, and to the characteristic it was for unless    *)
(* another was written to since; and when all work is done, so is every    *)
(* write that was accepted.                                                *)
Delivered(w) ==
  /\ w # <<>> /\ Head(w).bytes = evm.bytes
  /\ Head(w).handle \in {writeState_.handle, NoHandle}

WritesDelivered ==
  /\ [][FinishWrite /\ ~crashed' /\ ~outpaced /\ ~recounted => Delivered(owed)]_vars
  /\ [](Quiet => owed = <<>>)

(* Work that was queued never finds the characteristic gone, or fewer      *)
(* bytes than it was promised, as long as interrupts do not outpace Evm    *)
(* and no long write recounts bytes: only a write whose handle a cancelled *)
(* one trashed does.                                                       *)
NoStrayAccess ==
  crashed => outpaced \/ recounted \/ (evm.op = "write" /\ writeState_.handle = NoHandle)

(* "copy the bytes that came in this write": when it is its turn, work has *)
(* the bytes it is to copy, unless interrupts outpaced Evm.                *)
BytesThatCame ==
  evm = Idle /\ evmQueue # <<>> /\ Head(evmQueue).op = "write" =>
    outpaced \/ Head(evmQueue).n <= Len(writeState_.byteList)

(* What a client has put together from the answers to its requests is one  *)
(* value, all of it, and of the characteristic it asked for: not when      *)
(* interrupts outpace Evm, after a value whose rest nobody asked for, or   *)
(* when a value filled its last blob and then changed.                     *)
Whole(b) ==
  /\ b.handle = client.handle /\ client.from \subseteq {b}
  /\ SizeOf(b) - client.offset \in 0 .. Chunk - 1

ReadsAreWhole ==
  [][AttRead /\ client' = Idle /\ client.sound /\ ~outpaced => Whole(readState_.byteList)]_vars

(* Every read is answered, and a notification that was triggered is sent,  *)
(* or a later one in its place, unless the connection or work is lost.     *)
RequestsServed ==
  /\ client.op = "read" ~> client.op # "read" \/ outpaced \/ crashed
  /\ \A h \in Notified : toNotify = h ~> toNotify # h \/ outpaced \/ crashed
================================================================================
