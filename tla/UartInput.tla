------------------------------- MODULE UartInput -------------------------------
(***************************************************************************)
(* What a UART receives, from its interrupt to the callbacks that want it: *)
(* the input half of src/src/App/Peripheral/UART.cpp and the distributors  *)
(* of src/src/App/Utl.  The interrupt handler puts bytes into a pipe and   *)
(* queues low priority work; that work, in the Evm thread, hands all of    *)
(* the pipe to the raw listeners, of which the LineStreamDistributor is    *)
(* one, and it calls its own listeners line by line.                       *)
(*                                                                         *)
(* A byte is its place in the stream `received`, where its kind is found.  *)
(* Interrupts come between any two steps; everything else is code of the   *)
(* Evm thread, and what a line callback does happens while it runs.        *)
(***************************************************************************)
EXTENDS Integers, Sequences, SequencesExt, FiniteSets, FiniteSetsExt, Functions

CONSTANTS
  LineListeners,    \* who listens to lines, and starts and stops doing so
  RawListeners,     \* the same for raw data
  Shell,            \* the line listener that Shell::Init adds for good
  LineDistributor,  \* the raw listener that UartInit adds for good
  Application,      \* who uses the reserved id of the line distributor
  HidesBlanks,      \* the line listeners with hideBlankLines
  CAPACITY,         \* IDMaker's, the ids are below it
  PipeSize,         \* UART_INPUT_PIPE_SIZE
  MaxLineLen,       \* maxLineLen_
  MAX_WORK_ITEMS,   \* capacity of Evm's low priority queue
  MaxReceived,      \* bound: bytes on the wire
  MayDropWork       \* may other work push this UART's out of Evm's queue?

ASSUME UartInputAssumption ==
  /\ LineListeners \cap RawListeners = {} /\ Shell # LineDistributor
  /\ {Shell, LineDistributor, Application} \cap (LineListeners \cup RawListeners) = {}
  /\ Application \notin {Shell, LineDistributor} /\ Shell \notin HidesBlanks
  /\ CAPACITY \in Nat /\ CAPACITY > 1 /\ PipeSize \in Nat /\ MaxLineLen \in Nat
  /\ MAX_WORK_ITEMS \in Nat \ {0} /\ MaxReceived \in Nat /\ MayDropWork \in BOOLEAN

VARIABLES
  received,     \* the kinds of the bytes that came
  inputPipe,    \* UART_x_INPUT_PIPE
  workList,     \* Evm's low priority queue, as far as this UART cares
  dataDist,     \* DataStreamDistributor: idMaker_ (.ids) and id__cbFn_ (.cb)
  lineDist,     \* LineStreamDistributor: idMaker_ (.ids) and id__data_ (.cb)
  idOf,         \* what each listener holds: its id, or 0 for none
  inputStream,  \* LineStreamDistributor::inputStream_
  rest,         \* what AddData has yet to look at
  tmp,          \* its copy of id__data_, without those called
  wasMaxLine,   \* is the line it calls them with as long as lines get?
  at,           \* AddData: looks at bytes, calls listeners, or is inside one
  delivered,    \* the lines each listener was called with
  lost,         \* bytes thrown away: no room, no listener, or cleared
  cleared       \* how many had come when the buffers were last cleared,
                \* from outside of a line callback

wireVars == <<received, inputPipe, workList>>
listenVars == <<dataDist, lineDist, idOf>>
addDataVars == <<inputStream, rest, tmp, wasMaxLine, at, delivered>>
vars == <<wireVars, listenVars, addDataVars, lost, cleared>>

Kinds == {"print", "lf", "cr", "other"}
Listeners == LineListeners \cup RawListeners \cup {Shell, LineDistributor}
LineClients == LineListeners \cup {Shell, Application}
Reserved == 0

Init ==
  /\ received = <<>> /\ inputPipe = <<>> /\ workList = <<>>
  /\ dataDist = [ids |-> {Reserved, 1}, cb |-> [id \in {1} |-> LineDistributor]]
  /\ lineDist = [ids |-> {Reserved, 1}, cb |-> [id \in {1} |-> Shell]]
  /\ idOf = [l \in Listeners |-> IF l \in {Shell, LineDistributor} THEN 1 ELSE 0]
  /\ inputStream = <<>> /\ rest = <<>> /\ tmp = <<>> /\ at = "bytes"
  /\ wasMaxLine = FALSE
  /\ delivered = [l \in LineClients |-> <<>>]
  /\ lost = {} /\ cleared = 0

-----------------------------------------------------------------------------
(* The interrupt handler.                                                  *)

(* pipeIn.Put(ch, 0): fails when the pipe is full, and nobody looks.       *)
Put(ch) == IF Len(inputPipe) < PipeSize THEN Append(inputPipe, ch) ELSE inputPipe

(* Evm drops the oldest work to make room for the newest.                  *)
QueueLowPriorityWork(label) ==
  workList' = Append(IF Len(workList) = MAX_WORK_ITEMS THEN Tail(workList) ELSE workList, label)

(* The reading half of UartInterruptHandlerUartX, a byte at a time.        *)
UartInterruptHandler(kind) ==
  LET ch == Len(received) + 1
  IN
  /\ Len(received) < MaxReceived
  /\ received' = Append(received, kind)
  /\ IF DOMAIN dataDist.cb = {}
     THEN /\ inputPipe' = <<>>
          /\ lost' = lost \cup ToSet(inputPipe) \cup {ch}
          /\ UNCHANGED workList
     ELSE /\ inputPipe' = Put(ch)
          /\ lost' = IF Len(inputPipe) < PipeSize THEN lost ELSE lost \cup {ch}
          /\ QueueLowPriorityWork("uart")
  /\ UNCHANGED <<listenVars, addDataVars, cleared>>

(* Anybody else's low priority work.                                       *)
QueueOtherWork ==
  /\ Len(workList) = MAX_WORK_ITEMS => MayDropWork
  /\ QueueLowPriorityWork("other")
  /\ UNCHANGED <<received, inputPipe, listenVars, addDataVars, lost, cleared>>

-----------------------------------------------------------------------------
(* The distributors, in the Evm thread.                                    *)

Distributing == rest # <<>> \/ at # "bytes"

(* Mutant: the work takes one byte out of the pipe, for one interrupt.     *)
ServiceWorkOneByte ==
  /\ ~Distributing
  /\ workList # <<>>
  /\ workList' = Tail(workList)
  /\ IF Head(workList) = "uart" /\ inputPipe # <<>>
     THEN /\ inputPipe' = Tail(inputPipe)
          /\ IF LineDistributor \in Range(dataDist.cb) /\ DOMAIN lineDist.cb # {}
             THEN rest' = <<Head(inputPipe)>> /\ UNCHANGED lost
             ELSE lost' = lost \cup {Head(inputPipe)} /\ UNCHANGED rest
     ELSE UNCHANGED <<inputPipe, rest, lost>>
  /\ UNCHANGED <<received, listenVars, inputStream, tmp, wasMaxLine, at, delivered, cleared>>

(* The work: all of the pipe goes to Distribute(), and from there to the   *)
(* LineStreamDistributor, which does not want it when nobody listens.      *)
ServiceWork ==
  /\ ~Distributing
  /\ workList # <<>>
  /\ workList' = Tail(workList)
  /\ IF Head(workList) = "uart" /\ inputPipe # <<>>
     THEN /\ inputPipe' = <<>>
          /\ IF LineDistributor \in Range(dataDist.cb) /\ DOMAIN lineDist.cb # {}
             THEN rest' = inputPipe /\ UNCHANGED lost
             ELSE lost' = lost \cup ToSet(inputPipe) /\ UNCHANGED rest
     ELSE UNCHANGED <<inputPipe, rest, lost>>
  /\ UNCHANGED <<received, listenVars, inputStream, tmp, wasMaxLine, at, delivered, cleared>>

(* Mutant: a carriage return is not a line's end.                          *)
EndsLineLf(ch) == received[ch] = "lf" \/ Len(inputStream) = MaxLineLen

(* Does the line end at this byte?                                         *)
EndsLine(ch) == received[ch] \in {"lf", "cr"} \/ Len(inputStream) = MaxLineLen

(* AddData, a byte that is part of the line or ignored.                    *)
AddByte ==
  /\ at = "bytes" /\ rest # <<>>
  /\ ~EndsLine(Head(rest))
  /\ inputStream' = IF received[Head(rest)] = "print" THEN Append(inputStream, Head(rest))
                    ELSE inputStream
  /\ rest' = Tail(rest)
  /\ UNCHANGED <<wireVars, listenVars, tmp, wasMaxLine, at, delivered, lost, cleared>>

(* A byte that ends the line, for which all who listen now are called.     *)
EndLine ==
  /\ at = "bytes" /\ rest # <<>>
  /\ EndsLine(Head(rest))
  /\ tmp' = lineDist.cb
  /\ wasMaxLine' = (Len(inputStream) = MaxLineLen)
  /\ at' = "callbacks"
  /\ UNCHANGED <<wireVars, listenVars, inputStream, rest, delivered, lost, cleared>>

(* The order of an unordered_map is anybody's guess.                       *)
CallLineCallback(id) ==
  LET listener == tmp[id]
      wanted == inputStream # <<>> \/ listener \notin HidesBlanks
  IN
  /\ at = "callbacks" /\ id \in DOMAIN tmp
  /\ tmp' = Restrict(tmp, DOMAIN tmp \ {id})
  /\ at' = IF wanted THEN "inside" ELSE at
  /\ delivered' = IF wanted THEN [delivered EXCEPT ![listener] = Append(@, inputStream)] ELSE delivered
  /\ UNCHANGED <<wireVars, listenVars, inputStream, rest, wasMaxLine, lost, cleared>>

CallbackReturns ==
  /\ at = "inside"
  /\ at' = "callbacks"
  /\ UNCHANGED <<wireVars, listenVars, inputStream, rest, tmp, wasMaxLine, delivered, lost, cleared>>

(* "wind forward to next newline if needed": as far as this data goes.     *)
NextByte ==
  LET lineFeeds == {i \in DOMAIN rest : received[rest[i]] = "lf"}
  IN  IF ~wasMaxLine THEN 2
      ELSE IF lineFeeds = {} THEN Len(rest) + 1
      ELSE Min(lineFeeds) + 1

(* Mutant: only a line that was as long as lines get is cleared.           *)
LineDoneKeepsShort ==
  /\ at = "callbacks" /\ DOMAIN tmp = {}
  /\ at' = "bytes"
  /\ wasMaxLine' = FALSE
  /\ inputStream' = IF wasMaxLine THEN <<>> ELSE inputStream
  /\ rest' = SubSeq(rest, NextByte, Len(rest))
  /\ UNCHANGED <<wireVars, listenVars, tmp, delivered, lost, cleared>>

LineDone ==
  /\ at = "callbacks" /\ DOMAIN tmp = {}
  /\ at' = "bytes"
  /\ wasMaxLine' = FALSE
  /\ inputStream' = <<>>
  /\ rest' = SubSeq(rest, NextByte, Len(rest))
  /\ UNCHANGED <<wireVars, listenVars, tmp, delivered, lost, cleared>>

-----------------------------------------------------------------------------
(* Code of the Evm thread, in a line callback or when there is no data to  *)
(* distribute.                                                             *)

ClientRuns == ~Distributing \/ at = "inside"

(* IDMaker: the lowest free id is the next.                                *)
FreeIds(dist) == (0 .. CAPACITY - 1) \ dist.ids
GetNextId(dist) == IF FreeIds(dist) = {} THEN 0 ELSE Min(FreeIds(dist))

(* map[id] = l.                                                            *)
With(cb, id, l) == [i \in DOMAIN cb \cup {id} |-> IF i = id THEN l ELSE cb[i]]

AddCallback(dist, l) ==
  IF FreeIds(dist) = {} THEN dist
  ELSE [ids |-> dist.ids \cup {GetNextId(dist)}, cb |-> With(dist.cb, GetNextId(dist), l)]

SetCallback(dist, id, l) ==
  IF id \in DOMAIN dist.cb \/ id = Reserved THEN [dist EXCEPT !.cb = With(@, id, l)] ELSE dist

(* Mutant: the callback stays when its id is returned.                     *)
RemoveIdOnly(dist, id) == [dist EXCEPT !.ids = @ \ {id}]

RemoveCallback(dist, id) ==
  [ids |-> dist.ids \ {id}, cb |-> Restrict(dist.cb, DOMAIN dist.cb \ {id})]

Without(dist, l) == IF idOf[l] = 0 THEN dist ELSE RemoveCallback(dist, idOf[l])

(* GPSReader::StartMonitoring, which stops before it starts.               *)
StartMonitoring(l) ==
  /\ ClientRuns
  /\ lineDist' = AddCallback(Without(lineDist, l), l)
  /\ idOf' = [idOf EXCEPT ![l] = GetNextId(Without(lineDist, l))]
  /\ UNCHANGED <<wireVars, dataDist, addDataVars, lost, cleared>>

StopMonitoring(l) ==
  /\ ClientRuns
  /\ lineDist' = Without(lineDist, l)
  /\ idOf' = [idOf EXCEPT ![l] = 0]
  /\ UNCHANGED <<wireVars, dataDist, addDataVars, lost, cleared>>

(* Raw listeners come and go only while their map is not iterated over.    *)
StartMonitorForUbx(l) ==
  /\ ~Distributing
  /\ dataDist' = AddCallback(Without(dataDist, l), l)
  /\ idOf' = [idOf EXCEPT ![l] = GetNextId(Without(dataDist, l))]
  /\ UNCHANGED <<wireVars, lineDist, addDataVars, lost, cleared>>

StopMonitorForUbx(l) ==
  /\ ~Distributing
  /\ dataDist' = Without(dataDist, l)
  /\ idOf' = [idOf EXCEPT ![l] = 0]
  /\ UNCHANGED <<wireVars, lineDist, addDataVars, lost, cleared>>

(* UartSetLineStreamCallback and UartRemoveLineStreamCallback with the id  *)
(* that is their default, the reserved one.                                *)
UartSetLineStreamCallback ==
  /\ ClientRuns
  /\ lineDist' = SetCallback(lineDist, Reserved, Application)
  /\ UNCHANGED <<wireVars, dataDist, idOf, addDataVars, lost, cleared>>

UartRemoveLineStreamCallback ==
  /\ ClientRuns
  /\ lineDist' = RemoveCallback(lineDist, Reserved)
  /\ UNCHANGED <<wireVars, dataDist, idOf, addDataVars, lost, cleared>>

(* Mutant: the line that has begun is not cleared.                         *)
UartClearPipeOnly ==
  /\ ClientRuns
  /\ inputPipe' = <<>>
  /\ lost' = lost \cup ToSet(inputPipe)
  /\ cleared' = IF Distributing THEN cleared ELSE Len(received)
  /\ UNCHANGED <<received, workList, listenVars, addDataVars>>

(* ClearInFlight() looks for work with the distributor's label, which is   *)
(* not the label that the interrupt handler queues work with.              *)
UartClearRxBuffer ==
  /\ ClientRuns
  /\ inputPipe' = <<>>
  /\ inputStream' = <<>>
  /\ lost' = lost \cup ToSet(inputPipe) \cup ToSet(inputStream)
  /\ cleared' = IF Distributing THEN cleared ELSE Len(received)
  /\ UNCHANGED <<received, workList, listenVars, rest, tmp, wasMaxLine, at, delivered>>

-----------------------------------------------------------------------------
EvmStep ==
  \/ ServiceWork
  \/ AddByte
  \/ EndLine
  \/ \E id \in DOMAIN tmp : CallLineCallback(id)
  \/ CallbackReturns
  \/ LineDone

Client ==
  \/ \E l \in LineListeners : StartMonitoring(l) \/ StopMonitoring(l)
  \/ \E l \in RawListeners : StartMonitorForUbx(l) \/ StopMonitorForUbx(l)
  \/ UartSetLineStreamCallback
  \/ UartClearRxBuffer

Next ==
  \/ EvmStep
  \/ Client
  \/ \E kind \in Kinds : UartInterruptHandler(kind)
  \/ QueueOtherWork

Spec == Init /\ [][Next]_vars

(* The Evm thread serves its low priority work (module Evm), and callbacks *)
(* return.                                                                 *)
FairSpec == Spec /\ WF_vars(EvmStep)

(* With an application that also removes a callback by the default id.     *)
SpecDefaultId == Init /\ [][Next \/ UartRemoveLineStreamCallback]_vars

-----------------------------------------------------------------------------
Bytes == 1 .. MaxReceived

(* Types of the state and the bounds of pipe, queue and line.              *)
TypeOK ==
  /\ received \in Seq(Kinds) /\ Len(received) <= MaxReceived
  /\ inputPipe \in Seq(Bytes) /\ Len(inputPipe) <= PipeSize
  /\ workList \in Seq({"uart", "other"}) /\ Len(workList) <= MAX_WORK_ITEMS
  /\ dataDist.ids \subseteq 0 .. CAPACITY - 1
  /\ lineDist.ids \subseteq 0 .. CAPACITY - 1
  /\ Range(dataDist.cb) \subseteq RawListeners \cup {LineDistributor}
  /\ Range(lineDist.cb) \subseteq LineClients
  /\ inputStream \in Seq(Bytes) /\ Len(inputStream) <= MaxLineLen
  /\ rest \in Seq(Bytes)
  /\ at \in {"bytes", "callbacks", "inside"}
  /\ wasMaxLine \in BOOLEAN

(* What a stream is split into, read as a text: the lines that have ended, *)
(* and what there is of the next.                                          *)
SplitByte(split, kind, ch) ==
  CASE kind \in {"lf", "cr"} -> [lines |-> Append(split.lines, split.line), line |-> <<>>]
    [] kind = "print" -> [split EXCEPT !.line = Append(@, ch)]
    [] kind = "other" -> split

(* For each number of bytes from the first.                                *)
Split(kinds) ==
  LET split[n \in 0 .. Len(kinds)] ==
        IF n = 0 THEN [lines |-> <<>>, line |-> <<>>]
        ELSE SplitByte(split[n - 1], kinds[n], n)
  IN  split

(* However the bytes were cut up by interrupts and work, and whoever else  *)
(* comes and goes, the shell is called with the lines of the stream, blank *)
(* ones included ("Input handling for ASCII-only lines", UART.h); unless   *)
(* bytes were lost, or a line was too long.                                *)
ShellGetsLines ==
  LET split == Split(received)[Len(received) - Len(inputPipe) - Len(rest)]
  IN  /\ at = "bytes" /\ lost = {}
      /\ \A i \in DOMAIN split.lines : Len(split.lines[i]) < MaxLineLen
      /\ Len(split.line) < MaxLineLen
      => delivered[Shell] = split.lines /\ inputStream = split.line

(* No line is made of two: what is missing between two of its bytes, in    *)
(* the stream, was no part of a line or was lost on the way.               *)
LinesNotSpliced ==
  \A l \in LineClients : \A i \in DOMAIN delivered[l] :
    LET line == delivered[l][i]
    IN  \A j \in 1 .. Len(line) - 1 :
          \A ch \in line[j] + 1 .. line[j + 1] - 1 : received[ch] = "other" \/ ch \in lost

(* "Reserve id of 0 for special purposes" (both distributors): an id is    *)
(* given to one listener at a time, which is called as long as it holds it *)
(* and no longer, and the reserved id to none.                             *)
IdsHaveOwners ==
  /\ \A id \in DOMAIN lineDist.cb :
       IF id = Reserved THEN lineDist.cb[id] = Application
       ELSE idOf[lineDist.cb[id]] = id
  /\ \A id \in DOMAIN dataDist.cb : id # Reserved /\ idOf[dataDist.cb[id]] = id
  /\ \A l \in LineListeners \cup {Shell} :
       idOf[l] # 0 => idOf[l] \in DOMAIN lineDist.cb /\ lineDist.cb[idOf[l]] = l
  /\ \A l \in RawListeners \cup {LineDistributor} :
       idOf[l] # 0 => idOf[l] \in DOMAIN dataDist.cb /\ dataDist.cb[idOf[l]] = l

(* "Clear UART1 RX buffer" (uart.uart1.clear.rx): nothing that came before *)
(* it is part of a line after it.  When a line callback does the clearing, *)
(* this does not hold: AddData goes on with the data it was given.         *)
ClearedIsGone ==
  [][\A l \in LineClients :
       Len(delivered'[l]) > Len(delivered[l])
         => \A ch \in ToSet(Last(delivered'[l])) : ch > cleared]_vars

(* No byte is left in the pipe for want of work that would take it out.    *)
InputServed == inputPipe # <<>> ~> inputPipe = <<>>
=============================================================================
