----------------------------- MODULE BleObserver -----------------------------
(***************************************************************************)
(* BleObserver (src/src/BLE/BleObserver.h): btstack's advertising reports  *)
(* come in interrupts, are filtered, put into a pipe, and handed to the    *)
(* program's function by low priority work of Evm, which empties the pipe. *)
(* The program starts and stops it in the Evm thread, also from inside of  *)
(* its function; interrupts come between any two steps of these calls.     *)
(*                                                                         *)
(* A report is known by its data: neither the filter here, the set of what *)
(* matches, nor the check for duplicates looks at anything else.  btstack  *)
(* reports nothing while it does not scan.                                 *)
(***************************************************************************)
EXTENDS Integers, Sequences, SequencesExt

CONSTANTS
  Reports,          \* the advertisements there are
  Filters,          \* the filters the program asks for
  NoData,           \* the data of reportLast_ when there was none
  Nothing,          \* no filter, no call
  MAX_EVENTS,       \* the size of the pipe
  MAX_WORK_ITEMS,   \* the size of Evm's queue
  LastPushedOut     \* may the work of others push the last of its work out of
                    \* Evm's queue?

(* The arguments of Start().                                               *)
Args == [filter : Filters, deDup : BOOLEAN]

ASSUME BleObserverAssumption ==
  /\ Filters \subseteq SUBSET Reports
  /\ Nothing \notin Filters /\ Nothing \notin Args
  /\ {MAX_EVENTS, MAX_WORK_ITEMS} \subseteq Nat \ {0}
  /\ LastPushedOut \in BOOLEAN

VARIABLES
  ready_, started_, filterList_, deDup_, reportLast_, pipe_,
  timer_,      \* the filter it is to start with, or Nothing
  scanning,    \* is btstack?
  queued,      \* how often OnAdvertisingReportEvm is in Evm's queue
  evm,         \* is it running, and getting from the pipe or in the function?
  call,        \* the call of the program that is going on
  startAsked,  \* the arguments of the last Start()
  stranded     \* history: was the last work taken out of Evm's queue while
               \* reports waited for it?

observed == <<reportLast_, pipe_, queued>>
scan == <<started_, filterList_, deDup_, timer_, scanning>>
observerVars == <<ready_, scan, observed, evm, call, startAsked, stranded>>

Idle == [at |-> "returned", args |-> Nothing]

ObserverInit ==
  /\ ready_ = FALSE /\ started_ = FALSE /\ scanning = FALSE
  /\ filterList_ = Reports /\ deDup_ = FALSE
  /\ reportLast_ = NoData /\ pipe_ = <<>> /\ queued = 0
  /\ timer_ = Nothing
  /\ evm = "idle" /\ call = Idle /\ startAsked = Nothing
  /\ stranded = FALSE

-----------------------------------------------------------------------------
(* Interrupts.                                                             *)

OnReady ==
  /\ ~ready_ /\ ready_' = TRUE
  /\ UNCHANGED <<scan, observed, evm, call, startAsked, stranded>>

(* Evm's queue drops its oldest item for a new one when it is full.        *)
QueueLowPriorityWork == queued' = IF queued < MAX_WORK_ITEMS THEN queued + 1 ELSE queued

(* The work is queued with the first report in the pipe.                   *)
PassUpward(report) ==
  IF Len(pipe_) < MAX_EVENTS
  THEN /\ pipe_' = Append(pipe_, report)
       /\ IF pipe_ = <<>> THEN QueueLowPriorityWork ELSE UNCHANGED queued
  ELSE UNCHANGED <<pipe_, queued>>

OnAdvertisingReport(report) ==
  LET isDup == deDup_ /\ report = reportLast_
  IN  /\ scanning
      /\ IF report \in filterList_ /\ ~isDup
         THEN /\ reportLast_' = IF deDup_ THEN report ELSE reportLast_
              /\ PassUpward(report)
         ELSE UNCHANGED observed
      /\ UNCHANGED <<ready_, scan, evm, call, startAsked, stranded>>

-----------------------------------------------------------------------------
(* Evm and its queue.                                                      *)

OnAdvertisingReportEvm ==
  /\ evm = "idle" /\ call = Idle
  /\ queued > 0 /\ queued' = queued - 1
  /\ evm' = "get"
  /\ UNCHANGED <<ready_, scan, reportLast_, pipe_, call, startAsked, stranded>>

(* The work that goes was the last to get what is in the pipe.             *)
WorkGoes ==
  stranded' = \/ stranded
              \/ queued > 0 /\ queued' = 0 /\ evm = "idle" /\ pipe_ # <<>>

OthersPushOut ==
  /\ queued > (IF LastPushedOut THEN 0 ELSE 1)
  /\ queued' = queued - 1
  /\ WorkGoes
  /\ UNCHANGED <<ready_, scan, reportLast_, pipe_, evm, call, startAsked>>

Get ==
  /\ evm = "get"
  /\ IF pipe_ = <<>>
     THEN evm' = "idle" /\ UNCHANGED pipe_
     ELSE evm' = "function" /\ pipe_' = Tail(pipe_)
  /\ UNCHANGED <<ready_, scan, reportLast_, queued, call, startAsked, stranded>>

(* Mutant: one report for each work.                                       *)
FunctionReturnsOnce ==
  /\ evm = "function" /\ call = Idle
  /\ evm' = "idle"
  /\ UNCHANGED <<ready_, scan, observed, call, startAsked, stranded>>

FunctionReturns ==
  /\ evm = "function" /\ call = Idle
  /\ evm' = "get"
  /\ UNCHANGED <<ready_, scan, observed, call, startAsked, stranded>>

-----------------------------------------------------------------------------
(* Calls of the program, from inside of its function or not.  Start()      *)
(* begins with Stop(), so args are those of a Start() or Nothing.          *)

BeginCall(args) ==
  /\ evm \in {"idle", "function"} /\ call = Idle
  /\ call' = [at |-> "Stop", args |-> args]

StartScan(args) ==
  /\ BeginCall(args) /\ startAsked' = args
  /\ UNCHANGED <<ready_, scan, observed, evm, stranded>>

StopScan ==
  /\ BeginCall(Nothing)
  /\ UNCHANGED <<ready_, scan, observed, evm, startAsked, stranded>>

(* "BLE is available": the timer's callback, without deDup.                *)
OnTimeoutStart ==
  /\ timer_ # Nothing /\ evm = "idle"
  /\ BeginCall([filter |-> timer_, deDup |-> FALSE])
  /\ timer_' = Nothing
  /\ UNCHANGED <<ready_, started_, filterList_, deDup_, scanning, observed, evm, startAsked,
                 stranded>>

ClearDupFilter ==
  /\ evm \in {"idle", "function"} /\ call = Idle
  /\ reportLast_' = NoData
  /\ UNCHANGED <<ready_, scan, pipe_, queued, evm, call, startAsked, stranded>>

Proceeds(at) ==
  call' = IF at = "started" /\ call.args = Nothing THEN Idle ELSE [call EXCEPT !.at = at]

CancelTimer ==
  /\ call.at = "Stop"
  /\ timer_' = Nothing /\ reportLast_' = NoData
  /\ started_' = FALSE
  /\ Proceeds(IF started_ THEN "gap_stop_scan" ELSE "started")
  /\ UNCHANGED <<ready_, filterList_, deDup_, scanning, pipe_, queued, evm, startAsked, stranded>>

GapStopScan ==
  /\ call.at = "gap_stop_scan" /\ Proceeds("clear")
  /\ scanning' = FALSE
  /\ UNCHANGED <<ready_, started_, filterList_, deDup_, timer_, observed, evm, startAsked,
                 stranded>>

(* What is in the pipe stays there.                                        *)
ClearWork ==
  /\ call.at = "clear" /\ Proceeds("started")
  /\ queued' = 0 /\ WorkGoes
  /\ UNCHANGED <<ready_, scan, reportLast_, pipe_, evm, startAsked>>

(* The rest of Start(), which has no work to do for a Stop().              *)
StartReady ==
  /\ call.at = "started"
  /\ IF ready_
     THEN /\ started_' = TRUE
          /\ filterList_' = call.args.filter /\ deDup_' = call.args.deDup
          /\ Proceeds("gap_start_scan")
          /\ UNCHANGED timer_
     ELSE /\ timer_' = call.args.filter
          /\ call' = Idle
          /\ UNCHANGED <<started_, filterList_, deDup_>>
  /\ UNCHANGED <<ready_, scanning, observed, evm, startAsked, stranded>>

GapStartScan ==
  /\ call.at = "gap_start_scan" /\ call' = Idle
  /\ scanning' = TRUE
  /\ UNCHANGED <<ready_, started_, filterList_, deDup_, timer_, observed, evm, startAsked,
                 stranded>>

CallProceeds == CancelTimer \/ GapStopScan \/ ClearWork \/ StartReady \/ GapStartScan

ObserverNext ==
  \/ OnReady
  \/ \E report \in Reports : OnAdvertisingReport(report)
  \/ OnAdvertisingReportEvm \/ OthersPushOut \/ Get \/ FunctionReturns
  \/ \E args \in Args : StartScan(args)
  \/ StopScan \/ OnTimeoutStart \/ ClearDupFilter
  \/ CallProceeds

ObserverSpec == ObserverInit /\ [][ObserverNext]_observerVars

-----------------------------------------------------------------------------
(* Types of the state.                                                     *)
ObserverTypeOK ==
  /\ {ready_, started_, deDup_, scanning} \subseteq BOOLEAN
  /\ filterList_ \in Filters \cup {Reports}
  /\ reportLast_ \in Reports \cup {NoData}
  /\ pipe_ \in Seq(Reports) /\ Len(pipe_) <= MAX_EVENTS
  /\ timer_ \in Filters \cup {Nothing}
  /\ queued \in 0 .. MAX_WORK_ITEMS
  /\ evm \in {"idle", "get", "function"}
  /\ startAsked \in Args \cup {Nothing}
  /\ stranded \in BOOLEAN

(* "send an event if there isn't one already pending": what waits in the   *)
(* pipe while it is started has work queued that gets it, or such work is  *)
(* running and still to look at the pipe.                                  *)
EventPending == started_ /\ pipe_ # <<>> => queued > 0 \/ evm # "idle"

(* Only the two ways in which work is taken away, Stop() and the full      *)
(* queue of Evm, leave reports in the pipe that no work comes for: neither *)
(* an interrupt between any two steps, nor a call from inside of the       *)
(* function, nor a Start() with reports in the pipe does.                  *)
LeftOnlyByLostWork == pipe_ # <<>> => queued > 0 \/ evm # "idle" \/ stranded

(* It scans as the program asked for, also if that was too early.          *)
ScansAsAsked ==
  started_ /\ call = Idle =>
    [filter |-> filterList_, deDup |-> deDup_] = startAsked
=============================================================================
