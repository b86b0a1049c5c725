----------------------------- MODULE MCComponents -----------------------------
(* Small components that share nothing: TimerSequence with up to four      *)
(* steps, Blinker with counts of 2 bits, UsbPower with the pin of VBUS and *)
(* one other, which a program has up to two objects of, the two objects    *)
(* and two such pins without USB, the work thread with jobs of an          *)
(* interrupt handler and of the Evm thread, BleObserver with two           *)
(* advertisements and a pipe of three, UsbCdc with a queue that is on or   *)
(* off and buffers that fit, fill the FIFO, go to the queue in part, and   *)
(* overflow it, Shell with a history of two, Timeline with lists of one    *)
(* and of three events, of which one thread reports or, with events of one *)
(* name, two do, and Wspr with one callsign of each kind.  A behaviour is  *)
(* one of one of them: what the fairness of the others asks for is not     *)
(* enabled in their initial states.                                        *)
EXTENDS TimerSequence, Blinker, UsbPower, Work, BleObserver, UsbCdc, Shell, Timeline, Wspr

CONSTANTS vbus, led, led2, o1, o2, i1, e1, r1, r2, t1, t2, n2, workThread

MCDelays == {0, 2}
MCTimes == {2}
MCCounts == 0 .. 2
MCAllCounts == 0 .. 3
MCOnOffTimes == {<<1, 2>>, <<0, 1>>}
MCPins == {vbus, led, led2}
MCObjects == {pVbus_, temporary, o1, o2}
MCCallers == {i1, e1}
MCReports == {r1, r2}
MCFilters == {{r1}, {r1, r2}}
MCCapacities == {0, 2}

(* Lines of one part and of two, that call a command with and without a    *)
(* scope, repeat a line, and set the scope.                                *)
Part(word) == [word |-> word, args |-> <<>>, num |-> NoNumber, quoted |-> FALSE]
FirstOfHistory == [Part(<<"!1">>) EXCEPT !.num = 1]
ScopeGps == [Part(<<"scope">>) EXCEPT !.args = << <<"gps">> >>]
MCLines ==
  { <<Part(<<"on">>)>>, <<Part(<<".">>)>>, <<Part(<<"!!">>)>>, <<FirstOfHistory>>, <<ScopeGps>>,
    <<Part(<<"on">>), Part(<<".">>)>>, <<Part(<<"on">>), Part(<<"!!">>)>>,
    <<Part(<<"on">>), FirstOfHistory>> }
MCQuotedLines == MCLines \cup { <<[Part(<<".">>) EXCEPT !.quoted = TRUE]>> }
MCCommands == {<<"on">>, <<"gps", "on">>}

MCMaxEvents == {1, 3}

MCBands == {"20m", "10m"}
MCAllBands == {"20m", "6m"}
MCChannels == {0, 399}
\* K1ABC in FN20, 0Q7ZZZ in AR90
MCMessages ==
  { [callsign |-> <<75, 49, 65, 66, 67>>, grid |-> <<70, 78, 50, 48>>, powerDbm |-> 37],
    [callsign |-> <<48, 81, 55, 90, 90, 90>>, grid |-> <<65, 82, 57, 48>>, powerDbm |-> 60] }

VARIABLE component

\* A program with one object, of one pin, beside USB's; and one with two, of
\* two pins, without USB.
OneOther == pin_'[o1] # led2 /\ pin_'[o2] = PIN_COUNT /\ left' = {} /\ level'[led2] = 0
FewCounted == \A p \in DOMAIN pin__data_' : pin__data_'[p].count <= 3

\* A timeline with one report at a time; and one with two, in which one
\* thread records events of one name.
OneName ==
  /\ adding'[t2] = NoEvent /\ adding'[t1] # n2
  /\ \A i \in DOMAIN list_' : list_'[i] # n2

Init ==
  /\ component \in {"TimerSequence", "Blinker", "UsbPower", "Pins", "Work", "BleObserver", "UsbCdc",
                    "Shell", "Timeline", "Reports", "Wspr"}
  /\ SequenceInit /\ BlinkerInit /\ UsbPowerInit /\ WorkInit /\ ObserverInit /\ CdcInit
  /\ ShellInit /\ TimelineInit /\ WsprInit
  /\ component # "UsbCdc" => sendBufCapacity_ = 0
  /\ component \notin {"Timeline", "Reports"} => capacity_ = 1

Only(c) ==
  /\ component = c /\ UNCHANGED component
  /\ IF c = "TimerSequence" THEN TRUE ELSE UNCHANGED sequenceVars
  /\ IF c = "Blinker" THEN TRUE ELSE UNCHANGED blinkerVars
  /\ IF c \in {"UsbPower", "Pins"} THEN TRUE ELSE UNCHANGED usbVars
  /\ IF c = "Work" THEN TRUE ELSE UNCHANGED workVars
  /\ IF c = "BleObserver" THEN TRUE ELSE UNCHANGED observerVars
  /\ IF c = "UsbCdc" THEN TRUE ELSE UNCHANGED cdcVars
  /\ IF c = "Shell" THEN TRUE ELSE UNCHANGED shellVars
  /\ IF c \in {"Timeline", "Reports"} THEN TRUE ELSE UNCHANGED timelineVars
  /\ IF c = "Wspr" THEN TRUE ELSE UNCHANGED wsprVars

Next ==
  \/ Only("TimerSequence") /\ SequenceNext
  \/ Only("Blinker") /\ BlinkerNext
  \/ Only("UsbPower") /\ UsbPowerNext /\ OneOther
  \/ Only("Pins") /\ (\E o \in {o1, o2} : Client(o, {o1, o2}, {led, led2})) /\ FewCounted
     /\ UNCHANGED usb
  \/ Only("Work") /\ WorkNext
  \/ Only("BleObserver") /\ ObserverNext
  \/ Only("UsbCdc") /\ CdcNext
  \/ Only("Shell") /\ ShellNext
  \/ Only("Timeline") /\ TimelineNext /\ walk'[workThread] = NoWalk
  \/ Only("Reports") /\ TimelineNext /\ OneName
  \/ Only("Wspr") /\ WsprNext

vars ==
  <<component, sequenceVars, blinkerVars, usbVars, workVars, observerVars, cdcVars, shellVars,
    timelineVars, wsprVars>>

Spec ==
  /\ Init /\ [][Next]_vars
  /\ SequenceFairness /\ UsbPowerFairness /\ WorkFairness /\ CdcFairness
=============================================================================
