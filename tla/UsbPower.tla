------------------------------- MODULE UsbPower -------------------------------
(***************************************************************************)
(* How USB (src/src/App/Peripheral/USB.cpp) watches VBUS with a Pin, and   *)
(* in power save mode has the clock of USB on (src/src/App/Peripheral/     *)
(* Clock.cpp) only while there is power on it; and how it waits for that   *)
(* clock before it starts the TinyUSB thread.  The board is a pico; what   *)
(* the program's own callbacks do with other pins is Pin's clients.        *)
(***************************************************************************)
EXTENDS Pin

CONSTANTS
  Vbus,        \* pin 24
  pVbus_,      \* USB's object
  CleanEdges   \* VBUS changes once in a debounce time, and not during start

ASSUME UsbPowerAssumption ==
  /\ Vbus \in Pins
  /\ pVbus_ \in Objects \ {temporary}
  /\ CleanEdges \in BOOLEAN

VARIABLES
  powerSaveMode_, initHasRun_,
  usbEnabled_,   \* of Clock
  tinyUsb        \* where the TinyUSB thread is

usb == <<powerSaveMode_, initHasRun_, usbEnabled_, tinyUsb>>
usbVars == <<pinVars, usb>>

UsbPowerInit ==
  /\ PinInit
  /\ powerSaveMode_ = FALSE /\ initHasRun_ = FALSE
  /\ usbEnabled_ = TRUE
  /\ tinyUsb = "none"

Clients == Objects \ {pVbus_, temporary}

(* pVbus_ = Pin(24, Pin::Type::INPUT);                                     *)
PinVbus == AssignNew(Now, pVbus_, Vbus)

(* With the pins as s: the clock after OnPinVbusInterrupt().               *)
DigitalRead(s) == s.pin_[pVbus_] = Vbus /\ level[Vbus] = 1

(* Mutant: in power save mode, only the loss of power is acted upon.       *)
OnPinVbusInterruptLow(s, powerSave) ==
  IF powerSave THEN usbEnabled_ /\ DigitalRead(s) ELSE usbEnabled_
OnPinVbusInterrupt(s, powerSave) ==
  IF powerSave THEN DigitalRead(s) ELSE usbEnabled_

EnablePowerSaveMode ==
  LET s == IF initHasRun_ THEN Now ELSE PinVbus
  IN  /\ powerSaveMode_' = TRUE
      /\ Become(s)
      /\ usbEnabled_' = OnPinVbusInterrupt(s, TRUE)
      /\ UNCHANGED <<level, work, upMs, left, joined, initHasRun_, tinyUsb>>

DisablePowerSaveMode ==
  /\ powerSaveMode_' = FALSE
  /\ usbEnabled_' = TRUE
  /\ UNCHANGED <<pinVars, initHasRun_, tinyUsb>>

UsbInit ==
  /\ ~initHasRun_ /\ initHasRun_' = TRUE
  /\ Become(EnableInterrupt(PinVbus, pVbus_))
  /\ UNCHANGED <<level, work, upMs, left, joined, powerSaveMode_, usbEnabled_, tinyUsb>>

(* The timer that polls, every 100 ms until it has started the thread.     *)
StartTinyUsb ==
  /\ initHasRun_ /\ usbEnabled_ /\ tinyUsb = "none"
  /\ tinyUsb' = "created"
  /\ UNCHANGED <<pinVars, powerSaveMode_, initHasRun_, usbEnabled_>>

(* The thread runs when Evm has no work, and needs the clock to get past   *)
(* tusb_init(): without it, it spins, and no thread below it runs.         *)
TusbInit ==
  /\ tinyUsb \in {"created", "spins"} /\ work = <<>>
  /\ tinyUsb' = IF usbEnabled_ THEN "tud_task" ELSE "spins"
  /\ UNCHANGED <<pinVars, powerSaveMode_, initHasRun_, usbEnabled_>>

VbusChanges ==
  /\ CleanEdges => /\ pin__data_[Vbus].sinceMs > DEBOUNCE_TIME_MS
                   /\ powerSaveMode_ => initHasRun_
  /\ Edge(Vbus)
  /\ UNCHANGED usb

(* The work of an interrupt of VBUS, or of another pin.                    *)
RunPinWork ==
  /\ RunWork
  /\ usbEnabled_' = IF Calls /\ Head(work) = Vbus
                    THEN OnPinVbusInterrupt(Now, powerSaveMode_) ELSE usbEnabled_
  /\ UNCHANGED <<powerSaveMode_, initHasRun_, tinyUsb>>

UsbPowerNext ==
  \/ EnablePowerSaveMode
  \/ DisablePowerSaveMode
  \/ UsbInit
  \/ StartTinyUsb
  \/ TusbInit
  \/ VbusChanges
  \/ RunPinWork
  \/ PinTick /\ UNCHANGED usb
  \/ \E o \in Clients : Client(o, Clients, Pins \ {Vbus}) /\ UNCHANGED usb
  \/ \E p \in Pins \ {Vbus} : Edge(p) /\ UNCHANGED usb

UsbPowerSpec == UsbPowerInit /\ [][UsbPowerNext]_usbVars

(* Evm gets to its work.                                                   *)
UsbPowerFairness == WF_usbVars(RunPinWork)

-----------------------------------------------------------------------------
(* In power save mode the clock of USB ends up as VBUS does, on with power *)
(* and off without it, whenever power came and went before; out of it the  *)
(* clock is on.                                                            *)
UsbFollowsVbus ==
  \A l \in {0, 1}, s \in BOOLEAN :
    <>[](initHasRun_ /\ level[Vbus] = l /\ powerSaveMode_ = s)
      => <>[](usbEnabled_ = (s => l = 1))

(* The thread is started when it is safe to do so: it never spins.         *)
StartsWhenSafe == tinyUsb # "spins"
=============================================================================
