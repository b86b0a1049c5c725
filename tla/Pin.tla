--------------------------------- MODULE Pin ---------------------------------
(***************************************************************************)
(* Pin objects (src/src/App/Peripheral/Pin.cpp): each names a pin of the   *)
(* processor whose data, pin__data_, is shared by all objects that name    *)
(* it and is counted by them.  When the last one goes the pin is switched  *)
(* off.  Interrupts of a pin are debounced, and their callback runs as     *)
(* work of Evm, which the client of this module takes from the queue.      *)
(*                                                                         *)
(* The objects of a program come and go in the Evm thread, where the calls *)
(* here are made.  What a call does to the objects is given as the state   *)
(* it makes of another, as one statement of C++ makes several calls.       *)
(* Levels that are written and the kinds of pulls are left out, and an     *)
(* interrupt is for both edges, as the repository uses it.                 *)
(***************************************************************************)
EXTENDS Integers, Sequences, FiniteSets

CONSTANTS
  Pins,              \* the pins of the processor
  PIN_COUNT,         \* the number of no pin
  Objects,           \* where Pin objects may live
  DEBOUNCE_TIME_MS,
  temporary,         \* the object of a statement
  MaxQueued          \* bound: the work of interrupts that waits

ASSUME PinAssumption ==
  /\ PIN_COUNT \notin Pins
  /\ IsFiniteSet(Objects) /\ Cardinality(Objects) < 256
  /\ temporary \in Objects
  /\ DEBOUNCE_TIME_MS \in Nat /\ MaxQueued \in Nat

VARIABLES
  pin_,         \* the pin that each object names; PIN_COUNT if it is none
  pin__data_,   \* the data of the pins, and of PIN_COUNT the dummy's
  gpio,         \* which pins are switched on
  irq,          \* of which pins interrupts are on
  level,        \* what is applied to the pins
  work,         \* the pins whose interrupt queued work, oldest first
  upMs,         \* the time since boot, as far as debouncing tells it apart
  left, joined  \* the pins that objects were made to name others than, and those others

objects == <<pin_, pin__data_, gpio, irq>>
pinVars == <<objects, level, work, upMs, left, joined>>

(* interruptTimeMs_ is kept as the time since then.                        *)
Elapsed == 0 .. DEBOUNCE_TIME_MS + 1
PinData == [count : 0 .. 255, intEnabled_ : BOOLEAN, sinceMs : Elapsed]

NewPinData(up) == [count |-> 0, intEnabled_ |-> FALSE, sinceMs |-> up]

PinInit ==
  /\ pin_ = [o \in Objects |-> PIN_COUNT]
  /\ pin__data_ = [p \in Pins \cup {PIN_COUNT} |-> NewPinData(0)]
  /\ gpio = {} /\ irq = {}
  /\ level = [p \in Pins |-> 0]
  /\ work = <<>>
  /\ upMs = 0
  /\ left = {} /\ joined = {}

-----------------------------------------------------------------------------
(* What calls make of the objects, s.                                      *)

Now == [pin_ |-> pin_, data |-> pin__data_, gpio |-> gpio, irq |-> irq]

Become(s) == pin_' = s.pin_ /\ pin__data_' = s.data /\ gpio' = s.gpio /\ irq' = s.irq

IncrRef(s, p) ==
  IF p \in Pins THEN [s EXCEPT !.data[p].count = (@ + 1) % 256] ELSE s

DisableInterrupt(s, o) ==
  IF s.pin_[o] \in Pins
  THEN [s EXCEPT !.irq = @ \ {s.pin_[o]}, !.data[s.pin_[o]].intEnabled_ = FALSE]
  ELSE s

EnableInterrupt(s, o) ==
  IF s.pin_[o] \in Pins
  THEN [s EXCEPT !.irq = @ \cup {s.pin_[o]}, !.data[s.pin_[o]].intEnabled_ = TRUE]
  ELSE s

(* It switches off the pin that the object names by now.                   *)
RefCountDestroy(s, o, p) ==
  LET off == DisableInterrupt([s EXCEPT !.gpio = @ \ {s.pin_[o]}], o)
  IN  [off EXCEPT !.data[p] = NewPinData(upMs)]

DecrRef(s, o, p) ==
  LET less == [s EXCEPT !.data[p].count = (@ - 1) % 256]
  IN  IF p \notin Pins THEN s
      ELSE IF less.data[p].count = 0 THEN RefCountDestroy(less, o, p) ELSE less

(* The data of the pin that o named becomes that of other's.               *)
Assign(s, o, other) ==
  [s EXCEPT !.data[s.pin_[o]] = s.data[s.pin_[other]], !.pin_[o] = s.pin_[other]]

Construct(s, o, p) ==
  IncrRef([s EXCEPT !.pin_[o] = p, !.gpio = @ \cup {p}], p)

CopyConstruct(s, o, other) == IncrRef(Assign(s, o, other), s.pin_[other])

(* Mutant: references are counted whether or not the pins differ.          *)
OperatorAssignCounts(s, o, other) == IncrRef(Assign(s, o, other), s.pin_[other])

OperatorAssign(s, o, other) ==
  LET thisPin == s.pin_[o]
      assigned == Assign(s, o, other)
  IN  IF thisPin # s.pin_[other]
      THEN IncrRef(DecrRef(assigned, o, thisPin), s.pin_[other])
      ELSE assigned

(* The object is gone: its place is free.                                  *)
Destroy(s, o) ==
  LET gone == IF s.pin_[o] \in Pins THEN DecrRef(s, o, s.pin_[o]) ELSE s
  IN  [gone EXCEPT !.pin_[o] = PIN_COUNT]

(* o = Pin(p);                                                             *)
AssignNew(s, o, p) ==
  Destroy(OperatorAssign(Construct(s, temporary, p), o, temporary), temporary)

-----------------------------------------------------------------------------
(* What a program does with its object o, where others are its objects and *)
(* mine its pins.                                                          *)

ClientConstruct(o, mine) ==
  /\ pin_[o] = PIN_COUNT
  /\ \E p \in mine : Become(Construct(Now, o, p))
  /\ UNCHANGED <<left, joined>>

ClientCopy(o, others) ==
  /\ pin_[o] = PIN_COUNT
  /\ \E other \in others \ {o} : Become(CopyConstruct(Now, o, other))
  /\ UNCHANGED <<left, joined>>

(* The data of p, which o named, is overwritten with that of q, and if     *)
(* that is found to be no more than one reference, q is switched off.      *)
Moves(p, q) ==
  IF p \in Pins /\ p # q THEN left' = left \cup {p} /\ joined' = joined \cup ({q} \cap Pins)
  ELSE UNCHANGED <<left, joined>>

ClientAssign(o, others) ==
  \E other \in others :
    Become(OperatorAssign(Now, o, other)) /\ Moves(pin_[o], pin_[other])

(* Blinker's SetPin(), which the shell calls with whatever pin is typed.   *)
ClientSetPin(o, mine) ==
  \E p \in mine : Become(AssignNew(Now, o, p)) /\ Moves(pin_[o], p)

ClientDestroy(o) ==
  /\ pin_[o] # PIN_COUNT
  /\ Become(Destroy(Now, o))
  /\ UNCHANGED <<left, joined>>

Client(o, others, mine) ==
  /\ \/ ClientConstruct(o, mine)
     \/ ClientCopy(o, others)
     \/ ClientAssign(o, others)
     \/ ClientSetPin(o, mine)
     \/ ClientDestroy(o)
     \/ Become(EnableInterrupt(Now, o)) /\ UNCHANGED <<left, joined>>
     \/ Become(DisableInterrupt(Now, o)) /\ UNCHANGED <<left, joined>>
  /\ UNCHANGED <<level, work, upMs>>

-----------------------------------------------------------------------------
InterruptHandler(p) ==
  IF pin__data_[p].sinceMs > DEBOUNCE_TIME_MS
  THEN /\ pin__data_' = [pin__data_ EXCEPT ![p].sinceMs = 0]
       /\ work' = Append(work, p)
  ELSE UNCHANGED <<pin__data_, work>>

Edge(p) ==
  /\ Len(work) < MaxQueued
  /\ level' = [level EXCEPT ![p] = 1 - @]
  /\ IF p \in irq THEN InterruptHandler(p) ELSE UNCHANGED <<pin__data_, work>>
  /\ UNCHANGED <<pin_, gpio, irq, upMs, left, joined>>

(* Evm takes work off its queue.  Does it call the pin's callback?         *)
RunWork ==
  /\ work # <<>>
  /\ work' = Tail(work)
  /\ UNCHANGED <<objects, level, upMs, left, joined>>

Calls == pin__data_[Head(work)].intEnabled_

Older(ms) == IF ms > DEBOUNCE_TIME_MS THEN ms ELSE ms + 1

PinTick ==
  /\ upMs' = Older(upMs)
  /\ pin__data_' = [p \in DOMAIN pin__data_ |->
                      [pin__data_[p] EXCEPT !.sinceMs = Older(@)]]
  /\ UNCHANGED <<pin_, gpio, irq, level, work, left, joined>>

-----------------------------------------------------------------------------
(* Types of the state.                                                     *)
PinTypeOK ==
  /\ pin_ \in [Objects -> Pins \cup {PIN_COUNT}]
  /\ pin__data_ \in [Pins \cup {PIN_COUNT} -> PinData]
  /\ gpio \subseteq Pins /\ irq \subseteq Pins
  /\ level \in [Pins -> {0, 1}]
  /\ work \in Seq(Pins) /\ Len(work) <= MaxQueued
  /\ upMs \in Elapsed
  /\ left \subseteq Pins /\ joined \subseteq Pins

(* A pin's count is that of the objects that name it, and while there is   *)
(* one the pin is on; without any, its interrupt is off.  An object that   *)
(* is made to name another pin spoils the count of the pin it leaves, and  *)
(* may switch the other one off; but it does no more harm, to their counts *)
(* or to any pin else, whatever is done with their objects later.          *)
PinsCounted ==
  \A p \in Pins \ left :
    LET names == {o \in Objects : pin_[o] = p}
    IN  /\ pin__data_[p].count = Cardinality(names)
        /\ p \notin joined =>
             IF names = {} THEN p \notin irq /\ ~pin__data_[p].intEnabled_ ELSE p \in gpio
=============================================================================
