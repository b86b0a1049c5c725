------------------------------- MODULE Blinker -------------------------------
(***************************************************************************)
(* Blinker (src/src/App/Utl/Blinker.cpp): blinks by itself, a number of    *)
(* times or until it is told to stop, from the callback of one timer, and  *)
(* may be switched by its program at any time between.  Everything runs in *)
(* the Evm thread.  The timer is what module TimerService promises of one; *)
(* its expiry is kept as what is left until then, 0 when it has come.      *)
(*                                                                         *)
(* Blink() blocks the Evm thread while it blinks, and leaves the Blinker   *)
(* off: to what runs by the timer it is a late Off().                      *)
(***************************************************************************)
EXTENDS Integers

CONSTANTS
  Counts,        \* the arguments of EnableAsyncBlink
  Width,         \* one more than the largest uint32_t
  OnOffTimes,    \* the arguments of SetBlinkOnOffTime, as pairs
  Never,         \* no time, and no count
  CallsInside    \* may the functions that switch call the Blinker's?

ASSUME BlinkerAssumption ==
  /\ Width \in Nat /\ Counts \subseteq 0 .. Width - 1
  /\ OnOffTimes \subseteq Nat \X Nat /\ OnOffTimes # {}
  /\ Never \notin Int
  /\ CallsInside \in BOOLEAN

VARIABLES
  on_,
  asyncCountRemaining_,
  onOffMs,    \* onMs_ and offMs_
  expiry,     \* when timer_ expires, or Never
  switching,  \* is OnTimeout() in the function that switches on or off?
  blinks,     \* the count it was asked for, 0 for ever, or Never
  pulses,     \* how often OnTimeout() switched it on since, if there is a count
  touched     \* was it switched by the program since?

request == <<blinks, pulses, touched>>
blinkerVars == <<on_, asyncCountRemaining_, onOffMs, expiry, switching, request>>

BlinkerInit ==
  /\ on_ = FALSE
  /\ asyncCountRemaining_ = -1
  /\ onOffMs \in OnOffTimes
  /\ expiry = Never
  /\ switching = FALSE
  /\ blinks = Never /\ pulses = 0 /\ touched = FALSE

-----------------------------------------------------------------------------
(* Calls of the program.                                                   *)

MayCall == switching => CallsInside

(* Mutant: the count is taken as it is.                                    *)
CountExact(count) == IF count = 0 THEN -1 ELSE count
Count(count) == IF count = 0 THEN -1 ELSE (count + 1) % Width

EnableAsyncBlink(count) ==
  /\ MayCall
  /\ on_' = FALSE
  /\ expiry' = 0
  /\ asyncCountRemaining_' = Count(count)
  /\ blinks' = count /\ pulses' = 0 /\ touched' = FALSE
  /\ UNCHANGED <<onOffMs, switching>>

DisableAsyncBlink ==
  /\ MayCall
  /\ on_' = FALSE
  /\ expiry' = Never
  /\ asyncCountRemaining_' = -1
  /\ blinks' = Never /\ pulses' = 0 /\ touched' = FALSE
  /\ UNCHANGED <<onOffMs, switching>>

(* On(), Off(), Toggle() and Blink().                                      *)
Switch(on) ==
  /\ MayCall
  /\ on_' = on
  /\ touched' = TRUE
  /\ UNCHANGED <<asyncCountRemaining_, onOffMs, expiry, switching, blinks, pulses>>

SetBlinkOnOffTime ==
  /\ MayCall
  /\ onOffMs' \in OnOffTimes
  /\ UNCHANGED <<on_, asyncCountRemaining_, expiry, switching, request>>

-----------------------------------------------------------------------------
(* OnTimeout(), up to the function that switches and from it on.           *)

(* Off, and with a count one less than before.                             *)
CountDown == IF asyncCountRemaining_ = -1 THEN -1 ELSE asyncCountRemaining_ - 1

OnTimeout ==
  /\ expiry = 0 /\ ~switching
  /\ expiry' = Never
  /\ asyncCountRemaining_' = IF on_ THEN asyncCountRemaining_ ELSE CountDown
  /\ IF on_ \/ asyncCountRemaining_' # 0
     THEN /\ on_' = ~on_
          /\ switching' = TRUE
          /\ pulses' = IF on_ \/ blinks \in {Never, 0} THEN pulses ELSE pulses + 1
     ELSE UNCHANGED <<on_, switching, pulses>>
  /\ UNCHANGED <<onOffMs, blinks, touched>>

(* The branch it returns to is the one that made the call.  Without calls  *)
(* inside, that is the one on_ tells.                                      *)
OnTimeoutReturns ==
  /\ switching /\ switching' = FALSE
  /\ \/ on_ /\ expiry' = onOffMs[1]
     \/ ~on_ /\ expiry' = onOffMs[2]
     \/ CallsInside /\ expiry' \in {onOffMs[1], onOffMs[2]}
  /\ UNCHANGED <<on_, asyncCountRemaining_, onOffMs, request>>

BlinkerTick ==
  /\ expiry \notin {Never, 0}
  /\ expiry' = expiry - 1
  /\ UNCHANGED <<on_, asyncCountRemaining_, onOffMs, switching, request>>

BlinkerNext ==
  \/ \E count \in Counts : EnableAsyncBlink(count)
  \/ DisableAsyncBlink
  \/ \E on \in BOOLEAN : Switch(on)
  \/ SetBlinkOnOffTime
  \/ OnTimeout
  \/ OnTimeoutReturns
  \/ BlinkerTick

BlinkerSpec == BlinkerInit /\ [][BlinkerNext]_blinkerVars

-----------------------------------------------------------------------------
(* Types of the state.                                                     *)
BlinkerTypeOK ==
  /\ on_ \in BOOLEAN
  /\ asyncCountRemaining_ \in -1 .. Width - 1
  /\ onOffMs \in OnOffTimes
  /\ expiry \in Nat \cup {Never}
  /\ switching \in BOOLEAN
  /\ blinks \in Counts \cup {Never} /\ pulses \in Nat /\ touched \in BOOLEAN

(* Asked to blink a number of times, it does so no more often; when it has *)
(* come to its end it did so exactly as often, and is off unless the       *)
(* program switched it on; and told to stop, it does nothing by itself.    *)
BlinksAsAsked ==
  /\ blinks \notin {Never, 0} =>
       /\ pulses <= blinks
       /\ expiry = Never /\ ~switching => pulses = blinks /\ (on_ => touched)
  /\ blinks = Never => expiry = Never
=============================================================================
