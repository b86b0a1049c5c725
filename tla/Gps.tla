---------------------------------- MODULE Gps ----------------------------------
(***************************************************************************)
(* GPSReader of src/src/GPS/GPS.h: the NMEA sentences of a GPS module, a   *)
(* line at a time, and what the application is told of them.               *)
(*                                                                         *)
(* The module says every second GGA, its satellites in batches of GSV, and *)
(* RMC.  A sentence the reader does not get, or one whose checksum or      *)
(* number of cells is wrong (IsValid, "Bad RMC"), is lost.  Lines are      *)
(* handled in the Evm thread, one after the other; what can come inside of *)
(* a handler is what a callback of the application does.                   *)
(*                                                                         *)
(* A position, an altitude or a speed is known by its time stamp, and a    *)
(* time stamp is zero or not; the sentences kept as sources, the number of *)
(* satellites used and the time of the PPS are data of the same sentence.  *)
(***************************************************************************)
EXTENDS Integers, Sequences, SequencesExt, FiniteSets

CONSTANTS
  DaySeconds,      \* bound: seconds of a day
  Batches,         \* the batches of GSV in a second, [talker, endSeqNo], in order
  Subscriptions,   \* sets of callbacks the application has set at a time
  CallbackResets,  \* the callbacks that call Reset()
  MaxResets,       \* bound: other resets by the application
  Signals          \* the kinds of a second, [time, fix, noisy]

Talkers == {"GP", "BD", "GL", "GI", "GA", "GN"}

ASSUME GpsAssumption ==
  /\ DaySeconds \in Nat \ {0} /\ MaxResets \in Nat
  /\ Batches \in Seq([talker : Talkers, endSeqNo : 1 .. 255])
  /\ Subscriptions \subseteq SUBSET {"FixTime", "Fix2D", "Fix3D", "Fix3DPlus"}
  /\ Signals \subseteq [time : {"blank", "fraction", "round"},
                        fix : {"none", "estimated", "fix"}, noisy : BOOLEAN]

VARIABLES
  second, day,     \* the true time
  signal,          \* of this second: [time, fix, noisy]
  rest,            \* the sentences the module has yet to say this second
  idNmea_,         \* is the reader a listener of the UART's lines?
  processData_,
  timer,           \* is "GPS_READER_RE-ENABLE" running?
  cbSet,           \* the cbOn*Set_ that are TRUE
  data_,           \* AccumulatedData
  satCache_,       \* OnGSV's cache of a batch
  resets,
  roundTimes,      \* the round times seen since one was not, or since Reset
  missed,          \* GSV missed in a row by the batch in the cache, two or more
  dated,           \* was the date taken from an RMC since midnight?
  told             \* what the last sentence had the application told

moduleVars == <<second, day, signal, rest>>
ghosts == <<roundTimes, missed, dated>>
vars == <<moduleVars, idNmea_, processData_, timer, cbSet, data_, satCache_, resets,
          ghosts, told>>

Blank == [kind |-> "blank", second |-> 0]
NoDate == 2
COUNT_THRESHOLD == 2

AccumulatedData ==
  [timeAtTimeLockUs |-> FALSE, timeAtFix2dUs |-> FALSE, timeAtFix3dUs |-> FALSE,
   timeAtSpeedCourseUs |-> FALSE, satDataGPList |-> <<>>, satDataBDList |-> <<>>,
   timeStr |-> Blank, dateStr |-> NoDate,
   consecutiveRoundCount |-> 0, timeRoundLast |-> Blank]

SatelliteDataParseCache == [seqNoNextExpected |-> 1, endSeqNo |-> 0, satDataList |-> <<>>]

-----------------------------------------------------------------------------
(* The module.                                                             *)

Gsv(batch) == [i \in 1 .. batch.endSeqNo |->
                 [type |-> "GSV", talker |-> batch.talker, seqNo |-> i,
                  endSeqNo |-> batch.endSeqNo]]
Cycle == <<[type |-> "GGA"]>> \o FlattenSeq([i \in DOMAIN Batches |-> Gsv(Batches[i])])
           \o <<[type |-> "RMC"]>>

Init ==
  /\ second = 0 /\ day = 0 /\ rest = <<>>
  /\ signal = [time |-> "blank", fix |-> "none", noisy |-> FALSE]
  /\ idNmea_ = FALSE /\ processData_ = TRUE /\ timer = FALSE /\ cbSet = {}
  /\ data_ = AccumulatedData /\ satCache_ = SatelliteDataParseCache
  /\ resets = 0 /\ roundTimes = {} /\ missed = 0 /\ dated = FALSE /\ told = {}

(* The next second, and what the module knows in it.                       *)
NextSecond ==
  /\ rest = <<>>
  /\ second' = (second + 1) % DaySeconds
  /\ day' = IF second' = 0 THEN 1 - day ELSE day
  /\ signal' \in Signals
  /\ rest' = Cycle /\ told' = {}
  /\ dated' = (dated /\ second' # 0)
  /\ UNCHANGED <<idNmea_, processData_, timer, cbSet, data_, satCache_, resets, roundTimes, missed>>

Time == IF signal.time = "blank" THEN Blank ELSE [kind |-> signal.time, second |-> second]

-----------------------------------------------------------------------------
(* Whether a time is to be trusted.                                        *)

(* Mutant: a blank or fractional time leaves the count as it is.           *)
TimeStateKept(d, time) ==
  IF time.kind # "round" THEN [d EXCEPT !.timeRoundLast = Blank]
  ELSE IF time = d.timeRoundLast \/ d.consecutiveRoundCount = COUNT_THRESHOLD THEN d
  ELSE [d EXCEPT !.consecutiveRoundCount = @ + 1, !.timeRoundLast = time]

(* Mutant: a round time starts to count anew, and never is enough.         *)
TimeStateOnce(d, time) ==
  IF time.kind # "round" \/ d.timeRoundLast # time
    THEN [d EXCEPT !.consecutiveRoundCount = 0, !.timeRoundLast = Blank]
  ELSE d

(* TimeStateIsValid, what it does to data_: a blank or a fractional time   *)
(* starts the count anew, and other sentences of the same second are not   *)
(* counted.  Past the threshold timeRoundLast stays.                       *)
TimeState(d, time) ==
  IF time.kind # "round"
    THEN [d EXCEPT !.consecutiveRoundCount = 0, !.timeRoundLast = Blank]
  ELSE IF time = d.timeRoundLast \/ d.consecutiveRoundCount = COUNT_THRESHOLD THEN d
  ELSE [d EXCEPT !.consecutiveRoundCount = @ + 1, !.timeRoundLast = time]

(* And what it returns.                                                    *)
TimeStateIsValid(d, time) ==
  /\ time.kind = "round" /\ time # d.timeRoundLast
  /\ TimeState(d, time).consecutiveRoundCount = COUNT_THRESHOLD

-----------------------------------------------------------------------------
(* Telling the application.  A handler in progress is its data_ and those  *)
(* it told.                                                                *)

Has(d, cb) ==
  CASE cb = "FixTime"   -> d.timeAtTimeLockUs
    [] cb = "Fix2D"     -> d.timeAtFix2dUs
    [] cb = "Fix3D"     -> d.timeAtFix3dUs
    [] cb = "Fix3DPlus" -> d.timeAtFix3dUs /\ d.timeAtSpeedCourseUs

(* OnFixTime, OnFix2D, OnFix3DMaybe, OnFix3DPlusMaybe.                     *)
Notify(h, cb) ==
  IF cb \in cbSet /\ Has(h.d, cb)
    THEN [d |-> IF cb \in CallbackResets THEN AccumulatedData ELSE h.d,
          told |-> h.told \cup {[cb |-> cb, time |-> h.d.timeStr, date |-> h.d.dateStr]}]
    ELSE h

NotifyFix(h) == Notify(Notify(Notify(h, "Fix2D"), "Fix3D"), "Fix3DPlus")

(* The module knows the date once it had a fix.                            *)
Date == IF signal.fix = "none" THEN NoDate ELSE day

(* Mutant: the position is taken before the time is looked at.             *)
OnRMCHasty ==
  LET h == [d |-> [TimeState(data_, Time) EXCEPT !.timeStr = Time, !.dateStr = Date],
            told |-> {}]
  IN  IF signal.fix = "none" THEN h
        ELSE NotifyFix([h EXCEPT !.d.timeAtFix2dUs = TRUE, !.d.timeAtSpeedCourseUs = TRUE])

(* Mutant: the date is taken once.                                         *)
OnRMCDateOnce ==
  LET valid == TimeStateIsValid(data_, Time)
      d == TimeState(data_, Time)
      h == IF valid THEN Notify([d |-> [d EXCEPT !.timeStr = Time, !.timeAtTimeLockUs = TRUE,
                                                 !.dateStr = IF @ = NoDate THEN Date ELSE @],
                                 told |-> {}], "FixTime")
                    ELSE [d |-> d, told |-> {}]
  IN  IF valid /\ signal.fix # "none"
        THEN NotifyFix([h EXCEPT !.d.timeAtFix2dUs = TRUE, !.d.timeAtSpeedCourseUs = TRUE])
        ELSE h

OnRMC ==
  LET valid == TimeStateIsValid(data_, Time)
      d == TimeState(data_, Time)
      h == IF valid THEN Notify([d |-> [d EXCEPT !.timeStr = Time, !.dateStr = Date,
                                                 !.timeAtTimeLockUs = TRUE],
                                 told |-> {}], "FixTime")
                    ELSE [d |-> d, told |-> {}]
  IN  IF valid /\ signal.fix # "none"
        THEN NotifyFix([h EXCEPT !.d.timeAtFix2dUs = TRUE, !.d.timeAtSpeedCourseUs = TRUE])
        ELSE h

(* A GGA has no date; an estimated position is not good enough for it.     *)
OnGGA ==
  LET valid == TimeStateIsValid(data_, Time)
      d == TimeState(data_, Time)
      h == IF valid THEN Notify([d |-> [d EXCEPT !.timeStr = Time, !.timeAtTimeLockUs = TRUE],
                                 told |-> {}], "FixTime")
                    ELSE [d |-> d, told |-> {}]
  IN  IF valid /\ signal.fix = "fix"
        THEN NotifyFix([h EXCEPT !.d.timeAtFix2dUs = TRUE, !.d.timeAtFix3dUs = TRUE])
        ELSE h

-----------------------------------------------------------------------------
(* Satellites.  A message stands for those it names, up to the first with  *)
(* a bad elevation or azimuth.                                             *)

Message(line) == [talker |-> line.talker, second |-> second, seqNo |-> line.seqNo,
                  endSeqNo |-> line.endSeqNo]

(* Mutant: the first message does not empty the cache.                    *)
OnGSVKeepsList(line, mismatch) ==
  LET c == IF line.seqNo = 1
             THEN [satCache_ EXCEPT !.endSeqNo = line.endSeqNo, !.seqNoNextExpected = 1]
             ELSE satCache_
      shouldProcess == line.seqNo = c.seqNoNextExpected /\ line.seqNo <= c.endSeqNo
      added == [c EXCEPT !.seqNoNextExpected = @ + 1,
                         !.satDataList = Append(@, Message(line))]
  IN  IF ~shouldProcess \/ mismatch
        THEN [cache |-> SatelliteDataParseCache, d |-> data_]
      ELSE IF line.seqNo # c.endSeqNo THEN [cache |-> added, d |-> data_]
      ELSE [cache |-> SatelliteDataParseCache,
            d |-> IF line.talker = "GP"
                    THEN [data_ EXCEPT !.satDataGPList = added.satDataList]
                    ELSE [data_ EXCEPT !.satDataBDList = added.satDataList]]

OnGSV(line, mismatch) ==
  LET c == IF line.seqNo = 1
             THEN [SatelliteDataParseCache EXCEPT !.endSeqNo = line.endSeqNo] ELSE satCache_
      shouldProcess == line.seqNo = c.seqNoNextExpected /\ line.seqNo <= c.endSeqNo
      added == [c EXCEPT !.seqNoNextExpected = @ + 1,
                         !.satDataList = Append(@, Message(line))]
  IN  IF ~shouldProcess \/ mismatch
        THEN [cache |-> SatelliteDataParseCache, d |-> data_]
      ELSE IF line.seqNo # c.endSeqNo THEN [cache |-> added, d |-> data_]
      ELSE [cache |-> SatelliteDataParseCache,
            d |-> IF line.talker = "GP"
                    THEN [data_ EXCEPT !.satDataGPList = added.satDataList]
                    ELSE [data_ EXCEPT !.satDataBDList = added.satDataList]]

-----------------------------------------------------------------------------
(* Lines.                                                                  *)

(* The round times that `d` may rely on.                                   *)
SeenBy(time, reset) ==
  IF reset \/ time.kind # "round" THEN {} ELSE roundTimes \cup {time}

Handled(h) ==
  /\ data_' = h.d /\ told' = h.told
  /\ roundTimes' = SeenBy(Time, \E t \in h.told : t.cb \in CallbackResets)
  /\ dated' = (dated \/ (Head(rest).type = "RMC" /\ TimeStateIsValid(data_, Time)))
  /\ UNCHANGED <<satCache_, missed>>

HandledGSV(g) ==
  /\ data_' = g.d /\ satCache_' = g.cache
  /\ missed' = IF Len(g.cache.satDataList) > 1 /\ missed = 2 THEN 2 ELSE 0
  /\ told' = {} /\ UNCHANGED <<roundTimes, dated>>

Unheard(line) ==
  /\ missed' = IF line.type = "GSV" /\ satCache_.satDataList # <<>> /\ missed < 2
                 THEN missed + 1 ELSE missed
  /\ told' = {} /\ UNCHANGED <<data_, satCache_, roundTimes, dated>>

(* ReadLine of a sentence, in the callback of the UART's lines.            *)
ReadLine(line) ==
  IF ~idNmea_ \/ ~processData_ THEN Unheard(line)
  ELSE CASE line.type = "RMC" -> Handled(OnRMC)
         [] line.type = "GGA" -> Handled(OnGGA)
         [] line.type = "GSV" -> \E mismatch \in BOOLEAN : HandledGSV(OnGSV(line, mismatch))

Hear ==
  /\ rest # <<>>
  /\ rest' = Tail(rest)
  /\ ReadLine(Head(rest))
  /\ UNCHANGED <<second, day, signal, idNmea_, processData_, timer, cbSet, resets>>

(* IsValid() says no, or nothing came at all.                              *)
Lose ==
  /\ rest # <<>> /\ signal.noisy
  /\ rest' = Tail(rest)
  /\ Unheard(Head(rest))
  /\ UNCHANGED <<second, day, signal, idNmea_, processData_, timer, cbSet, resets>>

-----------------------------------------------------------------------------
(* The application.                                                        *)

(* The UART may have no id left.                                           *)
StartMonitoring ==
  /\ idNmea_' \in BOOLEAN /\ told' = {}
  /\ UNCHANGED <<moduleVars, processData_, timer, cbSet, data_, satCache_, resets, ghosts>>

StopMonitoring ==
  /\ idNmea_
  /\ idNmea_' = FALSE /\ told' = {}
  /\ UNCHANGED <<moduleVars, processData_, timer, cbSet, data_, satCache_, resets, ghosts>>

(* SetCallbackOn... and UnSetCallbackOn..., as many as one handler calls.  *)
SetCallbacks(cbs) ==
  /\ cbSet' = cbs /\ told' = {}
  /\ UNCHANGED <<moduleVars, idNmea_, processData_, timer, data_, satCache_, resets, ghosts>>

Reset ==
  /\ resets < MaxResets /\ resets' = resets + 1
  /\ data_' = AccumulatedData
  /\ roundTimes' = {} /\ told' = {}
  /\ UNCHANGED <<satCache_, missed, dated>>

ResetOnly ==
  /\ Reset
  /\ UNCHANGED <<moduleVars, idNmea_, processData_, timer, cbSet>>

ResetAndDelayProcessing ==
  /\ Reset
  /\ processData_' = FALSE /\ timer' = TRUE
  /\ UNCHANGED <<moduleVars, idNmea_, cbSet>>

OnTimeout ==
  /\ timer
  /\ timer' = FALSE /\ processData_' = TRUE /\ told' = {}
  /\ UNCHANGED <<moduleVars, idNmea_, cbSet, data_, satCache_, resets, ghosts>>

Next ==
  \/ NextSecond \/ Hear \/ Lose
  \/ StartMonitoring \/ StopMonitoring
  \/ \E cbs \in Subscriptions : SetCallbacks(cbs)
  \/ ResetOnly \/ ResetAndDelayProcessing \/ OnTimeout

Spec == Init /\ [][Next]_vars

(* The module goes on, and Evm runs timers that are due.                   *)
FairSpec == Spec /\ WF_vars(NextSecond) /\ WF_vars(Hear) /\ WF_vars(OnTimeout)

-----------------------------------------------------------------------------
(* Nothing is told before two different round seconds were seen, with none *)
(* between them that was blank or fractional, since the last Reset: the    *)
(* criteria above TimeStateIsValid, whatever sentences were lost.          *)
LocksAreSteady == [][told' # {} => Cardinality(SeenBy(Time, FALSE)) >= 2]_vars

(* Who can ask for a fix can ask for the fixes it rests on: the comments   *)
(* over HasFix2D, HasFix3D and HasFix3DPlus, when a callback resets too.   *)
FixesComplete ==
  /\ data_.timeAtFix2dUs => data_.timeAtTimeLockUs /\ data_.timeStr # Blank
  /\ data_.timeAtFix3dUs \/ data_.timeAtSpeedCourseUs => data_.timeAtFix2dUs

(* GGA has a time and no date, so that after midnight a time is told with  *)
(* the date of another day: but no longer than until the first RMC of that *)
(* day whose time is trusted, whatever was lost, and no reset, callback or *)
(* GGA brings that date back.                                              *)
DateWrongUntilRMC == [][dated' => \A t \in told' : t.date \in {day, NoDate}]_vars

(* The satellites the reader shows are those of one batch of one talker,   *)
(* and of all messages of it: "don't use incomplete batch" in OnGSV.       *)
OneBatch(list, gp) ==
  list # <<>> =>
    /\ Len(list) = list[1].endSeqNo /\ (list[1].talker = "GP" <=> gp)
    /\ \A i \in DOMAIN list : list[i] = [list[1] EXCEPT !.seqNo = i]
SatellitesWhole == OneBatch(data_.satDataGPList, TRUE) /\ OneBatch(data_.satDataBDList, FALSE)

(* What the sequence numbers do achieve: satellites of two batches, or two *)
(* talkers, are mixed only when two messages in a row went missing in      *)
(* between: a single loss is always noticed.                               *)
Shown(list, gp) == list' # list => OneBatch(list', gp) \/ missed = 2
SplicedOnlyAcrossGap ==
  [][Shown(data_.satDataGPList, TRUE) /\ Shown(data_.satDataBDList, FALSE)]_vars

(* When the module has a fix for good, the application is told of it for   *)
(* good: no order of resets, restarts and losses before leaves the reader  *)
(* deaf, and processing comes back after ResetAndDelayProcessing.          *)
Steady == /\ signal = [time |-> "round", fix |-> "fix", noisy |-> FALSE]
          /\ idNmea_ /\ "Fix3DPlus" \in cbSet
FixTold == <>[]Steady => []<>(\E t \in told : t.cb = "Fix3DPlus")
================================================================================
