------------------------------ MODULE Timeline ------------------------------
(***************************************************************************)
(* A Timeline of src/src/App/Utl/Timeline.cpp over the CircularBuffer of   *)
(* src/src/App/Utl/Container.h: events of interrupt handlers and threads,  *)
(* and reports of what was recorded, printed while events go on.  A report *)
(* waits for room to print, so all other threads may run in it.            *)
(***************************************************************************)
EXTENDS Integers, Sequences, SequencesExt

CONSTANTS
  Reporters,     \* the threads that call ReportNow()
  Recorders,     \* the threads that can be preempted in Event()
  EventNames,
  ResetEvent, NoEvent,
  MaxEvents,     \* what SetMaxEvents is called with
  IndexLimit,    \* indices are uint32_t
  MaxLate        \* bound: events recorded in a report

ASSUME TimelineAssumption ==
  /\ MaxEvents \subseteq Nat \ {0} /\ MaxEvents # {}
  /\ IndexLimit \in Nat /\ \A c \in MaxEvents : c < IndexLimit
  /\ MaxLate \in Nat

VARIABLES
  list_, capacity_, size_, head_, next_,    \* of eventList_
  keepOldest_, currentlyReporting_,
  adding,                                   \* the events threads have not locked for yet
  walk,                                     \* [Reporters -> where its ReportNow() is]
  recorded                                  \* what was recorded and is to be kept

buffer == <<list_, capacity_, size_, head_, next_>>
timelineVars == <<buffer, keepOldest_, currentlyReporting_, adding, walk, recorded>>

(* Of a report: what was recorded when it began and since then, of that so *)
(* many since then, and whether the list was cleared in it.                *)
NoWalk == [at |-> "idle", this |-> 0, printed |-> <<>>,
           had |-> <<>>, late |-> 0, cleared |-> FALSE]

TimelineInit ==
  /\ capacity_ \in MaxEvents
  /\ list_ = [i \in 0 .. capacity_ - 1 |-> IF i = 0 THEN ResetEvent ELSE NoEvent]
  /\ size_ = 1 /\ head_ = 0 /\ next_ = 1 % capacity_
  /\ keepOldest_ = FALSE /\ currentlyReporting_ = FALSE
  /\ adding = [t \in Recorders |-> NoEvent] /\ walk = [r \in Reporters |-> NoWalk]
  /\ recorded = <<ResetEvent>>

-----------------------------------------------------------------------------
(* CircularBuffer.                                                         *)

(* operator[]: past the end, an element of its own.                        *)
Element(i) == IF i < size_ THEN list_[(head_ + i) % capacity_] ELSE NoEvent

(* Mutant: the oldest stays at the front when it is overwritten.           *)
PushBackKeepsHead(event) ==
  /\ list_' = [list_ EXCEPT ![next_] = event]
  /\ size_' = IF next_ = head_ /\ size_ > 0 THEN size_ ELSE size_ + 1
  /\ next_' = (next_ + 1) % capacity_
  /\ UNCHANGED <<head_, capacity_>>

PushBack(event) ==
  /\ list_' = [list_ EXCEPT ![next_] = event]
  /\ IF next_ = head_ /\ size_ > 0 THEN head_' = (head_ + 1) % capacity_ /\ size_' = size_
     ELSE size_' = size_ + 1 /\ head_' = head_
  /\ next_' = (next_ + 1) % capacity_
  /\ UNCHANGED capacity_

-----------------------------------------------------------------------------
Reporting == {r \in Reporters : walk[r].at # "idle"}
Walking == {r \in Reporting : walk[r].at # "end" /\ ~walk[r].cleared}

(* The part of Event() that holds a lock.                                  *)
AddItem(event) ==
  IF size_ = capacity_ /\ keepOldest_ THEN UNCHANGED <<buffer, recorded, walk>>
  ELSE /\ \A r \in Walking : walk[r].late < MaxLate
       /\ PushBack(event)
       /\ recorded' = Append(IF Len(recorded) = capacity_ THEN Tail(recorded) ELSE recorded, event)
       /\ walk' = [r \in Reporters |->
                     IF r \in Walking
                       THEN [walk[r] EXCEPT !.had = Append(@, event), !.late = @ + 1]
                       ELSE walk[r]]

(* Event() in an interrupt handler, or in a thread that nothing preempts.  *)
Event(event) ==
  /\ IF currentlyReporting_ THEN UNCHANGED <<buffer, recorded, walk>> ELSE AddItem(event)
  /\ UNCHANGED <<keepOldest_, currentlyReporting_, adding>>

(* Event() in a thread that is preempted before it locks.                  *)
EventBegins(t, event) ==
  /\ adding[t] = NoEvent /\ ~currentlyReporting_
  /\ adding' = [adding EXCEPT ![t] = event]
  /\ UNCHANGED <<buffer, keepOldest_, currentlyReporting_, walk, recorded>>

EventAdds(t) ==
  /\ adding[t] # NoEvent /\ AddItem(adding[t]) /\ adding' = [adding EXCEPT ![t] = NoEvent]
  /\ UNCHANGED <<keepOldest_, currentlyReporting_>>

(* The reports there are go on with a list that was cleared.               *)
Cleared ==
  walk' = [r \in Reporters |->
             IF r \in Reporting
               THEN [walk[r] EXCEPT !.cleared = TRUE, !.printed = <<>>, !.had = <<>>, !.late = 0]
               ELSE walk[r]]

(* Clear(), and the event that tells of it, which a report drops.          *)
TimelineReset ==
  /\ head_' = 0 /\ UNCHANGED capacity_ /\ Cleared
  /\ IF currentlyReporting_ THEN size_' = 0 /\ next_' = 0 /\ recorded' = <<>> /\ UNCHANGED list_
     ELSE /\ size_' = 1 /\ next_' = 1 % capacity_ /\ recorded' = <<ResetEvent>>
          /\ list_' = [list_ EXCEPT ![0] = ResetEvent]
  /\ UNCHANGED <<keepOldest_, currentlyReporting_, adding>>

SetMaxEvents(maxEvents) ==
  /\ capacity_' = maxEvents /\ size_' = 0 /\ head_' = 0 /\ next_' = 0 /\ Cleared
  /\ list_' = [i \in 0 .. maxEvents - 1 |-> IF i < capacity_ THEN list_[i] ELSE NoEvent]
  /\ recorded' = <<>>
  /\ UNCHANGED <<keepOldest_, currentlyReporting_, adding>>

Keep ==
  /\ keepOldest_' = ~keepOldest_
  /\ UNCHANGED <<buffer, currentlyReporting_, adding, walk, recorded>>

-----------------------------------------------------------------------------
(* ReportNow().                                                            *)

ReportNow(r) ==
  /\ walk[r].at = "idle"
  /\ currentlyReporting_' = TRUE
  /\ walk' = [walk EXCEPT ![r] = [NoWalk EXCEPT !.at = "size", !.had = recorded]]
  /\ UNCHANGED <<buffer, keepOldest_, adding, recorded>>

(* The widths are looked for, of the names and then of the times.          *)
FindWidths(r) ==
  /\ walk[r].at = "size"
  /\ walk' = [walk EXCEPT ![r].at = IF size_ > 0 THEN "width" ELSE "end", ![r].this = 1]
  /\ UNCHANGED <<buffer, keepOldest_, currentlyReporting_, adding, recorded>>

FindWidth(r) ==
  /\ walk[r].at = "width"
  /\ walk' = IF walk[r].this # size_
             THEN [walk EXCEPT ![r].this = (@ + 1) % IndexLimit]
             ELSE [walk EXCEPT ![r].at = "print", ![r].this = 1]
  /\ UNCHANGED <<buffer, keepOldest_, currentlyReporting_, adding, recorded>>

(* A line has an event and the one before it.                              *)
PrintEvent(r) ==
  /\ walk[r].at = "print"
  /\ LET this == walk[r].this
         new == IF walk[r].cleared THEN <<>>
                ELSE IF this = 1 THEN <<Element(0), Element(1)>> ELSE <<Element(this)>>
     IN  walk' = IF this < size_
                 THEN [walk EXCEPT ![r].this = this + 1, ![r].printed = @ \o new]
                 ELSE [walk EXCEPT ![r].at = "end"]
  /\ UNCHANGED <<buffer, keepOldest_, currentlyReporting_, adding, recorded>>

ReportEnds(r) ==
  /\ walk[r].at = "end"
  /\ currentlyReporting_' = FALSE
  /\ walk' = [walk EXCEPT ![r] = NoWalk]
  /\ UNCHANGED <<buffer, keepOldest_, adding, recorded>>

TimelineNext ==
  \/ \E e \in EventNames : Event(e) \/ \E t \in Recorders : EventBegins(t, e)
  \/ \E t \in Recorders : EventAdds(t)
  \/ TimelineReset \/ Keep
  \/ \E c \in MaxEvents : SetMaxEvents(c)
  \/ \E r \in Reporters :
       ReportNow(r) \/ FindWidths(r) \/ FindWidth(r) \/ PrintEvent(r) \/ ReportEnds(r)

TimelineSpec == TimelineInit /\ [][TimelineNext]_timelineVars

-----------------------------------------------------------------------------
(* Some of a sequence, each once and in its order.                         *)
InOrder(some, of) ==
  \E place \in [DOMAIN some -> DOMAIN of] :
    /\ \A i, j \in DOMAIN some : i < j => place[i] < place[j]
    /\ \A i \in DOMAIN some : some[i] = of[place[i]]

(* A report prints events in the order in which they were recorded, each   *)
(* once.  It is of the list as it was when the report began, if nothing    *)
(* was recorded meanwhile; but a thread that had seen that there was no    *)
(* report does record, and after another report has ended all do.  Then    *)
(* it misses no more of them all than were recorded meanwhile.  What it    *)
(* prints of a list that is cleared under it is left open.                 *)
ReportInOrder ==
  \A r \in Reporting :
    LET w == walk[r]
    IN  ~w.cleared =>
          /\ InOrder(w.printed, w.had)
          /\ w.late = 0 => IsPrefix(w.printed, w.had)
          /\ w.at = "end" => \/ Len(w.printed) >= Len(w.had) - w.late
                             \/ Len(w.had) <= w.late + 1

=============================================================================
