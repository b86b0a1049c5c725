------------------------------- MODULE MCTimer -------------------------------
(* Timer on three timers.  Times 0 is always past or present, so the list  *)
(* is entered at the front, in the middle and at the end; snapping to 2    *)
(* makes different requests share an expiry.                               *)
EXTENDS Timer

CONSTANTS t1, t2, t3

MCTimers == {t1, t2, t3}
MCTimes == {0, 2}
MCDurations == {0, 1}
MCIntervals == {1}
MCSnaps == {2}
MCSymmetry == Permutations(MCTimers)
=============================================================================
