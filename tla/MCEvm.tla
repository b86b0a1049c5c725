-------------------------------- MODULE MCEvm --------------------------------
(* Evm with one interrupt handler i1 and at most one task k1 that queue    *)
(* work, and one timer t1 or two.  Labels are told apart where work is     *)
(* cleared by label and where the work of one waits for that of another.   *)
EXTENDS Evm

CONSTANTS i1, k1, t1, t2

MCIsrs == {i1}
MCTask == {k1}
MCNoTask == {}
MCOneTimer == {t1}
MCTwoTimers == {t1, t2}

(* Due now, in a tick's time, and with TickUs = 2 in half a tick's time or   *)
(* in one and a half: long enough to sleep.                                *)
MCDueTimes == {1, 2}
MCDueNow == {0, 1}
MCOneUs == {1}
MCThreeUs == {3}
MCZeroUs == {0}
=============================================================================
