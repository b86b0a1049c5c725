-------------------------------- MODULE MCGps --------------------------------
(* Gps with an application that wants times and whole fixes, and starts    *)
(* over after each of these.                                               *)
EXTENDS Gps

MCBatches == <<[talker |-> "GP", endSeqNo |-> 2], [talker |-> "BD", endSeqNo |-> 1]>>
MCSubscriptions == {{}, {"FixTime", "Fix3DPlus"}}
MCCallbackResets == {"Fix3DPlus"}
MCSignals == {[time |-> "fraction", fix |-> "none", noisy |-> FALSE],
              [time |-> "round", fix |-> "estimated", noisy |-> TRUE],
              [time |-> "round", fix |-> "fix", noisy |-> FALSE]}
=============================================================================
