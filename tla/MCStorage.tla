------------------------------ MODULE MCStorage ------------------------------
(* Storage with one object, two files, and two versions of the firmware.   *)
EXTENDS Storage

CONSTANTS v1, v2, i1, f1, f2, a, b

MCFirmwares == {v1, v2}
MCIds == {i1}
MCNames == {f1, f2}
MCValues == {a, b}
=============================================================================
