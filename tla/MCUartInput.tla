----------------------------- MODULE MCUartInput -----------------------------
(* UartInput with the shell, a GPS reader that listens to lines, and a     *)
(* monitor of raw data.                                                    *)
EXTENDS UartInput

CONSTANTS gps, ubx

MCLineListeners == {gps}
MCRawListeners == {ubx}
MCHidesBlanks == {gps, Application}
=============================================================================
