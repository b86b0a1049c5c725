------------------------------ MODULE MCBleGatt ------------------------------
(* BleGatt with two characteristics, both with notifications, and values   *)
(* that fill their last blob and that do not.                              *)
EXTENDS BleGatt

CONSTANTS h1, h2

MCHandles == {h1, h2}
MCServiceLists == {{h1, h2}, {h1}}
MCVersions == {1, 2}
MCLength == <<2, 3>>
=============================================================================
