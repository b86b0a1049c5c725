---------------------------- MODULE OutputChannel ----------------------------
(* What an output of the UART promises to those who send: bytes leave in   *)
(* the order they were accepted in, each once; when the device is reset or *)
(* its buffer cleared, the bytes that waited longest are dropped, or all.  *)
EXTENDS Naturals, Sequences

CONSTANTS
  Outputs,  \* the UARTs
  Bytes

VARIABLES
  waiting,  \* what each was given and has not sent
  wire      \* the byte each has sent last, if any

vars == <<waiting, wire>>

Init ==
  /\ waiting = [u \in Outputs |-> <<>>]
  /\ wire = [u \in Outputs |-> <<>>]

Accept(u, byte) ==
  /\ waiting' = [waiting EXCEPT ![u] = Append(@, byte)]
  /\ UNCHANGED wire

Transmit(u) ==
  /\ waiting[u] # <<>>
  /\ wire' = [wire EXCEPT ![u] = <<Head(waiting[u])>>]
  /\ waiting' = [waiting EXCEPT ![u] = Tail(@)]

Drop(u, n) ==
  /\ waiting' = [waiting EXCEPT ![u] = SubSeq(@, n + 1, Len(@))]
  /\ UNCHANGED wire

Next ==
  \E u \in Outputs :
    \/ \E byte \in Bytes : Accept(u, byte)
    \/ Transmit(u)
    \/ \E n \in 1 .. Len(waiting[u]) : Drop(u, n)

Spec == Init /\ [][Next]_vars
=============================================================================
