---------------------------- MODULE MCUartOutput ----------------------------
(* UartOutput with the threads of Evm and of Work.                         *)
EXTENDS UartOutput, TLC

CONSTANTS evm, work

MCThreads == {evm, work}
MCPriority == evm :> 10 @@ work :> 1
MCLengths == {1, 2}
MCUses == evm :> Uarts @@ work :> {"UART_1"}
=============================================================================
