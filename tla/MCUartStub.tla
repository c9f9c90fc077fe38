----------------------------- MODULE MCUartStub -----------------------------
(***************************************************************************)
(* UartStub for TLC: two bytes, messages of up to two of them.               *)
(***************************************************************************)
EXTENDS UartStub

CONSTANTS x, y

Messages == {<<>>, <<x>>, <<x, y>>}
=============================================================================
