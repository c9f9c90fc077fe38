---------------------------- MODULE MCCipherLoop ----------------------------
(***************************************************************************)
(* CipherLoop for TLC, with bytes of one bit.                               *)
(***************************************************************************)
EXTENDS CipherLoop

Bit == 0 .. 1
XorWithOne == [b \in Bit |-> 1 - b]
=============================================================================
