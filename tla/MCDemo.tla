------------------------------- MODULE MCDemo -------------------------------
(***************************************************************************)
(* Demo for TLC: both programs, and a key of one byte.                       *)
(***************************************************************************)
EXTENDS Demo

CONSTANT m1

OneByteKey == [material |-> m1, size |-> 1]
AllServices == {"sessions", "keystore", "crypto"}
=============================================================================
