--------------------------- MODULE MCHsmDocumented ---------------------------
(***************************************************************************)
(* HsmDocumented for TLC: one algorithm, whose keys fill a slot.             *)
(***************************************************************************)
EXTENDS HsmDocumented

CONSTANT AES_256

CompleteWiring == {FullyWired}
KeySizes == [a \in Algorithm |-> IF a = AES_256 THEN kMaxKeySize ELSE 0]
=============================================================================
