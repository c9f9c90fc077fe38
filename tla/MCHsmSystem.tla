---------------------------- MODULE MCHsmSystem ----------------------------
(***************************************************************************)
(* HsmSystem and HsmLifecycle for TLC: the wirings of the facade, and the     *)
(* services that may fail.                                                  *)
(***************************************************************************)
EXTENDS HsmLifecycle

\* As in main.cpp.
CompleteWiring == {FullyWired}
\* At most one dependency missing.
AnyWiring == {w \in Wiring : \A f, g \in DOMAIN w : f # g => w[f] \/ w[g]}

AllServices == {"sessions", "keystore", "crypto"}
=============================================================================
