---------------------------- MODULE HsmLifecycle ----------------------------
(***************************************************************************)
(* The facade over services that may fail to start or stop, used by a client *)
(* that tries again.                                                        *)
(***************************************************************************)
EXTENDS HsmSystem

\* While the facade is down its client calls init() again and again, and the
\* services do not fail forever: an init() that could succeed at every attempt
\* does succeed in the end.
RetryingClient == WF_vars(Initialise /\ call'.ok)

LiveSpec == Spec /\ RetryingClient

-----------------------------------------------------------------------------
\* However often starting or stopping failed half-way: a facade that is down
\* left no session open and no key stored in the services.
NothingLeftWhileDown ==
    ~isReady => /\ Sessions!ActiveSlots = {}
                /\ \A s \in Keystore!KeySlot :
                      Described(keySlots_[s]) = {}
                        /\ keySlots_[s].key = Keystore!BlankKey

\* A start that failed half-way can be repeated: the services that are already
\* running do not stand in the way, provided the facade was given all of them.
StartCanBeRetried == (~isReady /\ wiring.api) ~> isReady

\* The session manager is started first and stopped last: however starting and
\* stopping failed, and whoever stops the keystore, a facade that says it is ready
\* has a session manager that runs. (Of the keystore this is not true, see below.)
SessionsRunWhileReady == isReady => smInitialized_

\* What docs/api/api_layer.md:74 says of isReady(): true means that the HSM is
\* ready for operations.
ReadyServicesRun == isReady => smInitialized_ /\ ksInitialized_
=============================================================================
