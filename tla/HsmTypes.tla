------------------------------ MODULE HsmTypes ------------------------------
(***************************************************************************)
(* The values that cross the interfaces of the library: the status every    *)
(* operation returns and the values of an output parameter.                 *)
(***************************************************************************)
EXTENDS Integers

\* The codes of StatusCode that the modelled components return or that their
\* documentation promises.  The numeric values are never compared.
StatusCode ==
    { "OK", "ERR_INVALID_PARAM", "ERR_INSUFFICIENT_BUFFER",
      "ERR_SESSION_INVALID", "ERR_NOT_INITIALIZED", "ERR_KEY_SLOT_FULL",
      "ERR_INVALID_KEY_ID", "ERR_AUTH_FAILED", "ERR_HARDWARE" }

\* The value recorded for a session-id output parameter that the call did not
\* write.  No session ever has this id: ids start at 1.
NotWritten == 0
=============================================================================
