------------------------------ MODULE UartStub ------------------------------
(***************************************************************************)
(* The UART of the HOST platform: the C driver of mcal_uart_stub.c, which     *)
(* prints, and mcal::UartStub, which turns its codes into Status.  C code may *)
(* call the driver directly; its uartDeinit() and uartLog() are not offered    *)
(* by the C++ class.                                                        *)
(*                                                                          *)
(* What is printed goes into the buffer of stdio first.  stdio passes parts of *)
(* it on when it likes and all of it at fflush(), unless stdout is full or      *)
(* closed: then it may take only part of what it is given, and may drop what   *)
(* it holds.  A message is a sequence of bytes; NULL is the null pointer; a    *)
(* banner, a timestamp and a line end are one item each.                     *)
(***************************************************************************)
EXTENDS HsmTypes, SequencesExt

CONSTANTS
    Message,    \* what callers send: sequences
    NULL,
    UpBanner, DownBanner, Timestamp, LineEnd,
    MaxPrinted  \* bound for checking: items printed

ASSUME UartAssumption == \A m \in Message : m \in Seq(Range(m)) /\ m # NULL

VARIABLES
    g_uart_initialized,     \* TRUE for UART_MAGIC
    pending,                \* what the buffer of stdio holds
    output,                 \* what has come out of stdout
    failed,                 \* history: stdout has refused or lost something
    call,                   \* the last call: its data, what stdio took, its status
    up                      \* history: started and not stopped since

stdio == <<pending, output, failed>>
vars == <<g_uart_initialized, stdio, call, up>>

\* The values of ehsm_status_t.
EHSM_STATUS_OK == 0
EHSM_STATUS_ERR_INVALID_PARAM == -1
EHSM_STATUS_ERR_NOT_INITIALIZED == -2
CStatus == {EHSM_STATUS_OK, EHSM_STATUS_ERR_INVALID_PARAM, EHSM_STATUS_ERR_NOT_INITIALIZED}

Init == /\ g_uart_initialized = FALSE /\ up = FALSE
        /\ pending = <<>> /\ output = <<>> /\ failed = FALSE
        /\ call = [op |-> "none", data |-> <<>>, taken |-> <<>>, status |-> "OK"]

-----------------------------------------------------------------------------
(* stdio.                                                                    *)

\* stdio was given data and took the part taken of it.  It passes on some of what
\* it holds, everything if flushed; if the output fails the rest stays or is lost.
Prints(data, taken, flushed) ==
    LET text == pending \o taken IN
    \E n \in 0 .. Len(text) :
        LET rest == SubSeq(text, n + 1, Len(text)) IN
        /\ output' = output \o SubSeq(text, 1, n)
        /\ \/ /\ flushed => rest = <<>>
              /\ pending' = rest /\ failed' = (failed \/ taken # data)
           \/ /\ rest # <<>>
              /\ pending' \in {rest, <<>>} /\ failed' = TRUE

\* printf() of a banner; nothing is flushed.
Announces(banner) ==
    \E taken \in Prefixes(<<banner>>) : Prints(<<banner>>, taken, FALSE)

\* A slip (see SessionManager): fflush() forgotten.
TransmitsUnflushed(data, taken) == Prints(data, taken, FALSE)

\* Printing followed by fflush(stdout), whose result is not looked at.
Transmits(data, taken) == Prints(data, taken, TRUE)

-----------------------------------------------------------------------------
(* Slips, see SessionManager.                                               *)

\* The codes of two errors exchanged.
convertStatusSwapped(c) == CASE c = 0 -> "OK"
                             [] c = -2 -> "ERR_INVALID_PARAM"
                             [] c = -1 -> "ERR_NOT_INITIALIZED"
\* The flag not cleared.
uartDeinitKeepsFlag(c) ==
    \/ /\ ~g_uart_initialized /\ c = EHSM_STATUS_ERR_NOT_INITIALIZED
       /\ UNCHANGED <<g_uart_initialized, stdio>>
    \/ /\ g_uart_initialized /\ c = EHSM_STATUS_OK
       /\ UNCHANGED g_uart_initialized
       /\ Announces(DownBanner)

-----------------------------------------------------------------------------
(* The C driver.                                                            *)

uartInit(c) ==
    /\ c = EHSM_STATUS_OK
    /\ \/ g_uart_initialized /\ UNCHANGED <<g_uart_initialized, stdio>>
       \/ /\ ~g_uart_initialized /\ g_uart_initialized' = TRUE
          /\ Announces(UpBanner)

uartDeinit(c) ==
    \/ /\ ~g_uart_initialized /\ c = EHSM_STATUS_ERR_NOT_INITIALIZED
       /\ UNCHANGED <<g_uart_initialized, stdio>>
    \/ /\ g_uart_initialized /\ c = EHSM_STATUS_OK
       /\ g_uart_initialized' = FALSE
       /\ Announces(DownBanner)

\* The two early returns of the calls that send.
Refused(data, c) ==
    /\ \/ ~g_uart_initialized /\ c = EHSM_STATUS_ERR_NOT_INITIALIZED
       \/ /\ g_uart_initialized /\ data = NULL
          /\ c = EHSM_STATUS_ERR_INVALID_PARAM
    /\ UNCHANGED stdio
Sends(data) == g_uart_initialized /\ data # NULL

\* fwrite() counts the bytes that stdio took, not those that come out.
BufferStatus(data, taken) ==
    IF taken = data THEN EHSM_STATUS_OK ELSE EHSM_STATUS_ERR_INVALID_PARAM

uartTxBuffer(data, taken, c) ==
    \/ Refused(data, c) /\ taken = <<>>
    \/ /\ Sends(data) /\ taken \in Prefixes(data)
       /\ Transmits(data, taken)
       /\ c = BufferStatus(data, taken)

\* uartTxByte() and uartTxString(): the result of putchar() or fputs() is not
\* looked at.
uartTx(data, c) ==
    \/ Refused(data, c)
    \/ /\ Sends(data) /\ c = EHSM_STATUS_OK
       /\ \E taken \in Prefixes(data) : Transmits(data, taken)

\* uartLog() prints three times, each time whatever became of the one before.
Line(data) == <<Timestamp>> \o data \o <<LineEnd>>
uartLog(data, c) ==
    \/ Refused(data, c)
    \/ /\ Sends(data) /\ c = EHSM_STATUS_OK
       /\ \E time \in Prefixes(<<Timestamp>>), text \in Prefixes(data),
             end \in Prefixes(<<LineEnd>>) :
               Transmits(Line(data), time \o text \o end)

-----------------------------------------------------------------------------
(* mcal::UartStub and the C code that calls the driver.                      *)

\* UartStub::convertStatus().
convertStatus(c) == CASE c = 0 -> "OK"
                      [] c = -1 -> "ERR_INVALID_PARAM"
                      [] c = -2 -> "ERR_NOT_INITIALIZED"
                      [] OTHER -> "ERR_INTERNAL"

Called(op, data, taken, c) ==
    /\ call' = [op |-> op, data |-> data, taken |-> taken, status |-> convertStatus(c)]
    /\ Len(output') + Len(pending') <= MaxPrinted

Initialise == \E c \in CStatus :
    uartInit(c) /\ Called("init", <<>>, <<>>, c) /\ up' = TRUE

DriverDeinit == \E c \in CStatus :
    uartDeinit(c) /\ Called("uartDeinit", <<>>, <<>>, c) /\ up' = FALSE

TxByte == \E c \in CStatus, m \in {m \in Message : Len(m) = 1} :
    /\ uartTx(m, c) /\ Called("txByte", m, <<>>, c)
    /\ UNCHANGED <<g_uart_initialized, up>>

\* An empty span may come without memory: its data() is then the null pointer.
TxBuffer ==
    \E c \in CStatus, m \in Message \cup {NULL} :
    \E taken \in IF m = NULL THEN {<<>>} ELSE Prefixes(m) :
        /\ uartTxBuffer(m, taken, c) /\ Called("txBuffer", m, taken, c)
        /\ UNCHANGED <<g_uart_initialized, up>>

TxString == \E c \in CStatus, m \in Message \cup {NULL} :
    /\ uartTx(m, c) /\ Called("txString", m, <<>>, c)
    /\ UNCHANGED <<g_uart_initialized, up>>

DriverLog == \E c \in CStatus, m \in Message \cup {NULL} :
    /\ uartLog(m, c) /\ Called("uartLog", m, <<>>, c)
    /\ UNCHANGED <<g_uart_initialized, up>>

\* log() and vlog() do not reach the driver.
Log == \E m \in Message \cup {NULL} :
    /\ UNCHANGED <<g_uart_initialized, stdio, up>>
    /\ Called("log", m, <<>>, EHSM_STATUS_OK)

Next == \/ Initialise \/ DriverDeinit \/ TxByte \/ TxBuffer \/ TxString
        \/ DriverLog \/ Log

Spec == Init /\ [][Next]_vars

-----------------------------------------------------------------------------
\* ERR_NOT_INITIALIZED comes from every call but init() and log() while the UART
\* is down, and only then: through all the calls, and the conversion of codes.
DownIsReported ==
    [][(call'.op \notin {"init", "log"})
        => (call'.status = "ERR_NOT_INITIALIZED" <=> ~up)]_vars

\* As long as stdout takes everything, its text shows when the UART was up:
\* banners alternate, beginning with that of init() however often it is called,
\* nothing else stands before the first or after one of uartDeinit(), and the
\* last one tells whether the UART is up now.
Printed == output \o pending
Banners == {UpBanner, DownBanner}
LastBanner(text) ==
    IF Range(text) \cap Banners = {} THEN DownBanner
    ELSE text[SelectLastInSeq(text, LAMBDA item : item \in Banners)]
TrafficIsFramed ==
    ~failed =>
        /\ \A i \in DOMAIN Printed :
              LastBanner(SubSeq(Printed, 1, i - 1)) =
                  IF Printed[i] = UpBanner THEN DownBanner ELSE UpBanner
        /\ up <=> LastBanner(Printed) = UpBanner

\* As long as stdout takes everything, a message is out when the call that sent
\* it returns, at the end of all that was printed before; stdio holds nothing back
\* then but a banner. So a crash loses no message that a call has accepted.
SentIsOut ==
    [][(~failed' /\ call'.status = "OK")
        => /\ call'.op \in {"txByte", "txBuffer", "txString"}
                => pending' = <<>> /\ IsSuffix(call'.data, output')
           /\ call'.op = "uartLog"
                => pending' = <<>> /\ IsSuffix(Line(call'.data), output')
           /\ Range(pending') \subseteq Banners]_vars

=============================================================================
