----------------------------- MODULE TctiDevice ------------------------------
(***************************************************************************)
(* The TCTI for the TPM character device of the kernel (tcti-device.c), a  *)
(* message transport.  Older drivers hand out a response in one read and   *)
(* drop what was not read; newer ones let it be read in parts, and then a  *)
(* size query reads the ten header bytes and keeps them for the receive.   *)
(*                                                                         *)
(* Bytes are abstracted to chunks of one header's size: a response is a    *)
(* header chunk, which states the length of the response in chunks, and    *)
(* Len - 1 body chunks.  Each chunk carries the number of the command it   *)
(* answers.  Blocking calls are enabled once they would return.            *)
(***************************************************************************)
EXTENDS Integers, Sequences, TctiCommon

CONSTANTS
    MaxCmds,       \* bound on the commands the client transmits
    MaxLen,        \* longest response; a length of 1 is a header alone
    Timeouts,      \* the timeouts the client uses, of {"block", "poll"}
    Faults,        \* of {"poll", "eof"}: poll() or read() may fail, the driver
                   \* may close the connection
    MayAskAgain,   \* may the client ask for the size when it has been told?
    MayFinalize    \* does the client finalize the context?

ASSUME DeviceAssumption ==
    /\ MaxCmds \in Nat /\ MaxLen \in Nat \ {0}
    /\ MayFinalize \in BOOLEAN /\ MayAskAgain \in BOOLEAN
    /\ Timeouts \subseteq {"block", "poll"} /\ Faults \subseteq {"poll", "eof"}

VARIABLES
    calm,       \* no I/O failures in this behaviour, and a client that asks for the
                \* size of a response once and makes no call out of sequence
                \* that the device does not offer (never changes)
    state,      \* common.state
    driver,     \* "whole" or "parts": how responses can be read; "unprobed" if
                \* it is in parts and the context does not know
    partial,    \* common.partial: the header has been read
    header,     \* common.header: the chunk kept by a size query
    busy,       \* is the TPM executing the last command?
    unread,     \* what can be read from the device
    eof,        \* has the driver closed the connection?
    known,      \* size the client learned from a size query, 0 before (client)
    sent,       \* number of the last command transmitted (history)
    data,       \* what the last successful receive delivered (history)
    answer,     \* the response to the last command (history)
    clean,      \* no I/O failure so far (history)
    reread,     \* has a size query taken a body for a header? (history)
    last        \* last call and its return code (history)

vars == <<calm, state, driver, partial, header, busy, unread, eof, known, sent, data, answer,
          clean, reread, last>>

\* Chunk i of a response of len chunks to command n.
Chunk(n, i, len) == [cmd |-> n, pos |-> i, len |-> len]
Response(n, len) == [i \in 1..len |-> Chunk(n, i, len)]
Chunks == [cmd : 0..MaxCmds, pos : 1..MaxLen, len : 1..MaxLen]
NoChunk == Chunk(0, 1, 1)

TypeOK ==
    /\ state \in TctiStates
    /\ driver \in {"whole", "parts", "unprobed"}
    /\ {calm, partial, busy, eof, clean, reread} \subseteq BOOLEAN
    /\ header \in Chunks
    /\ unread \in Seq(Chunks) /\ data \in Seq(Chunks) /\ answer \in Seq(Chunks)
    /\ known \in 0..MaxLen /\ sent \in 0..MaxCmds
    /\ last.rc \in TctiCodes

\* Tss2_Tcti_Device_Init probes the driver.  If the TPM is not started, or is
\* slow, partial reads count as not supported.
Init ==
    /\ calm \in BOOLEAN
    /\ state = "TRANSMIT" /\ partial = FALSE /\ header = NoChunk
    /\ driver \in {"whole", "parts", "unprobed"}
    /\ busy = FALSE /\ unread = <<>> /\ eof = FALSE
    /\ known = 0 /\ sent = 0 /\ data = <<>> /\ answer = <<>> /\ clean = TRUE
    /\ reread = FALSE
    /\ last = [op |-> "init", rc |-> "SUCCESS"]

\* partial_read_supported.
supported == driver = "parts"

\* The failures of this behaviour, and whether its client may ask again.
Failing == IF calm THEN {} ELSE Faults
AsksAgain == MayAskAgain /\ ~calm

Returns(op, rc) ==
    /\ last' = [op |-> op, rc |-> rc]
    /\ clean' = (clean /\ rc \notin FatalCodes)

\* A call that changes nothing in the context.
Answers(op, rc) ==
    /\ Returns(op, rc)
    /\ UNCHANGED <<calm, state, driver, partial, header, busy, unread, eof, known, sent, data, answer,
                   reread>>

-----------------------------------------------------------------------------

\* tcti_device_transmit.  A driver refuses a write while a command is being
\* executed or its response has not been touched; what is left of a response
\* that was read in part is dropped.
transmit ==
    \/ ~transmit_checks(state) /\ Answers("transmit", "TCTI_BAD_SEQUENCE")
    \/ /\ transmit_checks(state) /\ (eof \/ busy \/ "poll" \in Failing)
       /\ Answers("transmit", "TCTI_IO_ERROR")
    \/ /\ transmit_checks(state) /\ ~eof /\ ~busy
       /\ sent < MaxCmds
       /\ state' = "RECEIVE"
       /\ sent' = sent + 1
       /\ busy' = TRUE /\ unread' = <<>> /\ known' = 0
       /\ Returns("transmit", "SUCCESS")
       /\ UNCHANGED <<calm, driver, partial, header, eof, data, answer, reread>>

\* How poll() ends a call that cannot read: it fails, or times out.
NotReadable(op, timeout) ==
    \/ "poll" \in Failing /\ Answers(op, "TCTI_IO_ERROR")
    \/ unread = <<>> /\ ~eof /\ timeout = "poll" /\ Answers(op, "TCTI_TRY_AGAIN")

\* A read() of up to n chunks, and what the driver then still has.
Took(n) == SubSeq(unread, 1, n)
Left(n) == IF driver # "whole" THEN SubSeq(unread, n + 1, Len(unread)) ELSE <<>>

Least(m, n) == IF m < n THEN m ELSE n

-----------------------------------------------------------------------------
(* tcti_device_receive with a NULL buffer.                                 *)

\* Without partial reads the answer is the largest size there is.
size_unknown ==
    /\ ~supported
    /\ known' = MaxLen
    /\ Returns("size", "SUCCESS")
    /\ UNCHANGED <<calm, state, driver, partial, header, busy, unread, eof, sent, data, answer, reread>>

\* A bug: the header is not counted in the size its size field states.
size_header_twice ==
    /\ supported /\ ~partial /\ unread # <<>>
    /\ partial' = TRUE /\ header' = unread[1] /\ known' = 1 + unread[1].len
    /\ unread' = Left(1)
    /\ Returns("size", "SUCCESS")
    /\ UNCHANGED <<calm, state, driver, busy, eof, sent, data, answer, reread>>

\* The header is read and kept.
size_header ==
    /\ supported /\ ~partial /\ unread # <<>>
    /\ partial' = TRUE /\ header' = unread[1] /\ known' = unread[1].len
    /\ unread' = Left(1)
    /\ Returns("size", "SUCCESS")
    /\ UNCHANGED <<calm, state, driver, busy, eof, sent, data, answer, reread>>

\* The flag partial is not looked at: a query after a successful one reads
\* the beginning of the body as a header.  Its size field is accidental; too
\* small a size, or too short a body, is refused.
size_again ==
    /\ supported /\ partial /\ unread # <<>>
    /\ unread' = Left(1) /\ reread' = TRUE
    /\ \/ /\ header' = unread[1]
          /\ \E n \in 1..MaxLen : known' = n
          /\ Returns("size", "SUCCESS")
       \/ /\ \E rc \in {"TCTI_GENERAL_FAILURE", "TCTI_IO_ERROR"} : Returns("size", rc)
          /\ UNCHANGED <<header, known>>
    /\ UNCHANGED <<calm, state, driver, partial, busy, eof, sent, data, answer>>

\* The end of a connection is not POLLIN; the state is not left.
size_eof == supported /\ unread = <<>> /\ eof /\ Answers("size", "TCTI_GENERAL_FAILURE")

\* Tss2_Sys_ExecuteFinish asks for the size whenever it is called, so a client
\* that calls it again after a receive has failed asks twice.
size(timeout) ==
    \/ ~receive_checks(state) /\ Answers("size", "TCTI_BAD_SEQUENCE")
    \/ /\ receive_checks(state) /\ (known = 0 \/ AsksAgain)
       /\ \/ size_unknown \/ size_header \/ size_again \/ size_eof
          \/ supported /\ NotReadable("size", timeout)

-----------------------------------------------------------------------------
(* tcti_device_receive with a buffer of n chunks.                          *)

\* A bug: the header kept by the size query is not put before the rest.
DeliveredBare(n) == Took(Least(n, Len(unread)))

\* What ends up in the buffer.
Delivered(n) ==
    IF partial THEN <<header>> \o Took(Least(n - 1, Len(unread))) ELSE Took(Least(n, Len(unread)))

\* A header that states more than the buffer holds is a failure; a body taken
\* for a header states anything.
Verdicts(n) ==
    LET first == Delivered(n)[1] IN
    {rc \in {"SUCCESS", "TCTI_GENERAL_FAILURE"} :
        first.pos = 1 => rc = IF n < first.len THEN "TCTI_GENERAL_FAILURE" ELSE "SUCCESS"}

\* A bug: a response that is a header alone is waited for again.
receive_kept_never(n) == FALSE

\* The header is the whole response and has been read.
receive_kept(n) ==
    /\ partial /\ n = 1
    /\ data' = <<header>> /\ partial' = FALSE
    /\ state' = "TRANSMIT"
    /\ Returns("receive", "SUCCESS")
    /\ UNCHANGED <<calm, driver, header, busy, unread, eof, known, sent, answer, reread>>

\* A bug: the header is taken to be there in the next response, too.
receive_read_sticky(n) ==
    /\ ~(partial /\ n = 1) /\ unread # <<>>
    /\ data' = Delivered(n) /\ UNCHANGED partial
    /\ unread' = Left(Least(IF partial THEN n - 1 ELSE n, Len(unread)))
    /\ state' = "TRANSMIT"
    /\ \E rc \in Verdicts(n) : Returns("receive", rc)
    /\ UNCHANGED <<calm, driver, header, busy, eof, known, sent, answer, reread>>

\* The response, or what is left of it, is read.
receive_read(n) ==
    /\ ~(partial /\ n = 1) /\ unread # <<>>
    /\ data' = Delivered(n) /\ partial' = FALSE
    /\ unread' = Left(Least(IF partial THEN n - 1 ELSE n, Len(unread)))
    /\ state' = "TRANSMIT"
    /\ \E rc \in Verdicts(n) : Returns("receive", rc)
    /\ UNCHANGED <<calm, driver, header, busy, eof, known, sent, answer, reread>>

\* End of file; the flag partial stays.
receive_eof(n) ==
    /\ ~(partial /\ n = 1) /\ unread = <<>> /\ eof
    /\ state' = "TRANSMIT"
    /\ Returns("receive", "TCTI_NO_CONNECTION")
    /\ UNCHANGED <<calm, driver, partial, header, busy, unread, eof, known, sent, data, answer, reread>>

\* The client's buffer has the size it was told, or it did not ask and knows
\* what to expect ("expert applications"), possibly wrongly.
receive(timeout) ==
    \/ ~receive_checks(state) /\ Answers("receive", "TCTI_BAD_SEQUENCE")
    \/ /\ receive_checks(state)
       /\ \E n \in IF known # 0 THEN {known} ELSE 1..MaxLen :
             \/ receive_kept(n) \/ receive_read(n) \/ receive_eof(n)
             \/ ~(partial /\ n = 1) /\ NotReadable("receive", timeout)

-----------------------------------------------------------------------------
(* The other entry points, and the driver.                                 *)

\* tcti_device_cancel and tcti_device_set_locality: the state is not looked at.
unsupported ==
    \/ (calm => cancel_checks(state)) /\ Answers("cancel", Unsupported)
    \/ (calm => set_locality_checks(state)) /\ Answers("setLocality", Unsupported)

\* A bug: the state is not set.
finalize_silent ==
    /\ MayFinalize
    /\ eof' = TRUE /\ busy' = FALSE /\ unread' = <<>>
    /\ Returns("finalize", "SUCCESS")
    /\ UNCHANGED <<calm, state, driver, partial, header, known, sent, data, answer, reread>>

\* tcti_device_finalize.
finalize ==
    /\ MayFinalize
    /\ state' = "FINAL"
    /\ eof' = TRUE /\ busy' = FALSE /\ unread' = <<>>
    /\ Returns("finalize", "SUCCESS")
    /\ UNCHANGED <<calm, driver, partial, header, known, sent, data, answer, reread>>

\* The TPM has executed the command (external).
Respond ==
    /\ busy
    /\ \E len \in 1..MaxLen : answer' = Response(sent, len)
    /\ unread' = answer' /\ busy' = FALSE
    /\ UNCHANGED <<calm, state, driver, partial, header, eof, known, sent, data, clean, last, reread>>

\* The driver closes the connection (external).
Disconnect ==
    /\ "eof" \in Failing /\ ~eof
    /\ eof' = TRUE /\ busy' = FALSE /\ unread' = <<>>
    /\ UNCHANGED <<calm, state, driver, partial, header, known, sent, data, answer, clean, last, reread>>

Next ==
    \/ transmit \/ unsupported \/ finalize \/ Respond \/ Disconnect
    \/ \E t \in Timeouts : size(t) \/ receive(t)

Spec == Init /\ [][Next]_vars

\* The TPM answers, and the client keeps fetching its response: Sys asks for
\* the size and then receives.
FairSpec ==
    /\ Spec
    /\ WF_vars(Respond)
    /\ WF_vars(\E t \in Timeouts : known = 0 /\ size(t))
    /\ WF_vars(\E t \in Timeouts : known # 0 /\ receive(t))

-----------------------------------------------------------------------------
(* Properties.                                                             *)

\* A successful receive delivers the whole response to the last command, its
\* header once and first, whether or not a size query read the header before,
\* however long the response is and whatever calls failed in between, unless
\* the client has asked for the size twice (tcti_device_receive).
ResponseMatches ==
    ~reread /\ last.op = "receive" /\ last.rc = "SUCCESS" => data = answer /\ answer[1].cmd = sent

\* A context ready to transmit owes nothing to the past: no response is unread
\* and no kept header waits to be put before the next response.
NothingKept ==
    clean /\ ~reread /\ state = "TRANSMIT" => ~busy /\ unread = <<>> /\ ~partial

\* What holds of the context, the driver and the last call at any time.
StreamInv == TypeOK /\ ResponseMatches /\ NothingKept

\* A transmitted command is answered, also by a response that is only a header.
Answered == (calm /\ state = "RECEIVE") ~> (state # "RECEIVE")

\* Calm behaviours; the others are taken out of the comparison, because a size
\* query at the end of the connection does not leave RECEIVE, and a cancel or
\* setLocality out of sequence is NOT_IMPLEMENTED and not BAD_SEQUENCE.
Contract ==
    INSTANCE TctiContract WITH
        state <- IF calm THEN state ELSE "TRANSMIT",
        last <- IF calm THEN last ELSE [op |-> "init", rc |-> "SUCCESS"]

\* The state machine the comment of tcti-common.h documents.
ImplementsContract == Contract!Spec

=============================================================================
