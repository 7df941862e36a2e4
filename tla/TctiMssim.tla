------------------------------ MODULE TctiMssim ------------------------------
(***************************************************************************)
(* The TCTI for the Microsoft TPM2 simulator (tcti-mssim.c), a byte-stream *)
(* transport.  A response travels as a size field, the response itself and *)
(* four trailing zero bytes, over a non-blocking socket whose bytes arrive *)
(* when they like; tcti_mssim_receive may be left with TRY_AGAIN between   *)
(* these parts and be called again.                                        *)
(*                                                                         *)
(* Bytes are abstracted to chunks: one for the size field, BodyLen for the *)
(* response and one for the trailer, each carrying the number of the       *)
(* command it answers.  Reading n chunks takes whatever the next n chunks  *)
(* of the stream are, so a reader that has lost its place misreads, as the *)
(* code does.  Blocking (timeout -1) calls are enabled once they would     *)
(* return.                                                                 *)
(***************************************************************************)
EXTENDS Integers, Sequences, TctiCommon

CONSTANTS
    MaxCmds,         \* bound on the commands the client transmits
    BodyLen,         \* chunks of a response; two let it arrive in pieces
    Timeouts,        \* the timeouts the client uses, of {"block", "poll"}
    PollFaults,      \* may poll() fail, e.g. interrupted by a signal?
    ConnLoss,        \* may the connection break?
    PlatformFaults,  \* may a command on the platform socket fail?
    MayCancel,       \* does the client cancel commands?
    MayFinalize      \* does the client finalize the context?

ASSUME MssimAssumption ==
    /\ MaxCmds \in Nat /\ BodyLen \in Nat \ {0}
    /\ Timeouts \subseteq {"block", "poll"}
    /\ {PollFaults, ConnLoss, PlatformFaults, MayCancel, MayFinalize} \subseteq BOOLEAN

VARIABLES
    calm,     \* no failures on the platform socket in this behaviour, and a client
              \* that does not finalize its context (never changes)
    state,    \* common.state
    hsize,    \* common.header.size: 0 until the size field has been read
    cancel,   \* the flag cancel: CANCEL_OFF is owed to the simulator
    locality, \* common.locality
    conn,     \* is the connection to the simulator up?
    todo,     \* commands the simulator has received and not answered
    flight,   \* chunks the simulator has sent that have not arrived
    wire,     \* chunks that can be read from the socket
    sent,     \* number of the last command transmitted (history)
    data,     \* what the last successful receive delivered (history)
    clean,    \* no unrecoverable failure and no cancel so far (history)
    last      \* last call and its return code (history)

vars == <<calm, state, hsize, cancel, locality, conn, todo, flight, wire, sent, data, clean, last>>
client == <<calm, state, hsize, cancel, locality, data, clean, last>>

Chunk(k, n) == [kind |-> k, cmd |-> n]
Body(n) == [i \in 1..BodyLen |-> Chunk("body", n)]
Response(n) == <<Chunk("size", n)>> \o Body(n) \o <<Chunk("zero", n)>>

\* What the four bytes of a chunk say when they are taken for a size field.
Misread == BodyLen + 2
SizeOf(c) == CASE c.kind = "size" -> BodyLen [] c.kind = "zero" -> 0 [] OTHER -> Misread

TypeOK ==
    /\ state \in TctiStates \ {"FINAL"}
    /\ hsize \in {0, BodyLen, Misread}
    /\ calm \in BOOLEAN /\ cancel \in BOOLEAN /\ conn \in BOOLEAN /\ clean \in BOOLEAN
    /\ locality \in {0, 1}
    /\ sent \in 0..MaxCmds
    /\ todo \in Seq(1..MaxCmds)
    /\ \A s \in {flight, wire, data} :
          s \in Seq([kind : {"size", "body", "zero"}, cmd : 1..MaxCmds])
    /\ last.rc \in TctiCodes

\* tcti_mssim_init_context_data; the sockets are connected by then.
Init ==
    /\ calm \in BOOLEAN
    /\ state = "TRANSMIT" /\ hsize = 0 /\ cancel = FALSE /\ locality = 0
    /\ conn = TRUE /\ todo = <<>> /\ flight = <<>> /\ wire = <<>>
    /\ sent = 0 /\ data = <<>> /\ clean = TRUE
    /\ last = [op |-> "init", rc |-> "SUCCESS"]

Returns(op, rc) == last' = [op |-> op, rc |-> rc]

Refused(op, rc) ==
    /\ Returns(op, rc)
    /\ UNCHANGED <<calm, state, hsize, cancel, locality, conn, todo, flight, wire, sent, data, clean>>

-----------------------------------------------------------------------------
(* tcti_mssim_transmit: the set-up message, then the command.  A command   *)
(* whose header states another size than the caller is refused; a write to *)
(* the socket fails only when the connection is gone.                      *)

transmit ==
    \/ ~transmit_checks(state) /\ Refused("transmit", "TCTI_BAD_SEQUENCE")
    \/ transmit_checks(state) /\ Refused("transmit", "TCTI_BAD_VALUE")
    \/ /\ transmit_checks(state)
       /\ sent < MaxCmds
       /\ \/ /\ conn
             /\ sent' = sent + 1
             /\ todo' = Append(todo, sent')
             /\ state' = "RECEIVE"
             /\ Returns("transmit", "SUCCESS")
          \/ /\ ~conn
             /\ Returns("transmit", "TCTI_IO_ERROR")
             /\ UNCHANGED <<state, todo, sent>>
       /\ UNCHANGED <<calm, hsize, cancel, locality, conn, flight, wire, data, clean>>

-----------------------------------------------------------------------------
(* tcti_mssim_receive.  The call is a pipeline of phases over a record of  *)
(* what it reads and writes; a phase hands on records with rc = "go" and   *)
(* passes a finished call through.                                         *)

Call == [state |-> state, hsize |-> hsize, cancel |-> cancel, wire |-> wire,
         data |-> <<>>, rc |-> "go"]

\* return rc: the call may be repeated.
Stop(c, rc) == [c EXCEPT !.rc = rc]

\* A bug: the context is not taken back to TRANSMIT.
OutKeepsState(c, rc) == [c EXCEPT !.rc = rc, !.hsize = 0]

\* goto out: header.size is reset and the context is back in TRANSMIT.
Out(c, rc) == [c EXCEPT !.rc = rc, !.hsize = 0, !.state = "TRANSMIT"]

\* A bug: the end of a broken connection is not noticed.
PollAndRecvDeaf(c, n, timeout) ==
    IF Len(c.wire) < n THEN {}
    ELSE {[c EXCEPT !.data = SubSeq(c.wire, 1, n), !.wire = SubSeq(c.wire, n + 1, Len(c.wire))]}

\* socket_poll, then socket_recv_buf of n chunks into data.  An empty socket
\* blocks or times out; a broken connection polls as readable and reads as
\* end of file.  Chunks read before a timeout inside socket_recv_buf are gone.
PollAndRecv(c, n, timeout) ==
    (IF PollFaults THEN {Out(c, "TCTI_IO_ERROR")} ELSE {})
    \cup
    (IF c.wire = <<>> /\ conn
     THEN IF timeout = "block" THEN {} ELSE {Stop(c, "TCTI_TRY_AGAIN")}
     ELSE IF Len(c.wire) >= n
     THEN {[c EXCEPT !.data = SubSeq(c.wire, 1, n), !.wire = SubSeq(c.wire, n + 1, Len(c.wire))]}
     ELSE IF conn /\ timeout = "block" THEN {}
     ELSE {Out([c EXCEPT !.wire = <<>>], "TCTI_IO_ERROR")})

\* A bug: the size field is counted as a part of the response.
ReadSizeInclusive(c, timeout) ==
    IF c.hsize # 0
    THEN {c}
    ELSE {IF d.rc = "go" THEN [d EXCEPT !.hsize = SizeOf(d.data[1]) + 1, !.data = <<>>] ELSE d :
             d \in PollAndRecv(c, 1, timeout)}

\* The size field is read once and kept in header.size.
ReadSize(c, timeout) ==
    IF c.hsize # 0
    THEN {c}
    ELSE {IF d.rc = "go" THEN [d EXCEPT !.hsize = SizeOf(d.data[1]), !.data = <<>>] ELSE d :
             d \in PollAndRecv(c, 1, timeout)}

\* A bug: the end of the response is left to be skipped as the trailer.
ReadBodyShort(c, small, timeout) ==
    IF c.rc # "go" THEN {c}
    ELSE IF small /\ c.hsize > 0 THEN {Stop(c, "TCTI_INSUFFICIENT_BUFFER")}
    ELSE PollAndRecv(c, c.hsize - 1, timeout)

\* The response itself, once the caller's buffer is known to hold it.
ReadBody(c, small, timeout) ==
    IF c.rc # "go" THEN {c}
    ELSE IF small /\ c.hsize > 0 THEN {Stop(c, "TCTI_INSUFFICIENT_BUFFER")}
    ELSE PollAndRecv(c, c.hsize, timeout)

\* A bug: the trailer is left in the stream.
ReadTailSkipped(c, timeout) == {c}

\* The appended four zero bytes; they do not reach the caller's buffer.
ReadTail(c, timeout) ==
    IF c.rc # "go" THEN {c}
    ELSE {[d EXCEPT !.data = c.data] : d \in PollAndRecv(c, 1, timeout)}

\* After a cancel the simulator is told to stop cancelling; if that fails the
\* call returns without passing the label out.
FinishCancel(c) ==
    IF c.rc # "go" THEN {c}
    ELSE IF ~c.cancel THEN {Out(c, "SUCCESS")}
    ELSE {Out([c EXCEPT !.cancel = FALSE], "SUCCESS")}
         \cup (IF PlatformFaults /\ ~calm THEN {Stop(c, "TCTI_IO_ERROR")} ELSE {})

size_calls(timeout) ==
    {IF c.rc = "go" THEN Stop(c, "SUCCESS") ELSE c : c \in ReadSize(Call, timeout)}

receive_calls(small, timeout) ==
    UNION {UNION {UNION {FinishCancel(e) : e \in ReadTail(d, timeout)} :
                     d \in ReadBody(c, small, timeout)} :
              c \in ReadSize(Call, timeout)}

\* The effect of a finished call on the context.
Apply(op, c) ==
    /\ state' = c.state /\ hsize' = c.hsize /\ cancel' = c.cancel /\ wire' = c.wire
    /\ data' = IF op = "receive" /\ c.rc = "SUCCESS" THEN c.data ELSE <<>>
    /\ clean' = (clean /\ c.rc \notin FatalCodes)
    /\ Returns(op, c.rc)
    /\ UNCHANGED <<calm, locality, conn, todo, flight, sent>>

size(timeout) ==
    \/ ~receive_checks(state) /\ Refused("size", "TCTI_BAD_SEQUENCE")
    \/ receive_checks(state) /\ \E c \in size_calls(timeout) : Apply("size", c)

receive(small, timeout) ==
    \/ ~receive_checks(state) /\ Refused("receive", "TCTI_BAD_SEQUENCE")
    \/ receive_checks(state) /\ \E c \in receive_calls(small, timeout) : Apply("receive", c)

-----------------------------------------------------------------------------
(* The other entry points.                                                 *)

\* tcti_mssim_cancel: CANCEL_ON over the platform socket.
cancel_cmd ==
    /\ MayCancel
    /\ \/ ~cancel_checks(state) /\ Refused("cancel", "TCTI_BAD_SEQUENCE")
       \/ /\ cancel_checks(state)
          /\ \/ /\ state' = "TRANSMIT" /\ cancel' = TRUE /\ clean' = FALSE
                /\ Returns("cancel", "SUCCESS")
             \/ /\ PlatformFaults /\ ~calm
                /\ Returns("cancel", "TCTI_IO_ERROR")
                /\ UNCHANGED <<state, cancel, clean>>
          /\ UNCHANGED <<calm, hsize, locality, conn, todo, flight, wire, sent, data>>

\* tcti_mssim_set_locality: used by the next transmit.
set_locality ==
    \/ ~set_locality_checks(state) /\ Refused("setLocality", "TCTI_BAD_SEQUENCE")
    \/ /\ set_locality_checks(state)
       /\ locality' = 1 - locality
       /\ Returns("setLocality", "SUCCESS")
       /\ UNCHANGED <<calm, state, hsize, cancel, conn, todo, flight, wire, sent, data, clean>>

\* tcti_mssim_finalize says goodbye and closes both sockets.
finalize ==
    /\ MayFinalize /\ ~calm
    /\ last.op # "finalize"
    /\ Returns("finalize", "SUCCESS")
    /\ conn' = FALSE /\ todo' = <<>> /\ flight' = <<>> /\ wire' = <<>>
    /\ UNCHANGED <<calm, state, hsize, cancel, locality, sent, data, clean>>

-----------------------------------------------------------------------------
(* The simulator and the network (external).                               *)

\* The simulator executes the oldest command it has and sends its response.
Simulate ==
    /\ conn /\ todo # <<>>
    /\ flight' = flight \o Response(Head(todo))
    /\ todo' = Tail(todo)
    /\ UNCHANGED <<client, conn, wire, sent>>

\* The next chunk becomes readable.
Arrive ==
    /\ flight # <<>>
    /\ wire' = Append(wire, Head(flight))
    /\ flight' = Tail(flight)
    /\ UNCHANGED <<client, conn, todo, sent>>

\* The connection breaks; what has arrived can still be read.
Disconnect ==
    /\ ConnLoss /\ conn
    /\ conn' = FALSE /\ todo' = <<>> /\ flight' = <<>>
    /\ UNCHANGED <<client, wire, sent>>

Environment == Simulate \/ Arrive \/ Disconnect

Client ==
    \/ transmit \/ cancel_cmd \/ set_locality
    \/ \E t \in Timeouts : size(t) \/ \E small \in BOOLEAN : receive(small, t)

Next ==
    \/ last.op # "finalize" /\ (Client \/ Environment)
    \/ finalize

\* The simulator and the network make progress, and a client that has sent a
\* command keeps asking for the response, as the loops of the layers above do.
Fairness ==
    /\ WF_vars(Simulate) /\ WF_vars(Arrive)
    /\ WF_vars(\E t \in Timeouts : receive(FALSE, t))

Spec == Init /\ [][Next]_vars
FairSpec == Spec /\ Fairness

-----------------------------------------------------------------------------
(* Properties.                                                             *)

\* However the size, body and trailer of a response arrive and whatever calls
\* were repeated in between, a successful receive delivers the whole response
\* to the command transmitted last and nothing else (tcti_mssim_receive).
ResponseMatches ==
    clean /\ last.op = "receive" /\ last.rc = "SUCCESS" => data = Body(sent)

\* A context that is ready to transmit owes nothing to the past: no byte of an
\* earlier response is unread and no command is unanswered, so the next
\* response cannot be an old one (the label out of tcti_mssim_receive).
NoStrayBytes ==
    clean /\ state = "TRANSMIT" => todo \o flight \o wire = <<>> /\ hsize = 0

\* What holds of the context, the stream and the last call at any time.
StreamInv == TypeOK /\ ResponseMatches /\ NoStrayBytes

\* The place in the stream is lost: header.size is set and the response it
\* belongs to has been read.  A poll for the trailer that times out leaves the
\* call with TRY_AGAIN after the response went into the caller's buffer; the
\* repeated call takes the trailer for the beginning of the response.
Misplaced ==
    /\ conn /\ hsize # 0 /\ todo = <<>>
    /\ \A i \in DOMAIN (wire \o flight) : (wire \o flight)[i].kind = "zero"

\* A transmitted command is answered: receives end, with the response or with
\* a failure once the connection is lost, unless a timeout before the trailer
\* has made the caller lose its place.
Answered == (calm /\ state = "RECEIVE") ~> (state = "TRANSMIT" \/ Misplaced)

\* Calm behaviours; the others are taken out of the comparison, because a failed
\* CANCEL_OFF does not leave RECEIVE and finalize does not enter FINAL.
Contract ==
    INSTANCE TctiContract WITH
        state <- IF calm THEN state ELSE "TRANSMIT",
        last <- IF calm THEN last ELSE [op |-> "init", rc |-> "SUCCESS"]

\* The state machine the comment of tcti-common.h documents.
ImplementsContract == Contract!Spec
=============================================================================
