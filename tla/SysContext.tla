----------------------------- MODULE SysContext -----------------------------
(***************************************************************************)
(* A TSS2_SYS_CONTEXT: the command buffer every SAPI call works on, the    *)
(* stages a command goes through, and the calls that rearrange the buffer  *)
(* between Prepare and Complete.  Command and response share the buffer.   *)
(*                                                                         *)
(* The buffer is an array of cells.  A cell stands for a unit the code     *)
(* moves as a whole: the ten-byte header, a handle, the size field of the  *)
(* authorization area, one authorization, the UINT16 size field of a       *)
(* TPM2B, a piece of its contents, one further parameter.  Offsets and     *)
(* lengths count cells, as the code's count bytes.                         *)
(***************************************************************************)
EXTENDS Integers, Sequences, TctiCommon

CONSTANTS
    Commands,   \* the TPM commands the client uses
    Layout,     \* what Prepare and Complete of each command marshal
    MaxCmdSize, \* maxCmdSize: the cells of the command buffer
    MaxAuths,   \* bound on the sessions of a command
    ParamSizes, \* sizes of the parameters given to Tss2_Sys_SetDecryptParam
    NullParams, \* does the client insert parameters of any size for NULL?
    MaxPrepares,\* bound on the commands the client prepares
    Malformed   \* malformed responses, of {"short", "long", "tag", "header"}

\* The size of a parameter that is given as a NULL pointer.
Null == -1

\* handles/rspHandles: GetNumHandles.  decrypt/encrypt/auth: the flags Prepare
\* sets.  sizes: sizes of the first TPM2B parameter, Null for a NULL pointer.
\* rest/rspSize/rspRest: further parameters, and those of the response.
ASSUME SysAssumption ==
    /\ Layout \in [Commands ->
          [handles : Nat, rspHandles : Nat, decrypt : BOOLEAN, encrypt : BOOLEAN, auth : BOOLEAN,
           sizes : SUBSET (Nat \cup {Null}), rest : Nat, rspSize : Nat, rspRest : Nat]]
    /\ MaxCmdSize \in Nat \ {0} /\ MaxAuths \in Nat /\ MaxPrepares \in Nat
    /\ ParamSizes \subseteq Nat \ {0}
    /\ NullParams \in BOOLEAN /\ Malformed \subseteq {"short", "long", "tag", "header"}

\* A header fits (Tss2_Sys_GetContextSize), and so do the handles of a command:
\* CommonPreparePrologue points cpBuffer behind them without looking.
ASSUME HandlesFit == \A c \in Commands : 1 + Layout[c].handles <= MaxCmdSize

VARIABLES
    previousStage,
    commandCode,
    cmdBuffer,
    cpBuffer,         \* offset of the command parameters
    cpBufferUsedSize,
    nextData,
    cmd_header,       \* copy of the header transmitted
    rsp_header,       \* tag and code of the last response
    authsCount,
    flags,            \* decryptAllowed, encryptAllowed, authAllowed, decryptNull
    tcti,             \* state of the TCTI context below
    prepares,         \* calls of Prepare so far, up to MaxPrepares
    want,             \* what the client asked for since Prepare (history)
    usable,           \* no call on the command has failed (history)
    sent,             \* the bytes last transmitted (history)
    last              \* last call, its return code and its output (history)

buffer == <<cmdBuffer, cpBuffer, cpBufferUsedSize, commandCode>>
history == <<prepares, want, usable, sent>>
vars == <<previousStage, commandCode, cmdBuffer, cpBuffer, cpBufferUsedSize, nextData, cmd_header,
          rsp_header, authsCount, flags, tcti, prepares, want, usable, sent, last>>

-----------------------------------------------------------------------------
(* Cells and layouts.                                                      *)

Header(tag, size, code) == [kind |-> "header", tag |-> tag, size |-> size, code |-> code]
Cell(kind, c, n) == [kind |-> kind, of |-> c, n |-> n]
Cells(kind, c, n) == [i \in 1..n |-> Cell(kind, c, i)]

NoFlags == [decrypt |-> FALSE, encrypt |-> FALSE, auth |-> FALSE, null |-> FALSE]

\* The cells of buf at offset off and the memory effect of writing s there.
At(buf, off, len) == [i \in 1..len |-> buf[off + i - 1]]
Write(buf, off, s) ==
    [i \in DOMAIN buf |-> IF i - off + 1 \in 1..Len(s) THEN s[i - off + 1] ELSE buf[i]]
SetTag(buf, tag) == [buf EXCEPT ![0].tag = tag]
SetSize(buf, size) == [buf EXCEPT ![0].size = size]
SetCode(buf, code) == [buf EXCEPT ![0].code = code]

\* The parameters of command c whose first TPM2B holds size pieces of kind k.
Params(c, k, size) ==
    (IF Layout[c].decrypt
     THEN <<Cell("size", c, IF size = Null THEN 0 ELSE size)>>
          \o Cells(k, c, IF size = Null THEN 0 ELSE size)
     ELSE <<>>)
    \o Cells("param", c, Layout[c].rest)

AuthArea(c, n) == IF n = 0 THEN <<>> ELSE <<Cell("authsize", c, n)>> \o Cells("auth", c, n)

\* Reference: the command the TPM specification prescribes for a request.
Encoding(w) ==
    LET body == Cells("handle", w.cmd, Layout[w.cmd].handles)
                \o AuthArea(w.cmd, w.auths) \o Params(w.cmd, w.kind, w.size)
    IN <<Header(IF w.auths = 0 THEN "NO_SESSIONS" ELSE "SESSIONS", Len(body) + 1, w.cmd)>> \o body

\* The parameters of the response, the first one encrypted or not.
RspParams(c, k) ==
    (IF Layout[c].encrypt
     THEN <<Cell("size", c, Layout[c].rspSize)>> \o Cells(k, c, Layout[c].rspSize)
     ELSE <<>>)
    \o Cells("rsp", c, Layout[c].rspRest)

\* The response of a TPM that has executed the command w (external).
Response(w) ==
    LET c == w.cmd
        params == RspParams(c, "cipher")
        body == Cells("rsphandle", c, Layout[c].rspHandles)
                \o (IF w.auths = 0 THEN params
                    ELSE <<Cell("paramsize", c, Len(params))>> \o params
                         \o Cells("rspauth", c, w.auths))
    IN <<Header(IF w.auths = 0 THEN "NO_SESSIONS" ELSE "SESSIONS", Len(body) + 1, "SUCCESS")>> \o body

-----------------------------------------------------------------------------

\* Tss2_Sys_Initialize; the buffer is not cleared.
Init ==
    /\ previousStage = "INITIALIZE"
    /\ commandCode = "none"
    /\ cmdBuffer = [i \in 0..MaxCmdSize - 1 |->
                      IF i = 0 THEN Header("none", 0, "none") ELSE Cell("junk", "none", i)]
    /\ cpBuffer = 0 /\ cpBufferUsedSize = 0 /\ nextData = 0
    /\ cmd_header = Header("none", 0, "none")
    /\ rsp_header = [tag |-> "none", rc |-> "SUCCESS"]
    /\ authsCount = 0
    /\ flags = NoFlags
    /\ tcti = "TRANSMIT"
    /\ prepares = 0 /\ want = [cmd |-> "none"] /\ usable = FALSE /\ sent = <<>>
    /\ last = [op |-> "init", rc |-> "SUCCESS", out |-> <<>>]

Returns(op, rc) == last' = [op |-> op, rc |-> rc, out |-> <<>>]
Delivers(op, out) == last' = [op |-> op, rc |-> "SUCCESS", out |-> out]

\* An early return of a call that has changed nothing; fails tells whether
\* the caller has to give up on the command.
EarlyReturn(op, rc, fails) ==
    /\ Returns(op, rc)
    /\ usable' = (usable /\ ~fails)
    /\ UNCHANGED <<previousStage, nextData, cmd_header, rsp_header, authsCount, flags, tcti, buffer,
                   want, sent, prepares>>

-----------------------------------------------------------------------------
(* Tss2_Sys_<Command>_Prepare: CommonPreparePrologue, the marshalling,     *)
(* CommonPrepareEpilogue.  What does not fit the buffer is not marshalled. *)

PrepareStages == {"INITIALIZE", "RECEIVE_RESPONSE", "PREPARE"}

\* The flags are cleared before the stage is looked at.
PrepareRefused ==
    /\ previousStage \notin PrepareStages
    /\ flags' = NoFlags
    /\ nextData' = 0
    /\ Returns("Prepare", "SYS_BAD_SEQUENCE")
    /\ UNCHANGED <<previousStage, cmd_header, rsp_header, authsCount, tcti, buffer, history>>

CommonPreparePrologue(c) ==
    /\ previousStage \in PrepareStages
    /\ prepares < MaxPrepares /\ prepares' = prepares + 1
    /\ commandCode' = c
    /\ cpBuffer' = 1 + Layout[c].handles

\* A parameter that cannot be marshalled: the header of c and whatever was
\* marshalled before are in the buffer, which keeps its old size and stage.
PrepareTorn(c) ==
    /\ CommonPreparePrologue(c)
    /\ cmdBuffer' = Write(SetCode(SetTag(cmdBuffer, "NO_SESSIONS"), c),
                          1, Cells("handle", c, Layout[c].handles))
    /\ flags' = NoFlags
    /\ nextData' = cpBuffer'
    /\ usable' = FALSE
    /\ Returns("Prepare", "SYS_BAD_VALUE")
    /\ UNCHANGED <<previousStage, cpBufferUsedSize, cmd_header, rsp_header, authsCount, tcti, want, sent>>

\* A bug: the difference is taken the wrong way round.
UsedSizeSwapped == cpBuffer' - nextData'

UsedSize == nextData' - cpBuffer'

CommonPrepareEpilogue(c, size) ==
    LET body == Cells("handle", c, Layout[c].handles) \o Params(c, "plain", size)
    IN /\ Len(body) + 1 <= MaxCmdSize
       /\ cmdBuffer' = Write(cmdBuffer, 0, <<Header("NO_SESSIONS", Len(body) + 1, c)>> \o body)
       /\ nextData' = Len(body) + 1
       /\ cpBufferUsedSize' = UsedSize
       /\ previousStage' = "PREPARE"

Prepare(c, size) ==
    /\ CommonPreparePrologue(c)
    /\ CommonPrepareEpilogue(c, size)
    /\ flags' = [decrypt |-> Layout[c].decrypt, encrypt |-> Layout[c].encrypt,
                 auth |-> Layout[c].auth, null |-> Layout[c].decrypt /\ size = Null]
    /\ want' = [cmd |-> c, kind |-> "plain", size |-> size, auths |-> 0]
    /\ usable' = TRUE
    /\ Returns("Prepare", "SUCCESS")
    /\ UNCHANGED <<cmd_header, rsp_header, authsCount, tcti, sent>>

-----------------------------------------------------------------------------
(* Tss2_Sys_SetCmdAuths.  The parameters move down and the authorization   *)
(* area is written in front of them.  That it succeeds once per prepared   *)
(* command (want.auths = 0) is a rule for the client and no check of the   *)
(* code, which would put a second area in front of the first; that it is   *)
(* not called again after it failed half way (usable), too.                *)

SetCmdAuths(n) ==
    LET newCmdSize == cmdBuffer[0].size + 1 + n
    IN
    \/ /\ previousStage # "PREPARE"
       /\ EarlyReturn("SetCmdAuths", "SYS_BAD_SEQUENCE", FALSE)
    \/ /\ previousStage = "PREPARE" /\ ~flags.auth
       /\ EarlyReturn("SetCmdAuths", "SUCCESS", FALSE)
    \/ /\ previousStage = "PREPARE" /\ flags.auth
       /\ usable /\ want.auths = 0
       /\ \/ /\ newCmdSize > MaxCmdSize
             /\ cmdBuffer' = SetTag(cmdBuffer, "SESSIONS")
             /\ authsCount' = 0
             /\ usable' = FALSE
             /\ Returns("SetCmdAuths", "SYS_INSUFFICIENT_CONTEXT")
             /\ UNCHANGED <<cpBuffer, want>>
          \/ /\ newCmdSize <= MaxCmdSize
             /\ cmdBuffer' =
                   LET moved == Write(cmdBuffer, cpBuffer + n + 1,
                                      At(cmdBuffer, cpBuffer, cpBufferUsedSize))
                       filled == Write(moved, cpBuffer, AuthArea(commandCode, n))
                   IN SetSize(SetTag(filled, "SESSIONS"), newCmdSize)
             /\ cpBuffer' = cpBuffer + n + 1
             /\ authsCount' = n
             /\ want' = [want EXCEPT !.auths = n]
             /\ Returns("SetCmdAuths", "SUCCESS")
             /\ UNCHANGED usable
       /\ UNCHANGED <<previousStage, commandCode, cpBufferUsedSize, nextData, cmd_header, rsp_header,
                      flags, tcti, sent, prepares>>

-----------------------------------------------------------------------------
(* Tss2_Sys_SetDecryptParam: the encrypted first parameter replaces the    *)
(* prepared one, or is inserted where a NULL was prepared.  Unless         *)
(* NullParams the client inserts only parameters as long as the area they  *)
(* are inserted into, the one case test/tpmclient/tpmclient.int.c tries.   *)

\* Tss2_Sys_GetDecryptParam: the size field the parameter area starts with.
DecryptParamSize == cmdBuffer[cpBuffer].n

\* A bug: the size field in front of them is forgotten.
InsertOffsetShort(size) == cpBuffer + cpBufferUsedSize

\* Where the parameters after an inserted one are moved to.
InsertOffset(size) == cpBuffer + cpBufferUsedSize + 1

InsertParam(size) ==
    LET len == cpBufferUsedSize - 1
        moved == Write(cmdBuffer, InsertOffset(size), At(cmdBuffer, cpBuffer + 1, len))
        filled == Write(moved, cpBuffer,
                        <<Cell("size", commandCode, size)>> \o Cells("cipher", commandCode, size))
    IN /\ cmdBuffer' = SetSize(filled, cmdBuffer[0].size + size)
       /\ cpBufferUsedSize' = cpBufferUsedSize + size

SetDecryptParam(size) ==
    LET insert == DecryptParamSize = 0 /\ flags.null
        fail == CASE previousStage # "PREPARE" -> "SYS_BAD_SEQUENCE"
                  [] ~flags.decrypt -> "SYS_NO_DECRYPT_PARAM"
                  [] cmdBuffer[0].size + size > MaxCmdSize -> "SYS_INSUFFICIENT_CONTEXT"
                  [] insert /\ InsertOffset(size) + cpBufferUsedSize - 1 > MaxCmdSize ->
                        "SYS_INSUFFICIENT_CONTEXT"
                  [] ~insert /\ DecryptParamSize # size -> "SYS_BAD_SIZE"
                  [] OTHER -> "none"
    IN
    \/ fail # "none" /\ EarlyReturn("SetDecryptParam", fail, FALSE)
    \/ /\ fail = "none" /\ usable
       /\ insert => NullParams \/ size = cpBufferUsedSize
       /\ \/ insert /\ InsertParam(size)
          \/ /\ ~insert
             /\ cmdBuffer' = Write(cmdBuffer, cpBuffer + 1, Cells("cipher", commandCode, size))
             /\ UNCHANGED cpBufferUsedSize
       /\ want' = [want EXCEPT !.kind = "cipher", !.size = size]
       /\ Returns("SetDecryptParam", "SUCCESS")
       /\ UNCHANGED <<previousStage, commandCode, cpBuffer, nextData, cmd_header, rsp_header, authsCount,
                      flags, tcti, usable, sent, prepares>>

-----------------------------------------------------------------------------
(* Tss2_Sys_ExecuteAsync and Tss2_Sys_ExecuteFinish.                       *)

\* The caller executes a command only if building it succeeded.
ExecuteAsync ==
    \/ /\ previousStage # "PREPARE"
       /\ EarlyReturn("ExecuteAsync", "SYS_BAD_SEQUENCE", FALSE)
    \/ /\ previousStage = "PREPARE" /\ ~transmit_checks(tcti)
       /\ EarlyReturn("ExecuteAsync", "TCTI_BAD_SEQUENCE", FALSE)
    \/ /\ previousStage = "PREPARE" /\ transmit_checks(tcti) /\ usable
       /\ \/ EarlyReturn("ExecuteAsync", "TCTI_IO_ERROR", FALSE)
          \/ /\ sent' = At(cmdBuffer, 0, cmdBuffer[0].size)
             /\ tcti' = "RECEIVE"
             /\ cmd_header' = cmdBuffer[0]
             /\ previousStage' = "SEND_COMMAND"
             /\ Returns("ExecuteAsync", "SUCCESS")
             /\ UNCHANGED <<buffer, nextData, rsp_header, authsCount, flags, want, usable, prepares>>

\* tctiContext->receive did not deliver: the call may be repeated, or the
\* transport has given the response up.
ReceiveFails ==
    \/ EarlyReturn("ExecuteFinish", "TCTI_TRY_AGAIN", FALSE)
    \/ /\ Returns("ExecuteFinish", "TCTI_IO_ERROR")
       /\ tcti' = "TRANSMIT"
       /\ usable' = FALSE
       /\ UNCHANGED <<previousStage, nextData, cmd_header, rsp_header, authsCount, flags, buffer, want, sent, prepares>>

\* A response_size no buffer fits; the response stays in the transport.
BadResponseSize(rc) ==
    /\ previousStage' = "PREPARE"
    /\ usable' = FALSE
    /\ Returns("ExecuteFinish", rc)
    /\ UNCHANGED <<nextData, cmd_header, rsp_header, authsCount, flags, tcti, buffer, want, sent, prepares>>

\* A response is in the buffer; keep is the buffer and st the stage the
\* checks of its header leave behind.
Received(st, keep, tag, rc, good) ==
    /\ tcti' = "TRANSMIT"
    /\ cmdBuffer' = keep
    /\ nextData' = 1
    /\ rsp_header' = [tag |-> tag, rc |-> rc]
    /\ previousStage' = st
    /\ usable' = (usable /\ good)
    /\ Returns("ExecuteFinish", rc)
    /\ UNCHANGED <<commandCode, cpBuffer, cpBufferUsedSize, cmd_header, authsCount, flags, want, sent, prepares>>

\* A bug: the response header stays where the command header was.
TpmErrorKept ==
    Received("PREPARE", Write(cmdBuffer, 0, <<Header("NO_SESSIONS", 1, "TPM_ERROR")>>),
             "NO_SESSIONS", "TPM_ERROR", TRUE)

\* After a TPM error the header alone is restored: an error response is
\* nothing but a header, so the rest of the command is still in the buffer.
TpmError == Received("PREPARE", [cmdBuffer EXCEPT ![0] = cmd_header], "NO_SESSIONS", "TPM_ERROR", TRUE)

TpmInitialize ==
    Received("RECEIVE_RESPONSE", Write(cmdBuffer, 0, <<Header("NO_SESSIONS", 1, "TPM_INITIALIZE")>>),
             "NO_SESSIONS", "TPM_INITIALIZE", FALSE)

TpmSuccess ==
    LET rsp == Response(want)
    IN /\ Len(rsp) <= MaxCmdSize
       /\ Received("RECEIVE_RESPONSE", Write(cmdBuffer, 0, rsp), rsp[1].tag, "SUCCESS", TRUE)

MalformedResponse ==
    \/ "short" \in Malformed /\ BadResponseSize("SYS_INSUFFICIENT_RESPONSE")
    \/ /\ "long" \in Malformed \/ Len(Response(want)) > MaxCmdSize
       /\ BadResponseSize("SYS_INSUFFICIENT_CONTEXT")
    \/ /\ "tag" \in Malformed
       /\ Received("SEND_COMMAND", Write(cmdBuffer, 0, <<Header("other", 1, "SUCCESS")>>),
                   "other", "SYS_MALFORMED_RESPONSE", FALSE)
    \/ /\ "header" \in Malformed
       /\ Received("PREPARE", Write(cmdBuffer, 0, <<Header("NO_SESSIONS", 0, "SUCCESS")>>),
                   "NO_SESSIONS", "SYS_INSUFFICIENT_RESPONSE", FALSE)

ExecuteFinish ==
    \/ /\ previousStage # "SEND_COMMAND"
       /\ EarlyReturn("ExecuteFinish", "SYS_BAD_SEQUENCE", FALSE)
    \/ /\ previousStage = "SEND_COMMAND" /\ ~receive_checks(tcti)
       /\ EarlyReturn("ExecuteFinish", "TCTI_BAD_SEQUENCE", FALSE)
    \/ /\ previousStage = "SEND_COMMAND" /\ receive_checks(tcti)
       /\ ReceiveFails \/ TpmError \/ TpmInitialize \/ TpmSuccess \/ MalformedResponse

-----------------------------------------------------------------------------
(* Reading the response.                                                   *)

\* Tss2_Sys_GetRspAuths: the authorizations behind the response parameters.
GetRspAuths ==
    \/ /\ \/ previousStage # "RECEIVE_RESPONSE" \/ rsp_header.rc # "SUCCESS"
          \/ ~flags.auth \/ rsp_header.tag # "SESSIONS"
       /\ EarlyReturn("GetRspAuths", "SYS_BAD_SEQUENCE", FALSE)
    \/ /\ previousStage = "RECEIVE_RESPONSE" /\ rsp_header = [tag |-> "SESSIONS", rc |-> "SUCCESS"]
       /\ flags.auth
       /\ LET paramsize == 1 + Layout[commandCode].rspHandles
              offset == paramsize + 1 + cmdBuffer[paramsize].n
          IN Delivers("GetRspAuths", At(cmdBuffer, offset, authsCount))
       /\ UNCHANGED <<previousStage, nextData, cmd_header, rsp_header, authsCount, flags, tcti, buffer, history>>

\* Tss2_Sys_SetEncryptParam: the decrypted first response parameter replaces
\* the encrypted one; Tss2_Sys_GetEncryptParam finds it.
SetEncryptParam ==
    LET offset == 1 + Layout[commandCode].rspHandles + 1
        fail == CASE ~flags.encrypt -> "SYS_NO_ENCRYPT_PARAM"
                  [] previousStage # "RECEIVE_RESPONSE" -> "SYS_BAD_SEQUENCE"
                  [] cmdBuffer[0].tag = "NO_SESSIONS" -> "SYS_NO_ENCRYPT_PARAM"
                  [] OTHER -> "none"
    IN
    \/ fail # "none" /\ EarlyReturn("SetEncryptParam", fail, FALSE)
    \/ /\ fail = "none"
       /\ cmdBuffer' = Write(cmdBuffer, offset + 1, Cells("clear", commandCode, cmdBuffer[offset].n))
       /\ Returns("SetEncryptParam", "SUCCESS")
       /\ UNCHANGED <<previousStage, commandCode, cpBuffer, cpBufferUsedSize, nextData, cmd_header,
                      rsp_header, authsCount, flags, tcti, history>>

\* A bug: the parameterSize field of a response with sessions is not skipped.
RspParamsOffsetBare == 1 + Layout[commandCode].rspHandles

\* CommonComplete: where the response parameters start.
RspParamsOffset ==
    1 + Layout[commandCode].rspHandles + (IF cmdBuffer[0].tag = "SESSIONS" THEN 1 ELSE 0)

\* Tss2_Sys_<Command>_Complete: a response handle is read at nextData, then
\* CommonComplete moves nextData to the parameters, which are read.  The
\* client completes a response once (nextData is still where ExecuteFinish
\* left it): a second call would read the handle behind the parameters.
Complete ==
    LET handles == Layout[commandCode].rspHandles
        len == Len(RspParams(commandCode, "cipher"))
    IN
    \/ /\ previousStage # "RECEIVE_RESPONSE"
       /\ EarlyReturn("Complete", "SYS_BAD_SEQUENCE", FALSE)
    \/ /\ previousStage = "RECEIVE_RESPONSE" /\ usable
       /\ nextData = 1
       /\ Delivers("Complete", At(cmdBuffer, nextData, handles) \o At(cmdBuffer, RspParamsOffset, len))
       /\ nextData' = RspParamsOffset + len
       /\ UNCHANGED <<previousStage, cmd_header, rsp_header, authsCount, flags, tcti, buffer, history>>

\* Tss2_Sys_Abort forgets the command, not the transport's state.
Abort ==
    /\ previousStage' = "INITIALIZE"
    /\ usable' = FALSE
    /\ Returns("Abort", "SUCCESS")
    /\ UNCHANGED <<nextData, cmd_header, rsp_header, authsCount, flags, tcti, buffer, want, sent, prepares>>

-----------------------------------------------------------------------------

Next ==
    \/ PrepareRefused
    \/ \E c \in Commands : PrepareTorn(c) \/ \E size \in Layout[c].sizes : Prepare(c, size)
    \/ \E n \in 1..MaxAuths : SetCmdAuths(n)
    \/ \E size \in ParamSizes : SetDecryptParam(size)
    \/ ExecuteAsync \/ ExecuteFinish
    \/ GetRspAuths \/ SetEncryptParam \/ Complete \/ Abort

Spec == Init /\ [][Next]_vars

-----------------------------------------------------------------------------
(* Properties.                                                             *)

Stages == {"INITIALIZE", "PREPARE", "SEND_COMMAND", "RECEIVE_RESPONSE"}

\* Types and ranges; offsets never leave the command buffer.
TypeOK ==
    /\ previousStage \in Stages
    /\ commandCode \in Commands \cup {"none"}
    /\ DOMAIN cmdBuffer = 0..MaxCmdSize - 1
    /\ cpBuffer \in 0..MaxCmdSize /\ nextData \in 0..MaxCmdSize
    /\ cpBufferUsedSize \in 0..MaxCmdSize
    /\ authsCount \in 0..MaxAuths
    /\ flags \in [decrypt : BOOLEAN, encrypt : BOOLEAN, auth : BOOLEAN, null : BOOLEAN]
    /\ tcti \in TctiStates \ {"FINAL"}
    /\ prepares \in 0..MaxPrepares /\ usable \in BOOLEAN

\* What Tss2_Sys_ExecuteAsync transmits is the command the client built, with
\* its sessions and its encrypted parameter, whatever calls were refused on
\* the way and however often the command was reissued after a TPM error.
TransmitsEncoding == previousStage = "SEND_COMMAND" => sent = Encoding(want)

\* The parameter area Tss2_Sys_GetCpBuffer exposes, over which the layers
\* above compute the cpHash, is the parameters of the command that is sent.
CpBufferIsParameters ==
    usable /\ previousStage \in {"PREPARE", "SEND_COMMAND"} =>
        At(cmdBuffer, cpBuffer, cpBufferUsedSize) = Params(want.cmd, want.kind, want.size)

\* Tss2_Sys_GetRspAuths and Complete find, in the buffer the response shares
\* with the command, what the TPM answered to the sessions and the command
\* sent; authsCount is never the count of an earlier command.
ReadsResponse ==
    last.rc = "SUCCESS" =>
        /\ last.op = "GetRspAuths" => last.out = Cells("rspauth", want.cmd, want.auths)
        /\ last.op = "Complete" =>
              \E k \in {"cipher", "clear"} :
                 last.out = Cells("rsphandle", want.cmd, Layout[want.cmd].rspHandles)
                            \o RspParams(want.cmd, k)

=============================================================================
