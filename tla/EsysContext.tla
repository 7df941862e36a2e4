----------------------------- MODULE EsysContext -----------------------------
(***************************************************************************)
(* The state machine of an ESYS_CONTEXT, as every command of the ESAPI     *)
(* runs it: Esys_<Command>_Async builds and sends a command,               *)
(* Esys_<Command>_Finish fetches the response, resubmits the command when  *)
(* the TPM asks for it and is called again on TRY_AGAIN, and the one-call  *)
(* function loops over Finish.  Esys_Create.c stands for all of them: the  *)
(* functions of src/tss2-esys/api follow one pattern.                      *)
(*                                                                         *)
(* Below is a SYS context, of which the stage and the command in the       *)
(* buffer are kept (SysContext has the buffer itself), and a TCTI of which *)
(* the state is kept.  One session is used by every command; of its        *)
(* attributes TPMA_SESSION_DECRYPT is modelled.  A context is used by one  *)
(* thread, so a call is one step; the TPM runs beside it.                  *)
(***************************************************************************)
EXTENDS Integers, Sequences, TctiCommon

CONSTANTS
    ESYS_MAX_SUBMISSIONS, \* submissions of one command
    MaxCmds,              \* bound on the commands that reach the SYS buffer
    AppWaits,             \* does the application finish a command, and leave its
                          \* session alone, before it issues the next one?
    Faults                \* of {"local", "io", "memory", "malformed"}

ASSUME EsysAssumption ==
    /\ ESYS_MAX_SUBMISSIONS \in Nat \ {0}
    /\ MaxCmds \in Nat
    /\ AppWaits \in BOOLEAN
    /\ Faults \subseteq {"local", "io", "memory", "malformed"}

VARIABLES
    state, submissionCount,
    timeout,           \* "poll", or "block" for -1
    previousStage,     \* of the SYS context
    cmd,               \* the command in the SYS buffer: its number, whether it has
                       \* a decrypt parameter and the session's DECRYPT flag
    tcti,              \* state of the TCTI context
    tpm,               \* number of the command the TPM executes, and its answer
    attributes,        \* sessionAttributes: is DECRYPT set?
    origAttributes,    \* origSessionAttributes
    timeouttmp,        \* the timeout a one-call function has saved
    frame,             \* the one-call function that is running, or "none"
    rc,                \* what Async or Finish last returned
    appAttributes,     \* what the application set (history)
    smooth,            \* no command failed once its session was prepared (history)
    sent,              \* transmissions of the current command (history)
    delivered          \* number of the command whose result was last delivered (history)

sys == <<previousStage, cmd, tcti>>
session == <<attributes, origAttributes, appAttributes>>
app == <<timeout, timeouttmp, frame>>
vars == <<state, submissionCount, timeout, previousStage, cmd, tcti, tpm, attributes, origAttributes,
          timeouttmp, frame, rc, appAttributes, smooth, sent, delivered>>

States == {"INIT", "SENT", "RESUBMISSION", "INTERNALERROR"}
Stages == {"INITIALIZE", "PREPARE", "SEND_COMMAND", "RECEIVE_RESPONSE"}
Codes == {"SUCCESS", "BAD_SEQUENCE", "TRY_AGAIN", "ERROR", "TPM_ERROR"}
Answers == {"none", "OK", "RETRY", "TPM_ERROR", "MALFORMED"}
Cmd == [no : 0..MaxCmds, param : BOOLEAN, decrypt : BOOLEAN]

TypeOK ==
    /\ state \in States
    /\ submissionCount \in 0..ESYS_MAX_SUBMISSIONS + 1
    /\ timeout \in {"poll", "block"} /\ timeouttmp \in {"poll", "block"}
    /\ previousStage \in Stages
    /\ cmd \in Cmd
    /\ tcti \in {"TRANSMIT", "RECEIVE"}
    /\ tpm \in [no : 0..MaxCmds, answer : Answers]
    /\ attributes \in BOOLEAN /\ origAttributes \in BOOLEAN
    /\ appAttributes \in BOOLEAN /\ smooth \in BOOLEAN
    /\ frame \in {"none", "onecall"}
    /\ rc \in Codes
    /\ sent \in Seq(Cmd)
    /\ delivered \in 0..MaxCmds

\* Esys_Initialize; the session is there and has its attributes.
Init ==
    /\ state = "INIT" /\ submissionCount = 0
    /\ timeout = "poll" /\ timeouttmp = "poll"
    /\ previousStage = "INITIALIZE"
    /\ cmd = [no |-> 0, param |-> FALSE, decrypt |-> FALSE]
    /\ tcti = "TRANSMIT"
    /\ tpm = [no |-> 0, answer |-> "none"]
    /\ attributes \in BOOLEAN
    /\ origAttributes = FALSE /\ appAttributes = attributes
    /\ frame = "none" /\ rc = "SUCCESS" /\ smooth = TRUE
    /\ sent = <<>> /\ delivered = 0

-----------------------------------------------------------------------------
(* Tss2_Sys_ExecuteAsync, on a prepared command.                           *)

\* The command goes to the TPM and the SYS context waits for the response.
Transmit(c) ==
    /\ tcti = "TRANSMIT"
    /\ tcti' = "RECEIVE"
    /\ previousStage' = "SEND_COMMAND"
    /\ tpm' = [no |-> c.no, answer |-> "none"]

\* The TCTI refuses or fails; the command stays prepared.
TransmitFails ==
    /\ tcti = "RECEIVE" \/ "io" \in Faults
    /\ previousStage' = "PREPARE"
    /\ UNCHANGED <<tcti, tpm>>

-----------------------------------------------------------------------------
(* Esys_<Command>_Async.                                                   *)

\* A bug: a broken context accepts commands.
CheckSequenceLax == state # "SENT"

iesys_check_sequence_async == state \in {"INIT", "RESUBMISSION"}

\* An application that waits issues a command after RESUBMISSION only if the
\* resubmission failed.
MayIssue == AppWaits => (state = "RESUBMISSION" => rc # "TRY_AGAIN")

AsyncRefused ==
    /\ ~iesys_check_sequence_async
    /\ rc' = "BAD_SEQUENCE"
    /\ UNCHANGED <<state, submissionCount, sys, tpm, session, app, smooth, sent, delivered>>

\* A check fails before the SYS context is touched, or Tss2_Sys_*_Prepare
\* refuses because a command is outstanding.
AsyncRejected ==
    /\ iesys_check_sequence_async /\ MayIssue
    /\ "local" \in Faults \/ previousStage = "SEND_COMMAND"
    /\ submissionCount' = 1
    /\ state' = "INIT"
    /\ rc' = "ERROR"
    /\ UNCHANGED <<sys, tpm, session, app, smooth, sent, delivered>>

\* A bug: the original attributes are not saved.
UpdateFlagsUnsaved(param) ==
    /\ attributes' = (attributes /\ param)
    /\ UNCHANGED <<origAttributes, appAttributes>>

\* The session's flags for a command with or without a decrypt parameter.
iesys_update_session_flags(param) ==
    /\ origAttributes' = attributes
    /\ attributes' = (attributes /\ param)
    /\ UNCHANGED appAttributes

\* The part all accepted calls share: the command is in the SYS buffer.
AsyncPrepared(param) ==
    /\ iesys_check_sequence_async /\ MayIssue
    /\ previousStage # "SEND_COMMAND"
    /\ cmd.no < MaxCmds
    /\ submissionCount' = 1
    /\ cmd' = [no |-> cmd.no + 1, param |-> param, decrypt |-> attributes /\ param]
    /\ UNCHANGED delivered

\* An error after Prepare: of init_session_tab, or of iesys_gen_auths or
\* Tss2_Sys_SetCmdAuths, which come after the flags were updated.
AsyncAuthFails(param) ==
    /\ "local" \in Faults
    /\ AsyncPrepared(param)
    /\ iesys_update_session_flags(param) \/ UNCHANGED session
    /\ previousStage' = "PREPARE"
    /\ state' = "INIT"
    /\ rc' = "ERROR"
    /\ smooth' = FALSE
    /\ sent' = <<>>
    /\ UNCHANGED <<tcti, tpm, app>>

AsyncExecuteFails(param) ==
    /\ AsyncPrepared(param)
    /\ iesys_update_session_flags(param)
    /\ TransmitFails
    /\ state' = "INTERNALERROR"
    /\ rc' = "ERROR"
    /\ smooth' = FALSE
    /\ sent' = <<>>
    /\ UNCHANGED app

AsyncSends(param) ==
    /\ AsyncPrepared(param)
    /\ iesys_update_session_flags(param)
    /\ Transmit(cmd')
    /\ state' = "SENT"
    /\ rc' = "SUCCESS"
    /\ sent' = <<cmd'>>
    /\ UNCHANGED smooth

\* The asynchronous function, called by the application itself.
Async ==
    /\ frame = "none"
    /\ \/ AsyncRefused \/ AsyncRejected
       \/ \E param \in BOOLEAN :
             \/ AsyncAuthFails(param) \/ AsyncExecuteFails(param)
             \/ AsyncSends(param) /\ UNCHANGED app

\* The one-call function: once the command is sent it blocks in Finish.  If
\* Async fails it returns what Async returned, which is the action above.
OneCall ==
    /\ frame = "none"
    /\ \E param \in BOOLEAN : AsyncSends(param)
    /\ frame' = "onecall"
    /\ timeouttmp' = timeout /\ timeout' = "block"

-----------------------------------------------------------------------------
(* Esys_<Command>_Finish.  A one-call function calls it until it returns   *)
(* something else than TRY_AGAIN and then restores the timeout.            *)

\* A bug: the one-call function calls Finish until it succeeds.
ReturnOnSuccess(code) ==
    /\ rc' = code
    /\ IF frame = "onecall" /\ code = "SUCCESS"
       THEN frame' = "none" /\ timeout' = timeouttmp /\ UNCHANGED timeouttmp
       ELSE UNCHANGED app

Return(code) ==
    /\ rc' = code
    /\ IF frame = "onecall" /\ code # "TRY_AGAIN"
       THEN frame' = "none" /\ timeout' = timeouttmp /\ UNCHANGED timeouttmp
       ELSE UNCHANGED app

FinishRefused ==
    /\ state \notin {"SENT", "RESUBMISSION"}
    /\ Return("BAD_SEQUENCE")
    /\ UNCHANGED <<state, submissionCount, sys, tpm, session, smooth, sent, delivered>>

InFinish == state \in {"SENT", "RESUBMISSION"}

\* A failure that is not the TPM's: an allocation fails, the SYS context has
\* no command to finish, or the TCTI fails (a socket transport is then in
\* TRANSMIT, the device transport may still be in RECEIVE).
FinishBreaks ==
    /\ InFinish
    /\ \/ "memory" \in Faults /\ UNCHANGED tcti
       \/ previousStage # "SEND_COMMAND" /\ UNCHANGED tcti
       \/ previousStage = "SEND_COMMAND" /\ "io" \in Faults /\ tcti' \in {"TRANSMIT", tcti}
    /\ state' = "INTERNALERROR"
    /\ smooth' = FALSE
    /\ Return("ERROR")
    /\ UNCHANGED <<submissionCount, previousStage, cmd, tpm, session, sent, delivered>>

\* A bug: the command is given up although its response is still to come.
FinishNotYetForgets ==
    /\ InFinish /\ previousStage = "SEND_COMMAND"
    /\ tpm.answer = "none" /\ timeout = "poll"
    /\ state' = "INIT"
    /\ Return("TRY_AGAIN")
    /\ UNCHANGED <<submissionCount, sys, tpm, session, smooth, sent, delivered>>

\* No response within the timeout; a blocking call does not return.
FinishNotYet ==
    /\ InFinish /\ previousStage = "SEND_COMMAND"
    /\ tpm.answer = "none" /\ timeout = "poll"
    /\ state' = "SENT"
    /\ Return("TRY_AGAIN")
    /\ UNCHANGED <<submissionCount, sys, tpm, session, smooth, sent, delivered>>

\* Tss2_Sys_ExecuteFinish has read the answer a.
Received(a) ==
    /\ InFinish /\ previousStage = "SEND_COMMAND" /\ tcti = "RECEIVE"
    /\ tpm.answer = a

\* A bug: one submission too many.
MaxReachedLate == submissionCount > ESYS_MAX_SUBMISSIONS

\* The submissions are used up?  (submissionCount++ >= ESYS_MAX_SUBMISSIONS)
MaxReached == submissionCount >= ESYS_MAX_SUBMISSIONS

\* A bug: the submission that is not made is counted as well.
FinishGivesUpCounts ==
    /\ Received("RETRY") /\ MaxReached
    /\ submissionCount' = submissionCount + 2
    /\ previousStage' = "PREPARE" /\ tcti' = "TRANSMIT"
    /\ state' = "INIT"
    /\ smooth' = FALSE
    /\ Return("TPM_ERROR")
    /\ UNCHANGED <<cmd, tpm, session, sent, delivered>>

\* RETRY, TESTING or YIELDED for the last time: the TPM's answer is returned.
FinishGivesUp ==
    /\ Received("RETRY") /\ MaxReached
    /\ submissionCount' = submissionCount + 1
    /\ previousStage' = "PREPARE" /\ tcti' = "TRANSMIT"
    /\ state' = "INIT"
    /\ smooth' = FALSE
    /\ Return("TPM_ERROR")
    /\ UNCHANGED <<cmd, tpm, session, sent, delivered>>

\* A bug: the session's flags are lost from the command buffer.
ResubmittedBare == [cmd EXCEPT !.decrypt = FALSE]

\* What Tss2_Sys_ExecuteAsync finds in the SYS buffer after a TPM error.
Resubmitted == cmd

\* The command is resubmitted from the SYS buffer; if that fails the context
\* stays in RESUBMISSION with the command still prepared.
FinishResubmits ==
    /\ Received("RETRY") /\ ~MaxReached
    /\ submissionCount' = submissionCount + 1
    /\ state' = "RESUBMISSION"
    /\ \/ /\ previousStage' = "SEND_COMMAND" /\ tcti' = "RECEIVE"
          /\ tpm' = [no |-> cmd.no, answer |-> "none"]
          /\ sent' = Append(sent, Resubmitted)
          /\ Return("TRY_AGAIN")
          /\ UNCHANGED smooth
       \/ /\ "io" \in Faults
          /\ previousStage' = "PREPARE" /\ tcti' = "TRANSMIT"
          /\ smooth' = FALSE
          /\ Return("ERROR")
          /\ UNCHANGED <<tpm, sent>>
    /\ UNCHANGED <<cmd, session, delivered>>

\* Any other error of the TPM.
FinishTpmError ==
    /\ Received("TPM_ERROR")
    /\ previousStage' = "PREPARE" /\ tcti' = "TRANSMIT"
    /\ state' = "INIT"
    /\ smooth' = FALSE
    /\ Return("TPM_ERROR")
    /\ UNCHANGED <<submissionCount, cmd, tpm, session, sent, delivered>>

\* A response that does not decode, or whose HMAC does not verify.
FinishBadResponse ==
    /\ Received("MALFORMED")
    /\ previousStage' \in {"SEND_COMMAND", "PREPARE", "RECEIVE_RESPONSE"}
    /\ tcti' \in {"TRANSMIT", "RECEIVE"}
    /\ state' = "INTERNALERROR"
    /\ smooth' = FALSE
    /\ Return("ERROR")
    /\ UNCHANGED <<submissionCount, cmd, tpm, session, sent, delivered>>

\* iesys_check_response, with iesys_restore_session_flags at its end, and
\* Tss2_Sys_*_Complete.
FinishDelivers ==
    /\ Received("OK")
    /\ previousStage' = "RECEIVE_RESPONSE" /\ tcti' = "TRANSMIT"
    /\ attributes' = origAttributes
    /\ state' = "INIT"
    /\ delivered' = tpm.no
    /\ Return("SUCCESS")
    /\ UNCHANGED <<submissionCount, cmd, tpm, origAttributes, appAttributes, smooth, sent>>

Finish ==
    \/ FinishRefused \/ FinishBreaks \/ FinishNotYet
    \/ FinishGivesUp \/ FinishResubmits \/ FinishTpmError
    \/ FinishBadResponse \/ FinishDelivers

-----------------------------------------------------------------------------
(* The application's other calls, and the TPM.                             *)

Esys_TRSess_SetAttributes ==
    /\ frame = "none"
    /\ AppWaits => state = "INIT"
    /\ \E b \in BOOLEAN : attributes' = b /\ appAttributes' = b
    /\ UNCHANGED <<state, submissionCount, sys, tpm, origAttributes, app, rc, smooth, sent, delivered>>

Esys_SetTimeout ==
    /\ frame = "none"
    /\ timeout' \in {"poll", "block"}
    /\ UNCHANGED <<state, submissionCount, sys, tpm, session, timeouttmp, frame, rc, smooth, sent, delivered>>

\* The TPM answers the command it was given last (external).
TpmAnswers ==
    /\ tcti = "RECEIVE" /\ tpm.answer = "none"
    /\ \E a \in Answers \ {"none"} :
          /\ a = "MALFORMED" => "malformed" \in Faults
          /\ tpm' = [tpm EXCEPT !.answer = a]
    /\ UNCHANGED <<state, submissionCount, sys, session, app, rc, smooth, sent, delivered>>

Next ==
    \/ Async \/ OneCall \/ Finish
    \/ Esys_TRSess_SetAttributes \/ Esys_SetTimeout
    \/ TpmAnswers

Spec == Init /\ [][Next]_vars

\* The TPM answers every command, and a one-call function keeps calling
\* Finish: its loop runs in the application's thread.
FairSpec == Spec /\ WF_vars(TpmAnswers) /\ WF_vars(frame = "onecall" /\ Finish)

-----------------------------------------------------------------------------
(* Properties.                                                             *)

\* A command reaches the TPM at most ESYS_MAX_SUBMISSIONS times, however its
\* answers, resubmissions and calls of Finish interleave
\* (test/unit/esys-resubmissions.c), and submissionCount counts just that.
SubmissionBound ==
    /\ Len(sent) <= ESYS_MAX_SUBMISSIONS
    /\ state = "SENT" => submissionCount = Len(sent)

\* Every resubmission transmits the command that was sent first, with the
\* same sessions, even though the response was read into its buffer.
SameCommand == \A i \in DOMAIN sent : sent[i] = sent[1]

\* Resubmission sends the one command again, and only so often
\* (the loop of Esys_X and the resubmission in Esys_X_Finish).
Resubmissions == SubmissionBound /\ SameCommand

\* In ESYS_STATE_INIT nothing is outstanding: the SYS context can prepare the
\* next command and the TCTI can transmit it (esys_int.h: "the initial state
\* after creation or after finishing a command").
InitMeansIdle == state = "INIT" => previousStage # "SEND_COMMAND" /\ tcti = "TRANSMIT"

\* While no command has failed, the parameter of a command is encrypted just
\* when the application asked for it, whatever commands without such a
\* parameter came before (iesys_update_session_flags and its inverse).
EncryptedAsRequested ==
    smooth /\ state \in {"SENT", "RESUBMISSION"} =>
        \A i \in DOMAIN sent : sent[i].param => sent[i].decrypt = appAttributes

\* Between commands a session has the attributes the application gave it
\* (iesys_restore_session_flags: "Restore original session attributes").
AttributesRestored == state = "INIT" => attributes = appAttributes

\* A one-call function returns: the TPM answers each of the finitely many
\* submissions.
OneCallReturns == frame = "onecall" ~> frame = "none"

\* SENT and RESUBMISSION are one pending command; a resubmission that could
\* not be sent has been given back to the application as an error.
Phase ==
    CASE state = "INTERNALERROR" -> "broken"
      [] state = "SENT" \/ (state = "RESUBMISSION" /\ previousStage = "SEND_COMMAND") -> "pending"
      [] OTHER -> "idle"

Abstract == INSTANCE EsysAbstract WITH phase <- Phase, current <- cmd.no, result <- delivered

\* The context keeps the promise of EsysAbstract: one command at a time, and
\* a result is the result of the command that is pending.
ImplementsAbstract == Abstract!ASpec

=============================================================================
