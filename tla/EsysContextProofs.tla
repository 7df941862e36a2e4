-------------------------- MODULE EsysContextProofs --------------------------
(***************************************************************************)
(* Proofs about EsysContext, for every ESYS_MAX_SUBMISSIONS, every number  *)
(* of commands and every set of faults.                                    *)
(***************************************************************************)
EXTENDS EsysContext, TLAPS

-----------------------------------------------------------------------------
(* The inductive invariants.                                               *)

\* A command is outstanding and its response can be fetched.
Outstanding == InFinish /\ previousStage = "SEND_COMMAND"

\* The submissions of the outstanding command: submissionCount counts them,
\* each is the command in the SYS buffer, and the TPM is executing it.  Once
\* nothing is outstanding only the bound and the equality remain.
CountInv ==
    /\ state = "SENT" => previousStage = "SEND_COMMAND"
    /\ InFinish => submissionCount <= ESYS_MAX_SUBMISSIONS
    /\ Outstanding => submissionCount = Len(sent) /\ tpm.no = cmd.no
    /\ Outstanding => \A i \in 1..Len(sent) : sent[i] = cmd
    /\ Len(sent) <= ESYS_MAX_SUBMISSIONS
    /\ SameCommand

IInv == TypeOK /\ CountInv

-----------------------------------------------------------------------------
(* Types.                                                                  *)

\* The initial states satisfy the invariant.
LEMMA InitIInv == Init => IInv
  <1> SUFFICES ASSUME Init PROVE IInv
    OBVIOUS
  <1>1. TypeOK
    <2>1. cmd \in Cmd /\ tpm \in [no : 0..MaxCmds, answer : Answers] /\ delivered \in 0..MaxCmds
      BY EsysAssumption DEF Init, Cmd, Answers
    <2>2. sent \in Seq(Cmd) /\ submissionCount \in 0..ESYS_MAX_SUBMISSIONS + 1
      BY EsysAssumption DEF Init
    <2>3. /\ attributes \in BOOLEAN /\ origAttributes \in BOOLEAN
          /\ appAttributes \in BOOLEAN /\ smooth \in BOOLEAN
      BY DEF Init
    <2> QED
      BY <2>1, <2>2, <2>3 DEF Init, TypeOK, States, Stages, Codes
  <1>2. CountInv
    BY EsysAssumption DEF Init, CountInv, InFinish, Outstanding, SameCommand
  <1> QED
    BY <1>1, <1>2 DEF IInv

\* Every step keeps the types, one case per action.
LEMMA TypeStep == IInv /\ [Next]_vars => TypeOK'
  <1> SUFFICES ASSUME TypeOK, CountInv, [Next]_vars PROVE TypeOK'
    BY DEF IInv
  <1> USE EsysAssumption DEF TypeOK, States, Stages, Codes, Answers, sys, session, app
  <1>1. CASE frame = "none" /\ AsyncRefused
    BY <1>1 DEF AsyncRefused
  <1>2. CASE frame = "none" /\ AsyncRejected
    BY <1>2 DEF AsyncRejected
  <1>3. ASSUME NEW param \in BOOLEAN, AsyncPrepared(param) PROVE cmd' \in Cmd /\ submissionCount' = 1
    BY <1>3 DEF AsyncPrepared, Cmd
  <1>a. ASSUME NEW param \in BOOLEAN, iesys_update_session_flags(param)
        PROVE  (attributes' \in BOOLEAN /\ origAttributes' \in BOOLEAN /\ appAttributes' \in BOOLEAN)
    BY <1>a, Zenon DEF iesys_update_session_flags
  <1>4. ASSUME NEW param \in BOOLEAN, AsyncAuthFails(param) PROVE TypeOK'
    <2>1. attributes' \in BOOLEAN /\ origAttributes' \in BOOLEAN /\ appAttributes' \in BOOLEAN
      BY <1>4, <1>a DEF AsyncAuthFails
    <2>2. cmd' \in Cmd /\ submissionCount' = 1 /\ delivered' = delivered
      BY <1>3, <1>4 DEF AsyncAuthFails, AsyncPrepared
    <2>3. sent' = <<>> /\ <<>> \in Seq(Cmd)
      BY <1>4 DEF AsyncAuthFails
    <2>4. smooth' \in BOOLEAN
      BY <1>4, Zenon DEF AsyncAuthFails
    <2> QED
      BY <1>4, <2>1, <2>2, <2>3, <2>4 DEF AsyncAuthFails
  <1>5. ASSUME NEW param \in BOOLEAN, AsyncExecuteFails(param) PROVE TypeOK'
    <2>1. attributes' \in BOOLEAN /\ origAttributes' \in BOOLEAN /\ appAttributes' \in BOOLEAN
      BY <1>5, <1>a DEF AsyncExecuteFails
    <2>2. cmd' \in Cmd /\ submissionCount' = 1 /\ delivered' = delivered
      BY <1>3, <1>5 DEF AsyncExecuteFails, AsyncPrepared
    <2>3. sent' = <<>> /\ <<>> \in Seq(Cmd)
      BY <1>5 DEF AsyncExecuteFails
    <2>4. smooth' \in BOOLEAN
      BY <1>5, Zenon DEF AsyncExecuteFails
    <2> QED
      BY <1>5, <2>1, <2>2, <2>3, <2>4 DEF AsyncExecuteFails, TransmitFails
  <1>6. ASSUME NEW param \in BOOLEAN, AsyncSends(param), UNCHANGED app PROVE TypeOK'
    BY <1>3, <1>6 DEF AsyncSends, iesys_update_session_flags, Transmit, AsyncPrepared, Cmd
  <1>7. CASE OneCall
    BY <1>3, <1>7 DEF OneCall, AsyncSends, iesys_update_session_flags, Transmit, AsyncPrepared, Cmd
  <1>8. CASE Finish
    <2> USE DEF Return
    <2>1. CASE FinishRefused
      BY <2>1 DEF FinishRefused
    <2>2. CASE FinishBreaks
      BY <2>2, ZenonT(60) DEF FinishBreaks
    <2>3. CASE FinishNotYet
      BY <2>3 DEF FinishNotYet
    <2>4. CASE FinishGivesUp
      <3>1. submissionCount' \in 0..ESYS_MAX_SUBMISSIONS + 1
        BY <2>4 DEF FinishGivesUp, Received, CountInv, InFinish
      <3> QED
        BY <2>4, <3>1 DEF FinishGivesUp
    <2>5. CASE FinishResubmits
      <3>1. submissionCount' \in 0..ESYS_MAX_SUBMISSIONS + 1
        BY <2>5 DEF FinishResubmits, MaxReached
      <3>2. tpm' \in [no : 0..MaxCmds, answer : Answers]
        BY <2>5 DEF FinishResubmits, Cmd
      <3>3. sent' \in Seq(Cmd)
        <4>1. sent' = Append(sent, cmd) \/ sent' = sent
          BY <2>5 DEF FinishResubmits, Resubmitted
        <4> QED
          BY <4>1
      <3> QED
        BY <2>5, <3>1, <3>2, <3>3 DEF FinishResubmits
    <2>6. CASE FinishTpmError
      BY <2>6 DEF FinishTpmError
    <2>7. CASE FinishBadResponse
      BY <2>7, ZenonT(60) DEF FinishBadResponse
    <2>8. CASE FinishDelivers
      BY <2>8 DEF FinishDelivers
    <2> QED
      BY <1>8, <2>1, <2>2, <2>3, <2>4, <2>5, <2>6, <2>7, <2>8 DEF Finish
  <1>9. CASE Esys_TRSess_SetAttributes
    BY <1>9 DEF Esys_TRSess_SetAttributes
  <1>10. CASE Esys_SetTimeout
    BY <1>10 DEF Esys_SetTimeout
  <1>11. CASE TpmAnswers
    BY <1>11 DEF TpmAnswers
  <1>12. CASE UNCHANGED vars
    BY <1>12 DEF vars
  <1> QED
    BY <1>1, <1>2, <1>4, <1>5, <1>6, <1>7, <1>8, <1>9, <1>10, <1>11, <1>12 DEF Next, Async

-----------------------------------------------------------------------------
(* Submissions.                                                            *)

\* Sending a fresh command starts the count at one.
LEMMA SendsCount ==
  ASSUME IInv, NEW param \in BOOLEAN, AsyncSends(param)
  PROVE  CountInv'
  <1>1. /\ state' = "SENT" /\ previousStage' = "SEND_COMMAND"
        /\ submissionCount' = 1 /\ sent' = <<cmd'>> /\ tpm'.no = cmd'.no
    BY DEF AsyncSends, AsyncPrepared, Transmit
  <1>2. Len(sent') = 1 /\ sent'[1] = cmd'
    BY <1>1
  <1> QED
    BY <1>1, <1>2, EsysAssumption DEF CountInv, InFinish, Outstanding, SameCommand

\* A command that is not sent leaves nothing outstanding.
LEMMA NotSentCount ==
  ASSUME state' \in {"INIT", "INTERNALERROR"}, sent' = <<>>
  PROVE  CountInv'
  BY EsysAssumption DEF CountInv, InFinish, Outstanding, SameCommand

\* The same for a command that ends: what was sent stays as it is.
LEMMA EndsCount ==
  ASSUME IInv, state' \in {"INIT", "INTERNALERROR"}, sent' = sent
  PROVE  CountInv'
  BY DEF IInv, CountInv, InFinish, Outstanding, SameCommand

\* Steps that touch neither the command nor its submissions.
LEMMA KeepsCount ==
  ASSUME IInv, UNCHANGED <<state, submissionCount, previousStage, cmd, sent>>, tpm'.no = tpm.no
  PROVE  CountInv'
  BY DEF IInv, CountInv, InFinish, Outstanding, SameCommand

\* A resubmission: one more of the same, or none.
LEMMA ResubmitsCount ==
  ASSUME IInv, FinishResubmits
  PROVE  CountInv'
  <1>1. /\ submissionCount = Len(sent) /\ submissionCount < ESYS_MAX_SUBMISSIONS
        /\ \A i \in 1..Len(sent) : sent[i] = cmd
        /\ sent \in Seq(Cmd)
    BY EsysAssumption
       DEF FinishResubmits, Received, MaxReached, IInv, TypeOK, CountInv, Outstanding
  <1>2. /\ submissionCount' = submissionCount + 1 /\ state' = "RESUBMISSION"
        /\ cmd' = cmd /\ Len(sent) \in Nat
    BY <1>1 DEF FinishResubmits
  <1>3. CASE /\ previousStage' = "SEND_COMMAND"
             /\ tpm'.no = cmd.no
             /\ sent' = Append(sent, cmd)
    <2>1. Len(sent') = Len(sent) + 1 /\ \A i \in 1..Len(sent') : sent'[i] = cmd
      BY <1>1, <1>3
    <2>2. DOMAIN sent' = 1..Len(sent') /\ 1 \in 1..Len(sent')
      BY <1>1, <1>2, <1>3, <2>1
    <2> QED
      BY <1>1, <1>2, <1>3, <2>1, <2>2, EsysAssumption DEF CountInv, InFinish, Outstanding, SameCommand
  <1>4. CASE previousStage' = "PREPARE" /\ sent' = sent
    BY <1>1, <1>2, <1>4, EsysAssumption DEF IInv, CountInv, InFinish, Outstanding, SameCommand
  <1> QED
    BY <1>3, <1>4 DEF FinishResubmits, Resubmitted

\* Every step keeps submissionCount in step with what was sent.
LEMMA CountStep == IInv /\ [Next]_vars => CountInv'
  <1> SUFFICES ASSUME IInv, [Next]_vars PROVE CountInv'
    OBVIOUS
  <1> USE DEF sys
  <1>1. CASE frame = "none" /\ AsyncRefused
    BY <1>1, KeepsCount DEF AsyncRefused
  <1>2. CASE frame = "none" /\ AsyncRejected
    BY <1>2, EndsCount DEF AsyncRejected
  <1>3. ASSUME NEW param \in BOOLEAN, AsyncAuthFails(param) \/ AsyncExecuteFails(param)
        PROVE  CountInv'
    BY <1>3, NotSentCount DEF AsyncAuthFails, AsyncExecuteFails
  <1>4. ASSUME NEW param \in BOOLEAN, AsyncSends(param) PROVE CountInv'
    BY <1>4, SendsCount
  <1>5. CASE Finish
    <2>1. CASE FinishRefused
      BY <2>1, KeepsCount DEF FinishRefused
    <2>2. CASE FinishBreaks
      BY <2>2, EndsCount DEF FinishBreaks
    <2>3. CASE FinishNotYet
      <3>1. state' = "SENT" /\ UNCHANGED <<submissionCount, previousStage, cmd, sent, tpm>> /\ Outstanding
        BY <2>3 DEF FinishNotYet, Outstanding
      <3> QED
        BY <3>1 DEF IInv, CountInv, InFinish, Outstanding, SameCommand
    <2>4. CASE FinishGivesUp \/ FinishTpmError \/ FinishBadResponse \/ FinishDelivers
      BY <2>4, EndsCount DEF FinishGivesUp, FinishTpmError, FinishBadResponse, FinishDelivers
    <2>5. CASE FinishResubmits
      BY <2>5, ResubmitsCount
    <2> QED
      BY <1>5, <2>1, <2>2, <2>3, <2>4, <2>5 DEF Finish
  <1>6. CASE Esys_TRSess_SetAttributes
    BY <1>6, KeepsCount DEF Esys_TRSess_SetAttributes
  <1>7. CASE Esys_SetTimeout
    BY <1>7, KeepsCount DEF Esys_SetTimeout
  <1>8. CASE TpmAnswers
    <2>1. tpm'.no = tpm.no
      BY <1>8 DEF TpmAnswers, IInv, TypeOK
    <2> QED
      BY <1>8, <2>1, KeepsCount DEF TpmAnswers
  <1>9. CASE UNCHANGED vars
    BY <1>9, KeepsCount DEF vars
  <1> QED
    BY <1>1, <1>2, <1>3, <1>4, <1>5, <1>6, <1>7, <1>8, <1>9 DEF Next, Async, OneCall

\* IInv is an invariant of the specification.
THEOREM Invariance == Spec => []IInv
  <1>1. IInv /\ [Next]_vars => IInv'
    BY TypeStep, CountStep DEF IInv
  <1> QED
    BY <1>1, InitIInv, PTL DEF Spec

\* Every variable of the context keeps its type; in particular submissionCount
\* never exceeds ESYS_MAX_SUBMISSIONS + 1 (Esys_<Command>_Finish).
THEOREM TypeCorrect == Spec => []TypeOK
  <1>1. IInv => TypeOK
    BY DEF IInv
  <1> QED
    BY <1>1, Invariance, PTL

\* No command reaches the TPM more than ESYS_MAX_SUBMISSIONS times, and every time
\* it is the command that was sent first, whatever the TPM answers and whenever
\* Finish is called (Esys_<Command>_Finish).
THEOREM SubmissionsBounded == Spec => []Resubmissions
  <1>1. IInv => SubmissionBound
    BY DEF IInv, CountInv, Outstanding, InFinish, SubmissionBound
  <1>2. IInv => SameCommand
    BY DEF IInv, CountInv
  <1> QED
    BY <1>1, <1>2, Invariance, PTL DEF Resubmissions

-----------------------------------------------------------------------------
(* An application that waits for its commands.                             *)

\* Where the lower layers are.  A context in RESUBMISSION has either sent the
\* command again, and told the application TRY_AGAIN, or failed to.
IdleInv ==
    /\ InitMeansIdle
    /\ state = "RESUBMISSION" =>
          \/ previousStage = "SEND_COMMAND" /\ rc = "TRY_AGAIN"
          \/ previousStage = "PREPARE" /\ tcti = "TRANSMIT" /\ ~smooth

\* With an application that waits, every step keeps INIT idle.
LEMMA IdleStep == AppWaits /\ IInv /\ IdleInv /\ [Next]_vars => IdleInv'
  <1> SUFFICES ASSUME AppWaits, IInv, IdleInv, [Next]_vars PROVE IdleInv'
    OBVIOUS
  <1> USE DEF IdleInv, InitMeansIdle, sys
  <1>1. CASE frame = "none" /\ AsyncRefused
    BY <1>1 DEF AsyncRefused, iesys_check_sequence_async
  <1>2. CASE frame = "none" /\ AsyncRejected
    BY <1>2 DEF AsyncRejected, iesys_check_sequence_async, MayIssue
  <1>3. ASSUME NEW param \in BOOLEAN, AsyncAuthFails(param) PROVE IdleInv'
    BY <1>3 DEF AsyncAuthFails, AsyncPrepared, iesys_check_sequence_async, MayIssue
  <1>4. ASSUME NEW param \in BOOLEAN, AsyncExecuteFails(param) \/ AsyncSends(param) PROVE IdleInv'
    BY <1>4 DEF AsyncExecuteFails, AsyncSends
  <1>5. CASE Finish
    <2>1. CASE FinishRefused
      BY <2>1 DEF FinishRefused
    <2>2. CASE FinishBreaks \/ FinishNotYet \/ FinishBadResponse
      BY <2>2 DEF FinishBreaks, FinishNotYet, FinishBadResponse
    <2>3. CASE FinishGivesUp \/ FinishTpmError \/ FinishDelivers
      BY <2>3 DEF FinishGivesUp, FinishTpmError, FinishDelivers
    <2>4. CASE FinishResubmits
      BY <2>4 DEF FinishResubmits, Return
    <2> QED
      BY <1>5, <2>1, <2>2, <2>3, <2>4 DEF Finish
  <1>6. CASE Esys_TRSess_SetAttributes
    BY <1>6 DEF Esys_TRSess_SetAttributes
  <1>7. CASE Esys_SetTimeout
    BY <1>7 DEF Esys_SetTimeout
  <1>8. CASE TpmAnswers
    BY <1>8 DEF TpmAnswers
  <1>9. CASE UNCHANGED vars
    BY <1>9 DEF vars
  <1> QED
    BY <1>1, <1>2, <1>3, <1>4, <1>5, <1>6, <1>7, <1>8, <1>9 DEF Next, Async, OneCall

\* If the application waits for its commands, ESYS_STATE_INIT means that no
\* command is outstanding in the SYS context or the TCTI.
THEOREM IdleInInit == ASSUME AppWaits PROVE Spec => []InitMeansIdle
  <1>1. Init => IdleInv
    BY DEF Init, IdleInv, InitMeansIdle
  <1>2. IInv /\ IdleInv /\ [Next]_vars => IdleInv'
    BY IdleStep
  <1>3. IdleInv => InitMeansIdle
    BY DEF IdleInv
  <1> QED
    BY <1>1, <1>2, <1>3, Invariance, PTL DEF Spec

-----------------------------------------------------------------------------
(* Parameter encryption.                                                   *)

\* While no command failed, the session has the application's attributes
\* between commands and keeps them as the original ones during a command.
SessionInv ==
    /\ smooth /\ state = "INIT" => attributes = appAttributes
    /\ smooth /\ InFinish => origAttributes = appAttributes
    /\ smooth /\ InFinish /\ cmd.param => cmd.decrypt = appAttributes
    /\ EncryptedAsRequested

\* A command that is sent carries the flags of its session.
LEMMA SendsSession ==
  ASSUME AppWaits, IInv, IdleInv, SessionInv, NEW param \in BOOLEAN, AsyncSends(param)
  PROVE  SessionInv'
  <1>1. /\ state' = "SENT" /\ smooth' = smooth /\ sent' = <<cmd'>>
        /\ cmd' = [no |-> cmd.no + 1, param |-> param, decrypt |-> attributes /\ param]
        /\ origAttributes' = attributes /\ appAttributes' = appAttributes
    BY DEF AsyncSends, AsyncPrepared, iesys_update_session_flags
  <1>2. smooth => attributes = appAttributes
    BY DEF AsyncSends, AsyncPrepared, iesys_check_sequence_async, MayIssue, IdleInv, SessionInv
  <1>3. cmd'.param = param /\ cmd'.decrypt = (attributes /\ param)
    BY <1>1
  <1>4. param => (attributes /\ param) = attributes
    BY Zenon DEF IInv, TypeOK
  <1>5. smooth /\ cmd'.param => cmd'.decrypt = appAttributes
    BY <1>2, <1>3, <1>4, Zenon
  <1>6. smooth => \A i \in DOMAIN sent' : sent'[i].param => sent'[i].decrypt = appAttributes
    BY <1>1, <1>5
  <1> QED
    BY <1>1, <1>2, <1>5, <1>6 DEF SessionInv, InFinish, EncryptedAsRequested

\* A resubmission carries them again.
LEMMA ResubmitsSession ==
  ASSUME IInv, SessionInv, FinishResubmits
  PROVE  SessionInv'
  <1>1. /\ state' = "RESUBMISSION"
        /\ UNCHANGED <<cmd, origAttributes, appAttributes>>
        /\ smooth' => smooth
        /\ sent' = Append(sent, cmd) \/ sent' = sent
        /\ InFinish
    BY DEF FinishResubmits, Received, session, Resubmitted
  <1>2. ASSUME smooth'
        PROVE  \A i \in DOMAIN sent' : sent'[i].param => sent'[i].decrypt = appAttributes
    <2>1. /\ cmd.param => cmd.decrypt = appAttributes
          /\ \A i \in DOMAIN sent : sent[i].param => sent[i].decrypt = appAttributes
      BY <1>1, <1>2 DEF SessionInv, EncryptedAsRequested, InFinish
    <2>2. sent \in Seq(Cmd)
      BY DEF IInv, TypeOK
    <2> QED
      BY <1>1, <2>1, <2>2
  <1> QED
    BY <1>1, <1>2 DEF SessionInv, InFinish, EncryptedAsRequested

\* Every step keeps the session in step with what the application set.
LEMMA SessionStep == AppWaits /\ IInv /\ IdleInv /\ SessionInv /\ [Next]_vars => SessionInv'
  <1> SUFFICES ASSUME AppWaits, IInv, IdleInv, SessionInv, [Next]_vars PROVE SessionInv'
    OBVIOUS
  <1> USE DEF sys, session
  <1>a. ASSUME UNCHANGED <<state, attributes, origAttributes, appAttributes, cmd, sent, smooth>>
        PROVE  SessionInv'
    BY <1>a DEF SessionInv, InFinish, EncryptedAsRequested
  <1>b. ASSUME ~smooth' PROVE SessionInv'
    BY <1>b DEF SessionInv, EncryptedAsRequested
  <1>1. CASE frame = "none" /\ AsyncRefused
    BY <1>1, <1>a DEF AsyncRefused
  <1>2. CASE frame = "none" /\ AsyncRejected
    BY <1>2 DEF AsyncRejected, iesys_check_sequence_async, MayIssue, IdleInv, SessionInv,
       InFinish, EncryptedAsRequested
  <1>3. ASSUME NEW param \in BOOLEAN, AsyncAuthFails(param) \/ AsyncExecuteFails(param)
        PROVE  SessionInv'
    BY <1>3, <1>b DEF AsyncAuthFails, AsyncExecuteFails
  <1>4. ASSUME NEW param \in BOOLEAN, AsyncSends(param) PROVE SessionInv'
    BY <1>4, SendsSession
  <1>5. CASE Finish
    <2>1. CASE FinishRefused
      BY <2>1, <1>a DEF FinishRefused
    <2>2. CASE FinishBreaks \/ FinishGivesUp \/ FinishTpmError \/ FinishBadResponse
      BY <2>2, <1>b DEF FinishBreaks, FinishGivesUp, FinishTpmError, FinishBadResponse
    <2>3. CASE FinishNotYet
      BY <2>3 DEF FinishNotYet, SessionInv, InFinish, EncryptedAsRequested
    <2>4. CASE FinishResubmits
      BY <2>4, ResubmitsSession
    <2>5. CASE FinishDelivers
      BY <2>5 DEF FinishDelivers, Received, SessionInv, InFinish, EncryptedAsRequested
    <2> QED
      BY <1>5, <2>1, <2>2, <2>3, <2>4, <2>5 DEF Finish
  <1>6. CASE Esys_TRSess_SetAttributes
    BY <1>6 DEF Esys_TRSess_SetAttributes, SessionInv, InFinish, EncryptedAsRequested
  <1>7. CASE Esys_SetTimeout
    BY <1>7, <1>a DEF Esys_SetTimeout
  <1>8. CASE TpmAnswers
    BY <1>8, <1>a DEF TpmAnswers
  <1>9. CASE UNCHANGED vars
    BY <1>9, <1>a DEF vars
  <1> QED
    BY <1>1, <1>2, <1>3, <1>4, <1>5, <1>6, <1>7, <1>8, <1>9 DEF Next, Async, OneCall

\* If the application waits for its commands, then until one of them fails a
\* decrypt parameter is sent encrypted just when the application asked for it
\* (iesys_update_session_flags and iesys_restore_session_flags).
THEOREM EncryptionAsRequested == ASSUME AppWaits PROVE Spec => []EncryptedAsRequested
  <1>1. Init => IdleInv /\ SessionInv
    BY DEF Init, IdleInv, InitMeansIdle, SessionInv, InFinish, EncryptedAsRequested
  <1>2. IInv /\ IdleInv /\ SessionInv /\ [Next]_vars => IdleInv' /\ SessionInv'
    BY IdleStep, SessionStep
  <1>3. SessionInv => EncryptedAsRequested
    BY DEF SessionInv
  <1> QED
    BY <1>1, <1>2, <1>3, Invariance, PTL DEF Spec

-----------------------------------------------------------------------------
(* Refinement.                                                             *)

\* Every step is a step of EsysAbstract or leaves its variables alone.
LEMMA AbstractStep == IInv /\ IInv' /\ [Next]_vars => [Abstract!ANext]_<<Phase, cmd.no, delivered>>
  <1> SUFFICES ASSUME IInv, IInv', [Next]_vars
               PROVE  [Abstract!ANext]_<<Phase, cmd.no, delivered>>
    OBVIOUS
  <1> USE DEF sys
  <1>1. CASE frame = "none" /\ AsyncRefused
    BY <1>1 DEF AsyncRefused, Phase
  <1>2. CASE frame = "none" /\ AsyncRejected
    BY <1>2 DEF AsyncRejected, iesys_check_sequence_async, Phase,
       Abstract!ANext, Abstract!Fail
  <1>p. ASSUME NEW param \in BOOLEAN, AsyncPrepared(param)
        PROVE  Phase = "idle" /\ cmd'.no = cmd.no + 1 /\ delivered' = delivered
    BY <1>p DEF AsyncPrepared, iesys_check_sequence_async, Phase, IInv, CountInv
  <1>3. ASSUME NEW param \in BOOLEAN, AsyncAuthFails(param) PROVE Abstract!Issue
    BY <1>p, <1>3 DEF AsyncAuthFails, Phase, Abstract!Issue
  <1>4. ASSUME NEW param \in BOOLEAN, AsyncExecuteFails(param) PROVE Abstract!Break
    BY <1>p, <1>4 DEF AsyncExecuteFails, Phase, Abstract!Break
  <1>5. ASSUME NEW param \in BOOLEAN, AsyncSends(param) PROVE Abstract!Issue
    BY <1>p, <1>5 DEF AsyncSends, Phase, Abstract!Issue
  <1>6. CASE Finish
    <2>1. CASE FinishRefused
      BY <2>1 DEF FinishRefused, Phase
    <2>2. CASE FinishBreaks \/ FinishBadResponse
      BY <2>2 DEF FinishBreaks, FinishBadResponse, Received, InFinish, Phase, Abstract!ANext, Abstract!Break
    <2>3. CASE FinishNotYet
      BY <2>3 DEF FinishNotYet, InFinish, Phase
    <2>4. CASE FinishGivesUp \/ FinishTpmError
      BY <2>4 DEF FinishGivesUp, FinishTpmError, Received, InFinish, Phase, Abstract!ANext, Abstract!Fail
    <2>5. CASE FinishResubmits
      BY <2>5 DEF FinishResubmits, Received, InFinish, Phase, Abstract!ANext, Abstract!Fail
    <2>6. CASE FinishDelivers
      <3>1. delivered' = cmd.no
        BY <2>6 DEF FinishDelivers, Received, IInv, CountInv, Outstanding
      <3> QED
        BY <2>6, <3>1 DEF FinishDelivers, Received, InFinish, Phase, Abstract!ANext, Abstract!Succeed
    <2> QED
      BY <1>6, <2>1, <2>2, <2>3, <2>4, <2>5, <2>6 DEF Finish
  <1>7. CASE Esys_TRSess_SetAttributes
    BY <1>7 DEF Esys_TRSess_SetAttributes, Phase
  <1>8. CASE Esys_SetTimeout
    BY <1>8 DEF Esys_SetTimeout, Phase
  <1>9. CASE TpmAnswers
    BY <1>9 DEF TpmAnswers, Phase
  <1>10. CASE UNCHANGED vars
    BY <1>10 DEF vars, Phase
  <1> QED
    BY <1>1, <1>2, <1>3, <1>4, <1>5, <1>6, <1>7, <1>8, <1>9, <1>10
       DEF Next, Async, OneCall, Abstract!ANext

\* An ESYS_CONTEXT keeps the promise of EsysAbstract, also to an application
\* that does not wait: one command at a time, and a delivered result is the
\* result of the command that is pending.
THEOREM Refinement == Spec => ImplementsAbstract
  <1>1. Init => Abstract!AInit
    BY DEF Init, Abstract!AInit, Phase
  <1>2. IInv /\ IInv' /\ [Next]_vars => [Abstract!ANext]_(Abstract!avars)
    BY AbstractStep DEF Abstract!avars
  <1> QED
    BY <1>1, <1>2, Invariance, PTL DEF Spec, ImplementsAbstract, Abstract!ASpec

=============================================================================
