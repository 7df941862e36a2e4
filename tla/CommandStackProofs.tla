------------------------- MODULE CommandStackProofs -------------------------
(***************************************************************************)
(* Proofs about CommandStack, for every table of commands: what holds of   *)
(* the pattern that all functions of the ESAPI follow, whatever their      *)
(* objects, checks and steps are.  Five properties hold if the functions   *)
(* follow the rules at the end of CommandStack.                            *)
(***************************************************************************)
EXTENDS CommandStack, FiniteSetTheorems, SequenceTheorems, TLAPS

-----------------------------------------------------------------------------
(* Sessions.                                                               *)

\* The sessions of a call are three.
LEMMA CallShape ==
  ASSUME NEW k \in Calls
  PROVE  /\ k.of \in Commands
         /\ k.sessions \in Sessions(k.of)
         /\ \A i \in 1..3 : k.sessions[i] \in SessionKinds
  <1>1. PICK c \in Commands : k \in [of : {c}, sessions : Sessions(c), flaw : Flaws(c)]
    BY DEF Calls
  <1>2. k.of \in Commands /\ k.sessions \in Sessions(k.of)
    BY <1>1
  <1>3. k.sessions \in SessionKinds \X SessionKinds \X SessionKinds
    BY <1>2 DEF Sessions, NoSessions, SessionKinds
  <1> QED
    BY <1>2, <1>3

\* If no session up to i is left out, i is the number of authorizations.
LEMMA CountGapless ==
  ASSUME NEW s, NEW i \in 1..3, \A j \in 1..i : s[j] # "NONE"
  PROVE  Count(s, i) = i
  <1>1. {j \in 1..i : s[j] # "NONE"} = 1..i
    OBVIOUS
  <1>2. Cardinality(1..i) = i
    <2>1. \A b \in Int : Cardinality(1..b) = IF 1 > b THEN 0 ELSE b - 1 + 1
      BY FS_Interval, 1 \in Int, Zenon
    <2> QED
      BY <2>1
  <1> QED
    BY <1>1, <1>2 DEF Count

\* check_session_feasibility makes both counts of iesys_gen_auths agree on every
\* authorization of a session object.
LEMMA FeasibleInPlace ==
  ASSUME NEW async, NEW s, NEW flaw, NEW mandatory,
         \A i \in 1..3 : s[i] \in SessionKinds,
         check_session_feasibility(s, mandatory)
  PROVE  \A a \in iesys_gen_auths(async, s, flaw) : a.written = a.place
  <1> SUFFICES ASSUME NEW i \in 1..3, s[i] # "NONE"
               PROVE  AuthOf(async, s, flaw, i).written = AuthOf(async, s, flaw, i).place
    BY DEF iesys_gen_auths
  <1>1. CASE s[i] = "PASSWORD"
    BY <1>1 DEF AuthOf
  <1>2. CASE s[i] # "PASSWORD"
    <2>1. s[i] = "HMAC"
      BY <1>2 DEF SessionKinds
    <2>2. \A j \in 1..i : s[j] # "NONE"
      BY <2>1 DEF check_session_feasibility
    <2>3. Count(s, i) = i
      BY <2>2, CountGapless
    <2> QED
      BY <1>2, <2>3 DEF AuthOf
  <1> QED
    BY <1>1, <1>2

-----------------------------------------------------------------------------
(* The HMACs.                                                              *)

\* Of the request in the SYS buffer, sent or not.
InPlace == \A a \in request.auths : a.written = a.place

\* The request changes only when a command is sent, and when it is over.
LEMMA RequestSteps ==
  ASSUME Next
  PROVE  \/ request' \in {request, NoRequest}
         \/ \E k \in Calls : AsyncSends(k)
  BY DEF Next, Async, AsyncRefused, AsyncRefusesEarly, AsyncRejects, AsyncLatches, AsyncCrashes, TpmAnswers, Finish,
         FinishRefused, FinishCannotStart, FinishTriesAgain, FinishResubmits, FinishTpmError,
         FinishIoError, FinishFails, FinishDelivers, Leaves, SysOneCall, Restart, Take

LEMMA SendsInPlace ==
  ASSUME NEW k \in Calls, AsyncSends(k)
  PROVE  InPlace'
  <1>1. check_session_feasibility(k.sessions, Esys[k.of].async.auths)
    BY DEF AsyncSends, Rejects
  <1>2. request'.auths = iesys_gen_auths(Esys[k.of].async, k.sessions, k.flaw)
    BY DEF AsyncSends, Request
  <1> QED
    BY <1>1, <1>2, CallShape, FeasibleInPlace DEF InPlace

\* iesys_gen_auths writes an HMAC by the number of its session and its handle by
\* the number of authorizations so far.  For any commands, and any sessions that
\* check_session_feasibility accepts, the two are the same place.
THEOREM HmacPlaces == Spec => []HmacInPlace
  <1>1. Init => InPlace
    BY DEF Init, InPlace, NoRequest
  <1>2. InPlace /\ [Next]_vars => InPlace'
    <2> SUFFICES ASSUME InPlace, [Next]_vars PROVE InPlace'
      OBVIOUS
    <2>1. CASE UNCHANGED vars
      BY <2>1 DEF vars, InPlace
    <2>2. CASE request' \in {request, NoRequest}
      BY <2>2 DEF InPlace, NoRequest
    <2>3. CASE \E k \in Calls : AsyncSends(k)
      BY <2>3, SendsInPlace
    <2> QED
      BY <2>1, <2>2, <2>3, RequestSteps
  <1>3. InPlace => HmacInPlace
    BY DEF InPlace, HmacInPlace
  <1> QED
    BY <1>1, <1>2, <1>3, PTL DEF Spec

-----------------------------------------------------------------------------
(* Types, and the number of submissions.                                   *)

Codes ==
    {"none", "SUCCESS", "BAD_SEQUENCE", "BAD_INPUT", "BAD_VALUE", "TRY_AGAIN", "TPM_ERROR", "ERROR",
     "CRASH"}

\* While a command is pending it has been submitted at most ESYS_MAX_SUBMISSIONS
\* times; the count passes it only when the command is given up.
Pending == state \in {"SENT", "RESUBMISSION"} => submissionCount <= ESYS_MAX_SUBMISSIONS

\* The parts of TypeOK.
StateOK ==
    /\ state \in {"INIT", "SENT", "RESUBMISSION", "INTERNALERROR"}
    /\ submissionCount \in 0..ESYS_MAX_SUBMISSIONS + 1
    /\ Pending
CallOK ==
    /\ call = NoCall \/ (call.of \in Commands /\ call.sessions \in Sessions(call.of))
    /\ in \in BOOLEAN
ReturnOK ==
    /\ response \in {"none", "OK", "RETRY", "TPM_ERROR", "BROKEN"}
    /\ ret.rc \in Codes

TypeInv == StateOK /\ CallOK /\ ReturnOK

LEMMA ReturnCode ==
  ASSUME NEW f, NEW k, NEW rc
  PROVE  Return(rc).rc = rc /\ Abandon(f, k, rc).rc = rc
  BY DEF Return, Abandon

\* The calls of an application: what is issued is a command of the table.
LEMMA AsyncTypes ==
  ASSUME TypeInv, Async
  PROVE  TypeInv'
  <1>1. CASE AsyncRefused
    BY <1>1, ReturnCode DEF AsyncRefused, TypeInv, StateOK, Pending, CallOK, ReturnOK, Codes
  <1>2. ASSUME NEW k \in Calls,
               AsyncRejects(k) \/ AsyncLatches(k) \/ AsyncCrashes(k) \/ AsyncSends(k)
        PROVE  TypeInv'
    <2>1. k.of \in Commands /\ k.sessions \in Sessions(k.of)
      BY CallShape
    <2>2. submissionCount' = 1 /\ in' \in BOOLEAN /\ response' = "none"
      BY <1>2, <2>1, StackAssumption
      DEF AsyncRejects, AsyncLatches, AsyncCrashes, AsyncSends, Issues
    <2>3. state' \in {"INIT", "SENT", "INTERNALERROR"} /\ call' \in {k, NoCall}
      BY <1>2 DEF AsyncRejects, AsyncLatches, AsyncCrashes, AsyncSends
    <2>4. ret'.rc \in Codes
      BY <1>2, ReturnCode DEF AsyncRejects, AsyncLatches, AsyncCrashes, AsyncSends, Codes
    <2>5. StateOK'
      BY <2>2, <2>3, StackAssumption DEF StateOK, Pending
    <2> QED
      BY <2>1, <2>2, <2>3, <2>4, <2>5 DEF TypeInv, CallOK, ReturnOK
  <1>3. CASE AsyncRefusesEarly
    BY <1>3, ReturnCode
    DEF AsyncRefusesEarly, TypeInv, StateOK, Pending, CallOK, ReturnOK, Codes
  <1> QED
    BY <1>1, <1>2, <1>3 DEF Async

\* A resubmission counts, and is made only below the bound.
LEMMA ResubmitTypes ==
  ASSUME TypeInv, FinishResubmits
  PROVE  TypeInv'
  <1>1. submissionCount \in Nat /\ submissionCount <= ESYS_MAX_SUBMISSIONS
    BY StackAssumption DEF FinishResubmits, Finishing, TypeInv, StateOK, Pending
  <1>2. call' = call /\ in' = in
    BY DEF FinishResubmits, Leaves
  <1>3. ReturnOK'
    BY ReturnCode DEF FinishResubmits, Leaves, ReturnOK, Codes
  <1>4. call.of \in Commands
    BY DEF FinishResubmits, Finishing, TypeInv, CallOK
  <1>5. StateOK'
    <2>1. CASE submissionCount >= ESYS_MAX_SUBMISSIONS
      BY <1>1, <2>1, StackAssumption DEF FinishResubmits, StateOK, Pending
    <2>2. CASE ~(submissionCount >= ESYS_MAX_SUBMISSIONS)
      <3>1. state' \in {"SENT", "RESUBMISSION"}
        BY <1>4, <2>2, StackAssumption DEF FinishResubmits, Function
      <3>2. submissionCount' = submissionCount + 1
        BY DEF FinishResubmits
      <3> QED
        BY <1>1, <2>2, <3>1, <3>2, StackAssumption DEF StateOK, Pending
    <2> QED
      BY <2>1, <2>2
  <1> QED
    BY <1>2, <1>3, <1>5 DEF TypeInv, CallOK

\* The other ways out of Esys_X_Finish end the command or leave it pending.
LEMMA FinishTypes ==
  ASSUME TypeInv, Finish, ~FinishResubmits
  PROVE  TypeInv'
  <1>1. submissionCount' = submissionCount /\ call' = call /\ in' = in
    BY DEF Finish, FinishRefused, FinishCannotStart, FinishTriesAgain, FinishTpmError,
           FinishIoError, FinishFails, FinishDelivers, Leaves
  <1>2. \/ state' = state
        \/ state' \in {"INIT", "INTERNALERROR"}
        \/ state' = "SENT" /\ state \in {"SENT", "RESUBMISSION"}
    BY DEF Finish, FinishRefused, FinishCannotStart, FinishTriesAgain, FinishTpmError,
           FinishIoError, FinishFails, FinishDelivers, Finishing
  <1>3. response' \in {response, "none"}
    BY DEF Finish, FinishRefused, FinishCannotStart, FinishTriesAgain, FinishTpmError,
           FinishIoError, FinishFails, FinishDelivers, Leaves
  <1>4. ret'.rc \in Codes
    <2>1. CASE FinishDelivers
      BY <2>1 DEF FinishDelivers, Return, Codes
    <2>2. CASE ~FinishDelivers
      BY <2>2, ReturnCode DEF Finish, FinishRefused, FinishCannotStart, FinishTriesAgain,
           FinishTpmError, FinishIoError, FinishFails, Codes
    <2> QED
      BY <2>1, <2>2
  <1> QED
    BY <1>1, <1>2, <1>3, <1>4 DEF TypeInv, StateOK, Pending, CallOK, ReturnOK

\* The TPM, the one-call functions of the SAPI, and the application's own steps.
LEMMA OtherTypes ==
  ASSUME TypeInv,
         TpmAnswers \/ Restart \/ Take \/ (\E c \in Commands : SysOneCall(c)) \/ UNCHANGED vars
  PROVE  TypeInv'
  <1>1. CASE TpmAnswers
    BY <1>1 DEF TpmAnswers, TypeInv, StateOK, Pending, CallOK, ReturnOK
  <1>2. CASE Restart
    <2>1. state' = "INIT" /\ submissionCount' = 0 /\ call' = NoCall /\ in' = FALSE
      BY <1>2 DEF Restart
    <2>2. response' = "none" /\ ret'.rc = "none"
      BY <1>2, ReturnCode DEF Restart, Taken
    <2>3. StateOK'
      BY <2>1, StackAssumption DEF StateOK, Pending
    <2>4. CallOK'
      BY <2>1 DEF CallOK
    <2>5. ReturnOK'
      BY <2>2 DEF ReturnOK, Codes
    <2> QED
      BY <2>3, <2>4, <2>5 DEF TypeInv
  <1>3. CASE Take
    BY <1>3, ReturnCode DEF Take, Taken, TypeInv, StateOK, Pending, CallOK, ReturnOK, Codes
  <1>4. ASSUME NEW c \in Commands, SysOneCall(c) PROVE TypeInv'
    <2>1. call'.of = c /\ call'.sessions = NoSessions
      BY <1>4 DEF SysOneCall, NoCall
    <2>2. NoSessions \in Sessions(c)
      BY DEF NoSessions, Sessions, SessionKinds
    <2>3. UNCHANGED <<state, submissionCount, in, response>>
      BY <1>4 DEF SysOneCall
    <2>4. ret'.rc \in Codes
      <3>1. \A a : [Return("SUCCESS") EXCEPT !.misread = Misread(Sys[c].complete, NumHandles[c][2], a)].rc = "SUCCESS"
        BY DEF Return
      <3>2. ret'.rc \in {"ERROR", "TPM_ERROR", "SUCCESS"}
        BY <1>4, <3>1, ReturnCode DEF SysOneCall
      <3> QED
        BY <3>2 DEF Codes
    <2>5. StateOK'
      BY <2>3 DEF TypeInv, StateOK, Pending
    <2>6. call'.of \in Commands /\ call'.sessions \in Sessions(call'.of)
      BY <2>1, <2>2
    <2>7. CallOK'
      BY <2>3, <2>6 DEF TypeInv, CallOK
    <2>8. ReturnOK'
      BY <2>3, <2>4 DEF TypeInv, ReturnOK
    <2> QED
      BY <2>5, <2>7, <2>8 DEF TypeInv
  <1>5. CASE UNCHANGED vars
    BY <1>5 DEF vars, TypeInv, StateOK, Pending, CallOK, ReturnOK
  <1> QED
    BY <1>1, <1>2, <1>3, <1>4, <1>5

\* For any table of commands every variable keeps its type; in particular no
\* command is submitted more than ESYS_MAX_SUBMISSIONS times, however answers,
\* failing resubmissions and the application's calls are mixed.
THEOREM TypeCorrect == Spec => []TypeOK
  <1>1. Init => TypeInv
    <2> SUFFICES ASSUME Init PROVE TypeInv
      OBVIOUS
    <2>1. ret.rc = "none"
      BY ReturnCode DEF Init, Taken
    <2>2. StateOK
      BY StackAssumption DEF Init, StateOK, Pending
    <2>3. CallOK
      BY DEF Init, CallOK
    <2>4. ReturnOK
      BY <2>1 DEF Init, ReturnOK, Codes
    <2> QED
      BY <2>2, <2>3, <2>4 DEF TypeInv
  <1>2. TypeInv /\ [Next]_vars => TypeInv'
    BY AsyncTypes, ResubmitTypes, FinishTypes, OtherTypes DEF Next
  <1>3. TypeInv => TypeOK
    BY DEF TypeInv, StateOK, Pending, CallOK, ReturnOK, Codes, TypeOK
  <1> QED
    BY <1>1, <1>2, <1>3, PTL DEF Spec

-----------------------------------------------------------------------------
(* What Esys_X_Finish leaves behind and frees.                             *)

\* The step that fetches the response is one of the steps.
LEMMA ExecuteStep ==
  ASSUME StepsRule(Steps)
  PROVE  /\ ExecuteAt \in DOMAIN Steps
         /\ Steps[ExecuteAt].op = "execute" /\ Steps[ExecuteAt].fail = "cleanup"
  BY DEF StepsRule, ExecuteAt

\* What a function has acquired only grows.
LEMMA AcquiredGrows ==
  ASSUME NEW steps, NEW k \in DOMAIN steps, Len(steps) \in Nat, DOMAIN steps = 1..Len(steps)
  PROVE  Acquired(steps, k) \subseteq Acquired(steps, Len(steps) + 1)
  BY DEF Acquired, Did

\* A function that follows the rule leaves nothing and frees nothing else, whatever
\* step fails.
LEMMA AbandonClean ==
  ASSUME NEW c \in Commands, CleanupRule(c), NEW rc,
         NEW k \in DOMAIN Esys[c].finish.steps,
         MayFail(Esys[c].finish.steps[k]) \/ Esys[c].finish.steps[k].op = "execute"
  PROVE  /\ Abandon(Esys[c].finish, k, rc).lost # {} => c \in LeavesBehind
         /\ Abandon(Esys[c].finish, k, rc).wild # {} => c \in FreesUnset
  <1> DEFINE f == Esys[c].finish
             steps == f.steps
             r == Abandon(f, k, rc)
             locals == Did(steps, Len(steps) + 1, {"local"})
             set == Acquired(steps, k) \cup f.nulls \cup locals \cup Did(steps, k, {"out"})
                    \cup {steps[k].at}
  <1>1. StepsRule(steps) /\ Len(steps) \in Nat /\ DOMAIN steps = 1..Len(steps)
    BY TableAssumption DEF CleanupRule
  <1>2. Acquired(steps, k) \subseteq f.frees
    BY <1>1, AcquiredGrows DEF CleanupRule
  <1>3. CASE steps[k].fail = "cleanup"
    <2>1. r.lost = Acquired(steps, k) \ f.frees /\ r.wild = f.frees \ set
      BY <1>3 DEF Abandon, Return
    <2>2. ASSUME c \notin FreesUnset, NEW p \in f.frees PROVE p \in set
      <3>1. \/ p \in f.nulls
            \/ \E i \in DOMAIN steps :
                  /\ steps[i].at = p
                  /\ \/ steps[i].op = "local"
                     \/ i <= k /\ steps[i].op \in {"node", "buf", "out"}
        BY <1>3, <2>2 DEF CleanupRule
      <3>2. ASSUME NEW i \in DOMAIN steps, steps[i].at = p, steps[i].op = "local" PROVE p \in locals
        BY <1>1, <3>2 DEF Did
      <3>3. ASSUME NEW i \in DOMAIN steps, steps[i].at = p, i <= k,
                   steps[i].op \in {"node", "buf", "out"}
            PROVE  p \in Acquired(steps, k) \cup Did(steps, k, {"out"}) \cup {steps[k].at}
        BY <1>1, <3>3 DEF Acquired, Did
      <3> QED
        BY <3>1, <3>2, <3>3
    <2> QED
      BY <1>2, <2>1, <2>2
  <1>4. CASE steps[k].fail # "cleanup"
    <2>1. r.lost = Acquired(steps, k) /\ r.wild = {}
      BY <1>4 DEF Abandon, Return
    <2>2. MayFail(steps[k])
      BY <1>1, <1>4 DEF StepsRule
    <2>3. c \notin LeavesBehind => Acquired(steps, k) = {}
      BY <1>4, <2>2 DEF CleanupRule
    <2> QED
      BY <2>1, <2>3
  <1> QED
    BY <1>3, <1>4

LEMMA ReturnClean ==
  ASSUME NEW rc
  PROVE  Return(rc).lost = {} /\ Return(rc).wild = {} /\ Return(rc).misread = {}
  BY DEF Return

\* Tss2_Sys_X allocates nothing.
LEMMA OneCallOutcome ==
  ASSUME NEW c \in Commands, SysOneCall(c)
  PROVE  /\ ret'.lost = {} /\ ret'.wild = {} /\ ret'.rc \in {"SUCCESS", "ERROR", "TPM_ERROR"}
         /\ call'.of = c
         /\ \/ ret'.misread = {}
            \/ \E authorized \in {FALSE, Sys[c].auths} :
                  ret'.misread = Misread(Sys[c].complete, NumHandles[c][2], authorized)
  <1>1. \A m : LET r == [Return("SUCCESS") EXCEPT !.misread = m]
               IN  r.lost = {} /\ r.wild = {} /\ r.rc = "SUCCESS" /\ r.misread = m
    BY DEF Return
  <1>2. CASE ret' \in {Return("ERROR"), Return("TPM_ERROR")}
    BY <1>2, ReturnClean, ReturnCode DEF SysOneCall, NoCall
  <1>3. CASE ret' \notin {Return("ERROR"), Return("TPM_ERROR")}
    <2>1. PICK authorized \in {FALSE, Sys[c].auths} :
             ret' = [Return("SUCCESS") EXCEPT
                        !.misread = Misread(Sys[c].complete, NumHandles[c][2], authorized)]
      BY <1>3 DEF SysOneCall
    <2>2. call'.of = c
      BY DEF SysOneCall, NoCall
    <2> QED
      BY <1>1, <2>1, <2>2
  <1> QED
    BY <1>2, <1>3

\* Esys_X_Finish gives up at a step of its command that can fail, or has nothing
\* to release.
LEMMA FinishOutcome ==
  ASSUME TypeOK, Finish, \A c \in Commands : StepsRule(Esys[c].finish.steps)
  PROVE  \/ ret'.lost = {} /\ ret'.wild = {}
         \/ /\ call' = call /\ call.of \in Commands
            /\ \E k \in DOMAIN Steps, rc \in Codes :
                  /\ MayFail(Steps[k]) \/ Steps[k].op = "execute"
                  /\ ret' = Abandon(Function, k, rc)
  <1>1. CASE FinishRefused
    BY <1>1, ReturnClean DEF FinishRefused
  <1>2. CASE FinishDelivers
    BY <1>2 DEF FinishDelivers, Return
  <1>3. CASE ~FinishRefused /\ ~FinishDelivers
    <2>1. call' = call /\ call.of \in Commands
      BY <1>3 DEF Finish, FinishCannotStart, FinishTriesAgain, FinishResubmits, FinishTpmError,
             FinishIoError, FinishFails, Finishing, Leaves, TypeOK
    <2>2. StepsRule(Steps) /\ DOMAIN Steps = 1..Len(Steps) /\ Len(Steps) \in Nat
      BY <2>1, TableAssumption DEF Steps, Function
    <2>3. /\ ExecuteAt \in DOMAIN Steps /\ Steps[ExecuteAt].op = "execute"
          /\ DOMAIN Steps = 1..Len(Steps) /\ Len(Steps) \in Nat
      BY <2>2, ExecuteStep
    <2>4. CASE FinishCannotStart
      BY <2>1, <2>3, <2>4 DEF FinishCannotStart, Codes
    <2>5. CASE FinishFails
      BY <2>1, <2>3, <2>5 DEF FinishFails, Codes
    <2>6. CASE ~FinishCannotStart /\ ~FinishFails
      <3>1. ret' = Return("SUCCESS") \/ \E rc \in Codes : ret' = Abandon(Function, ExecuteAt, rc)
        BY <1>3, <2>6 DEF Finish, FinishTriesAgain, FinishResubmits, FinishTpmError, FinishIoError, Codes
      <3> QED
        BY <2>1, <2>3, <3>1, ReturnClean
    <2> QED
      BY <2>4, <2>5, <2>6
  <1> QED
    BY <1>1, <1>2, <1>3

\* If the functions follow CleanupRule, then whatever the TPM answers, whichever step
\* of Esys_X_Finish fails and however often the command is resubmitted, no buffer and
\* no ESYS_TR is lost, and nothing is freed that was not set.
THEOREM CleansUp ==
  ASSUME \A c \in Commands : CleanupRule(c)
  PROVE  Spec => []FinishCleansUp
  <1>1. Init => FinishCleansUp
    BY ReturnClean DEF Init, Taken, FinishCleansUp, NothingLeftBehind, FreesOwn
  <1>2. TypeOK /\ FinishCleansUp /\ [Next]_vars => FinishCleansUp'
    <2> SUFFICES ASSUME TypeOK, FinishCleansUp, [Next]_vars
                 PROVE  FinishCleansUp'
      OBVIOUS
    <2>1. CASE UNCHANGED <<ret, call>>
      BY <2>1 DEF FinishCleansUp, NothingLeftBehind, FreesOwn
    <2>2. CASE ret'.lost = {} /\ ret'.wild = {}
      BY <2>2 DEF FinishCleansUp, NothingLeftBehind, FreesOwn
    <2>3. CASE Finish
      <3>1. \A c \in Commands : StepsRule(Esys[c].finish.steps)
        BY DEF CleanupRule
      <3>2. ASSUME call' = call, call.of \in Commands, NEW k \in DOMAIN Steps, NEW rc \in Codes,
                   MayFail(Steps[k]) \/ Steps[k].op = "execute",
                   ret' = Abandon(Function, k, rc)
            PROVE  FinishCleansUp'
        BY <3>2, AbandonClean
        DEF Function, Steps, FinishCleansUp, NothingLeftBehind, FreesOwn
      <3> QED
        BY <2>2, <2>3, <3>1, <3>2, FinishOutcome
    <2>4. CASE Async \/ Restart \/ Take \/ \E c \in Commands : SysOneCall(c)
      <3>1. CASE \E c \in Commands : SysOneCall(c)
        BY <2>2, <3>1, OneCallOutcome
      <3>2. CASE Async \/ Restart \/ Take
        <4>1. \E rc \in Codes : ret' = Return(rc)
          BY <3>2 DEF Async, AsyncRefused, AsyncRefusesEarly, AsyncRejects, AsyncLatches, AsyncCrashes,
                 AsyncSends, Restart, Take, Taken, Codes
        <4> QED
          BY <2>2, <4>1, ReturnClean
      <3> QED
        BY <2>4, <3>1, <3>2
    <2>5. CASE TpmAnswers
      BY <2>1, <2>5 DEF TpmAnswers
    <2>6. CASE UNCHANGED vars
      BY <2>1, <2>6 DEF vars
    <2> QED
      BY <2>3, <2>4, <2>5, <2>6 DEF Next
  <1> QED
    BY <1>1, <1>2, TypeCorrect, PTL DEF Spec

-----------------------------------------------------------------------------
(* What Esys_X_Finish works on: the response and the stored inputs.        *)

Names == {f.name : f \in Fields}

LEMMA NamesSeq ==
  ASSUME NEW s \in Seq(Fields)
  PROVE  /\ FieldNames(s) \in Seq(Names) /\ Len(FieldNames(s)) = Len(s)
         /\ DOMAIN FieldNames(s) = 1..Len(s)
         /\ \A i \in 1..Len(s) : FieldNames(s)[i] = s[i].name
  <1>1. Len(s) \in Nat /\ DOMAIN s = 1..Len(s)
    OBVIOUS
  <1>2. \A i \in 1..Len(s) : s[i].name \in Names
    BY <1>1 DEF Names
  <1>3. FieldNames(s) = [i \in 1..Len(s) |-> s[i].name]
    BY <1>1 DEF FieldNames
  <1>4. [i \in 1..Len(s) |-> s[i].name] \in Seq(Names)
    BY <1>1, <1>2
  <1>5. Len([i \in 1..Len(s) |-> s[i].name]) = Len(s)
    BY <1>1, <1>4
  <1> QED
    BY <1>1, <1>3, <1>4, <1>5

\* The response has its n handles first; the parameters come behind them, or
\* behind the size if there are authorizations.
LEMMA CellPlaces ==
  ASSUME NEW S, NEW fields \in Seq(S), NEW n \in 0..Len(fields), NEW authorized \in BOOLEAN
  PROVE  LET cells == Cells(fields, n, authorized)
             skip == IF authorized THEN 1 ELSE 0
         IN  /\ DOMAIN cells = 1..Len(fields) + skip
             /\ \A i \in 1..n : cells[i] = fields[i]
             /\ \A i \in n + 1..Len(fields) : cells[i + skip] = fields[i]
  <1> DEFINE T == S \cup {"size"}
             before == SubSeq(fields, 1, n)
             after == SubSeq(fields, n + 1, Len(fields))
  <1>0. fields \in Seq(T) /\ Len(fields) \in Nat
    OBVIOUS
  <1>1. /\ before \in Seq(T) /\ Len(before) = n
        /\ \A i \in 1..n : before[i] = fields[i]
    BY <1>0
  <1>2. /\ after \in Seq(T) /\ Len(after) = Len(fields) - n
        /\ \A i \in 1..Len(fields) - n : after[i] = fields[n + i]
    BY <1>0
  <1> HIDE DEF T, before, after
  <1>3. CASE authorized
    <2>1. Cells(fields, n, authorized) = (before \o <<"size">>) \o after
      BY <1>3 DEF Cells, before, after
    <2> DEFINE head == before \o <<"size">>
    <2>2. head \in Seq(T) /\ Len(head) = n + 1 /\ \A i \in 1..n : head[i] = before[i]
      <3>1. <<"size">> \in Seq(T) /\ Len(<<"size">>) = 1
        BY DEF T
      <3> QED
        BY <1>1, <3>1, ConcatProperties
    <2> HIDE DEF head
    <2>3. /\ head \o after \in Seq(T)
          /\ Len(head \o after) = Len(fields) + 1
          /\ \A i \in 1..Len(fields) + 1 :
                (head \o after)[i] = IF i <= n + 1 THEN head[i] ELSE after[i - (n + 1)]
      <3>1. Len(head) + Len(after) = Len(fields) + 1
        BY <1>0, <1>2, <2>2
      <3>2. /\ head \o after \in Seq(T)
            /\ Len(head \o after) = Len(head) + Len(after)
            /\ \A i \in 1..Len(head) + Len(after) :
                  (head \o after)[i] = IF i <= Len(head) THEN head[i] ELSE after[i - Len(head)]
        BY <1>2, <2>2, ConcatProperties
      <3> QED
        BY <2>2, <3>1, <3>2
    <2>4. DOMAIN (head \o after) = 1..Len(fields) + 1
      BY <2>3
    <2>5. \A i \in 1..n : (head \o after)[i] = fields[i]
      BY <1>1, <2>2, <2>3
    <2>6. ASSUME NEW i \in n + 1..Len(fields) PROVE (head \o after)[i + 1] = fields[i]
      <3>1. (head \o after)[i + 1] = after[i - n]
        BY <2>3
      <3>2. i - n \in 1..Len(fields) - n /\ n + (i - n) = i
        OBVIOUS
      <3> QED
        BY <1>2, <3>1, <3>2
    <2> QED
      BY <1>3, <2>1, <2>4, <2>5, <2>6 DEF head
  <1>4. CASE ~authorized
    <2>1. Cells(fields, n, authorized) = (before \o <<>>) \o after
      BY <1>4 DEF Cells, before, after
    <2>2. before \o <<>> = before
      BY <1>1
    <2>3. /\ before \o after \in Seq(T)
          /\ Len(before \o after) = Len(fields)
          /\ \A i \in 1..Len(fields) :
                (before \o after)[i] = IF i <= n THEN before[i] ELSE after[i - n]
      <3>1. Len(before) + Len(after) = Len(fields)
        BY <1>0, <1>1, <1>2
      <3> QED
        BY <1>1, <1>2, <3>1, ConcatProperties
    <2>4. DOMAIN (before \o after) = 1..Len(fields)
      BY <2>3
    <2>5. \A i \in 1..n : (before \o after)[i] = fields[i]
      BY <1>1, <2>3
    <2>6. ASSUME NEW i \in n + 1..Len(fields) PROVE (before \o after)[i] = fields[i]
      <3>1. (before \o after)[i] = after[i - n]
        BY <1>0, <2>3
      <3>2. i - n \in 1..Len(fields) - n /\ n + (i - n) = i
        OBVIOUS
      <3> QED
        BY <1>2, <3>1, <3>2
    <2> QED
      BY <1>4, <2>1, <2>2, <2>4, <2>5, <2>6
  <1> QED
    BY <1>3, <1>4

\* A function that reads the handles before CommonComplete, and only them, finds
\* each output where the TPM put it, with and without authorizations.
LEMMA NothingMisread ==
  ASSUME NEW complete, complete.before \in Seq(Fields), complete.after \in Seq(Fields),
         NEW authorized \in BOOLEAN
  PROVE  Misread(complete, Len(complete.before), authorized) = {}
  <1> DEFINE n == Len(complete.before)
             read == complete.before \o complete.after
             fields == FieldNames(read)
             cells == Cells(fields, n, authorized)
             skip == IF authorized THEN 1 ELSE 0
  <1>1. /\ read \in Seq(Fields) /\ Len(read) = n + Len(complete.after)
        /\ n \in Nat /\ Len(complete.after) \in Nat
    BY ConcatProperties
  <1>2. fields \in Seq(Names) /\ Len(fields) = Len(read) /\ DOMAIN fields = 1..Len(read)
    BY <1>1, NamesSeq
  <1>3. n \in 0..Len(fields) /\ n \in Nat
    <2> HIDE DEF n, read, fields
    <2> QED
      BY <1>1, <1>2
  <1>4. /\ DOMAIN cells = 1..Len(fields) + skip
        /\ \A i \in 1..n : cells[i] = fields[i]
        /\ \A i \in n + 1..Len(fields) : cells[i + skip] = fields[i]
    BY <1>2, <1>3, CellPlaces
  <1> HIDE DEF n, read, fields, cells
  <1>5. ASSUME NEW j \in DOMAIN fields
        PROVE  /\ Place(complete, n, authorized, j) \in DOMAIN cells
               /\ cells[Place(complete, n, authorized, j)] = fields[j]
    <2>1. CASE j <= n
      BY <1>2, <1>3, <1>4, <1>5, <2>1 DEF Place, n
    <2>2. CASE ~(j <= n)
      <3>0. j \in Nat
        BY <1>2, <1>5
      <3>1. Place(complete, n, authorized, j) = n + skip + j - n
        BY <2>2 DEF Place, n
      <3>2. j \in n + 1..Len(fields) /\ n + skip + j - n = j + skip
        BY <1>2, <1>3, <2>2, <3>0
      <3> QED
        BY <1>3, <1>4, <3>1, <3>2
    <2> QED
      BY <2>1, <2>2
  <1> QED
    BY <1>5 DEF Misread, n, read, fields, cells

\* The request in the SYS buffer is the one of the call that is being processed, whose
\* sessions were accepted, and so are the stored inputs.
RequestOfCall ==
    request # NoRequest =>
        /\ state # "INIT"
        /\ call \in Calls
        /\ request = Request(call.of, call.sessions, call.flaw)
        /\ in = Esys[call.of].async.keeps
        /\ check_session_feasibility(call.sessions, Esys[call.of].async.auths)

\* While there is a request, call and in are left alone.
LEMMA RequestStays ==
  ASSUME TypeOK, Next
  PROVE  \/ request' = NoRequest
         \/ \E k \in Calls : AsyncSends(k)
         \/ UNCHANGED <<request, call, in>> /\ (state' = state \/ state' # "INIT")
         \/ state = "INIT" /\ UNCHANGED <<request, state>>
  <1>1. CASE Async
    BY <1>1 DEF Async, AsyncRefused, AsyncRefusesEarly, AsyncRejects, AsyncLatches, AsyncCrashes
  <1>2. CASE TpmAnswers \/ Restart \/ Take
    BY <1>2 DEF TpmAnswers, Restart, Take
  <1>3. CASE state = "INIT" /\ ret = Taken /\ \E c \in Commands : SysOneCall(c)
    BY <1>3 DEF SysOneCall
  <1>4. CASE FinishResubmits
    <2>1. call.of \in Commands
      BY <1>4 DEF FinishResubmits, Finishing, TypeOK
    <2>2. Function.resubmits # "INIT"
      BY <2>1, StackAssumption DEF Function
    <2> QED
      BY <1>4, <2>2 DEF FinishResubmits, Leaves
  <1>5. CASE Finish /\ ~FinishResubmits
    BY <1>5 DEF Finish, FinishRefused, FinishCannotStart, FinishTriesAgain, FinishTpmError,
           FinishIoError, FinishFails, FinishDelivers, Leaves
  <1> QED
    BY <1>1, <1>2, <1>3, <1>4, <1>5 DEF Next

LEMMA RequestInv == Spec => []RequestOfCall
  <1>1. Init => RequestOfCall
    BY DEF Init, RequestOfCall
  <1>2. TypeOK /\ RequestOfCall /\ [Next]_vars => RequestOfCall'
    <2> SUFFICES ASSUME TypeOK, RequestOfCall, [Next]_vars
                 PROVE  RequestOfCall'
      OBVIOUS
    <2>1. CASE UNCHANGED vars
      BY <2>1 DEF vars, RequestOfCall
    <2>2. CASE request' = NoRequest
      BY <2>2 DEF RequestOfCall
    <2>3. ASSUME NEW k \in Calls, AsyncSends(k) PROVE RequestOfCall'
      <3>1. /\ call' = k /\ request' = Request(k.of, k.sessions, k.flaw)
            /\ in' = Esys[k.of].async.keeps
            /\ check_session_feasibility(k.sessions, Esys[k.of].async.auths)
            /\ state' # "INIT"
        BY <2>3 DEF AsyncSends, Issues, Rejects
      <3> QED
        BY <3>1 DEF RequestOfCall
    <2>4. CASE UNCHANGED <<request, call, in>> /\ (state' = state \/ state' # "INIT")
      BY <2>4 DEF RequestOfCall
    <2>5. CASE state = "INIT" /\ UNCHANGED <<request, state>>
      BY <2>5 DEF RequestOfCall
    <2> QED
      BY <2>1, <2>2, <2>3, <2>4, <2>5, RequestStays
  <1> QED
    BY <1>1, <1>2, TypeCorrect, PTL DEF Spec

\* Outputs are read by Esys_X_Finish when it succeeds, and by Tss2_Sys_X.
LEMMA ReadsOutcome ==
  ASSUME TypeOK, Next
  PROVE  \/ UNCHANGED <<ret, call>>
         \/ ret'.misread = {}
         \/ /\ call'.of \in Commands
            /\ \E authorized \in BOOLEAN :
                  ret'.misread = Misread(Sys[call'.of].complete, NumHandles[call'.of][2], authorized)
  <1>1. CASE Async \/ Restart \/ Take
    <2>1. \E rc \in Codes : ret' = Return(rc)
      BY <1>1 DEF Async, AsyncRefused, AsyncRefusesEarly, AsyncRejects, AsyncLatches, AsyncCrashes,
             AsyncSends, Restart, Take, Taken, Codes
    <2> QED
      BY <2>1, ReturnClean
  <1>2. CASE TpmAnswers
    BY <1>2 DEF TpmAnswers
  <1>3. ASSUME NEW c \in Commands, SysOneCall(c)
        PROVE  \/ ret'.misread = {}
               \/ /\ call'.of \in Commands
                  /\ \E authorized \in BOOLEAN :
                        ret'.misread = Misread(Sys[call'.of].complete, NumHandles[call'.of][2], authorized)
    BY <1>3, OneCallOutcome, TableAssumption
  <1>4. CASE FinishDelivers
    <2> DEFINE authorized == request.auths # {}
    <2>1. call' = call /\ call.of \in Commands
      BY <1>4 DEF FinishDelivers, Finishing, Leaves, TypeOK
    <2>2. ret'.misread = Misread(Sys[call.of].complete, NumHandles[call.of][2], authorized)
      BY <1>4 DEF FinishDelivers, Return
    <2>3. authorized \in BOOLEAN
      OBVIOUS
    <2> QED
      BY <2>1, <2>2, <2>3
  <1>5. CASE Finish /\ ~FinishDelivers
    <2>1. \/ \E rc \in Codes : ret' = Return(rc)
          \/ \E k \in Int, rc \in Codes : ret' = Abandon(Function, k, rc)
          \/ \E rc \in Codes : ret' = Abandon(Function, ExecuteAt, rc)
      BY <1>5 DEF Finish, FinishRefused, FinishCannotStart, FinishTriesAgain, FinishResubmits,
             FinishTpmError, FinishIoError, FinishFails, Codes
    <2>2. \A k, rc : Abandon(Function, k, rc).misread = {}
      BY DEF Abandon, Return
    <2> QED
      BY <2>1, <2>2, ReturnClean
  <1> QED
    BY <1>1, <1>2, <1>3, <1>4, <1>5 DEF Next

\* If the functions follow ReadRule, then every output is what the TPM sent for it,
\* with sessions and without, from the ESAPI and from the SAPI, and Esys_X_Finish uses
\* inputs only if its own Esys_X_Async stored them, also after resubmissions.
THEOREM ReadsOwn ==
  ASSUME \A c \in Commands : ReadRule(c)
  PROVE  Spec => []FinishReadsOwn
  <1>1. Init => OutputsInPlace
    BY ReturnClean DEF Init, Taken, OutputsInPlace
  <1>2. TypeOK /\ OutputsInPlace /\ [Next]_vars => OutputsInPlace'
    <2> SUFFICES ASSUME TypeOK, OutputsInPlace, [Next]_vars
                 PROVE  OutputsInPlace'
      OBVIOUS
    <2>1. CASE UNCHANGED vars \/ UNCHANGED <<ret, call>>
      BY <2>1 DEF vars, OutputsInPlace
    <2>2. CASE ret'.misread = {}
      BY <2>2 DEF OutputsInPlace
    <2>3. ASSUME call'.of \in Commands, NEW authorized \in BOOLEAN,
                 ret'.misread = Misread(Sys[call'.of].complete, NumHandles[call'.of][2], authorized)
          PROVE  OutputsInPlace'
      <3>1. call'.of \notin ReadsHandleLate =>
               Len(Sys[call'.of].complete.before) = NumHandles[call'.of][2]
        BY <2>3 DEF ReadRule
      <3>2. Misread(Sys[call'.of].complete, Len(Sys[call'.of].complete.before), authorized) = {}
        BY <2>3, TableAssumption, NothingMisread
      <3> QED
        BY <2>3, <3>1, <3>2 DEF OutputsInPlace
    <2> QED
      BY <2>1, <2>2, <2>3, ReadsOutcome
  <1>3. TypeOK /\ RequestOfCall => InputsKept
    <2> SUFFICES ASSUME TypeOK, RequestOfCall, Sent, ~in
                 PROVE  ~UsesInputs(Steps)
      BY DEF InputsKept
    <2>1. call.of \in Commands /\ in = Esys[call.of].async.keeps
      BY CallShape DEF Sent, RequestOfCall
    <2> QED
      BY <2>1 DEF ReadRule, Steps, Function
  <1> QED
    BY <1>1, <1>2, <1>3, TypeCorrect, RequestInv, PTL DEF Spec, FinishReadsOwn

-----------------------------------------------------------------------------
(* The request.                                                            *)

\* Element i of a sequence, or nothing.
Optional(s, i) == IF i \in DOMAIN s THEN <<s[i]>> ELSE <<>>

LEMMA AsTuple ==
  ASSUME NEW S, NEW s \in Seq(S)
  PROVE  /\ Len(s) = 2 => s = <<s[1], s[2]>>
         /\ Len(s) = 3 => s = <<s[1], s[2], s[3]>>
  OBVIOUS

LEMMA Pair ==
  ASSUME NEW x, NEW y
  PROVE  <<x>> \o <<y>> = <<x, y>>
  <1> DEFINE S == {x, y}
  <1>1. <<x>> \in Seq(S) /\ <<y>> \in Seq(S) /\ Len(<<x>>) = 1 /\ Len(<<y>>) = 1
    OBVIOUS
  <1> HIDE DEF S
  <1>2. /\ <<x>> \o <<y>> \in Seq(S) /\ Len(<<x>> \o <<y>>) = 2
        /\ (<<x>> \o <<y>>)[1] = x /\ (<<x>> \o <<y>>)[2] = y
    BY <1>1, ConcatProperties
  <1> QED
    BY <1>2, AsTuple

LEMMA Triple ==
  ASSUME NEW x, NEW y, NEW z
  PROVE  <<x, y>> \o <<z>> = <<x, y, z>>
  <1> DEFINE S == {x, y, z}
             t == <<x, y>>
  <1>1. t \in Seq(S) /\ <<z>> \in Seq(S) /\ Len(t) = 2 /\ Len(<<z>>) = 1 /\ t[1] = x /\ t[2] = y
    OBVIOUS
  <1> HIDE DEF S, t
  <1>2. /\ t \o <<z>> \in Seq(S) /\ Len(t \o <<z>>) = 3
        /\ (t \o <<z>>)[1] = x /\ (t \o <<z>>)[2] = y /\ (t \o <<z>>)[3] = z
    <2>1. /\ t \o <<z>> \in Seq(S)
          /\ Len(t \o <<z>>) = Len(t) + Len(<<z>>)
          /\ \A i \in 1 .. Len(t) + Len(<<z>>) :
                (t \o <<z>>)[i] = IF i <= Len(t) THEN t[i] ELSE <<z>>[i - Len(t)]
      BY <1>1, ConcatProperties
    <2>2. <<z>>[1] = z
      OBVIOUS
    <2> QED
      BY <1>1, <2>1, <2>2
  <1>3. t \o <<z>> = <<x, y, z>>
    <2> DEFINE u == t \o <<z>>
    <2>1. u \in Seq(S) /\ Len(u) = 3 /\ u[1] = x /\ u[2] = y /\ u[3] = z
      BY <1>2
    <2> HIDE DEF u
    <2>2. u = <<u[1], u[2], u[3]>>
      BY <2>1, AsTuple
    <2>3. u = <<x, y, z>>
      BY <2>1, <2>2
    <2> QED
      BY <2>3 DEF u
  <1> QED
    BY <1>3 DEF t

\* At most three elements, one after the other, are the sequence itself.
LEMMA ThreeElements ==
  ASSUME NEW S, NEW s \in Seq(S), Len(s) <= 3
  PROVE  Optional(s, 1) \o Optional(s, 2) \o Optional(s, 3) = s
  <1>1. Len(s) \in Nat /\ DOMAIN s = 1..Len(s)
    OBVIOUS
  <1>2. CASE Len(s) = 0
    <2>1. s = <<>>
      BY <1>2
    <2>2. Optional(s, 1) = <<>> /\ Optional(s, 2) = <<>> /\ Optional(s, 3) = <<>>
      BY <1>1, <1>2 DEF Optional
    <2> QED
      BY <2>1, <2>2
  <1>3. CASE Len(s) = 1
    <2>1. s = <<s[1]>>
      BY <1>3
    <2>2. Optional(s, 1) = <<s[1]>> /\ Optional(s, 2) = <<>> /\ Optional(s, 3) = <<>>
      BY <1>1, <1>3 DEF Optional
    <2>3. s \o <<>> = s
      OBVIOUS
    <2> QED
      BY <2>1, <2>2, <2>3
  <1>4. CASE Len(s) = 2
    <2>1. s = <<s[1], s[2]>>
      BY <1>4
    <2>2. Optional(s, 1) = <<s[1]>> /\ Optional(s, 2) = <<s[2]>> /\ Optional(s, 3) = <<>>
      BY <1>1, <1>4 DEF Optional
    <2>3. s \o <<>> = s
      OBVIOUS
    <2> QED
      BY <2>1, <2>2, <2>3, Pair
  <1>5. CASE Len(s) = 3
    <2>1. s = <<s[1], s[2], s[3]>>
      BY <1>5
    <2>2. Optional(s, 1) = <<s[1]>> /\ Optional(s, 2) = <<s[2]>> /\ Optional(s, 3) = <<s[3]>>
      BY <1>1, <1>5 DEF Optional
    <2>3. <<s[1]>> \o <<s[2]>> = <<s[1], s[2]>>
      BY Pair
    <2>4. <<s[1], s[2]>> \o <<s[3]>> = <<s[1], s[2], s[3]>>
      BY Triple
    <2> QED
      BY <2>1, <2>2, <2>3, <2>4, Zenon
  <1>6. Len(s) = 0 \/ Len(s) = 1 \/ Len(s) = 2 \/ Len(s) = 3
    BY <1>1
  <1> QED
    BY <1>2, <1>3, <1>4, <1>5, <1>6

\* If no object is ESYS_TR_NONE, each is there.
LEMMA AllThere ==
  ASSUME NEW list, NEW i, NEW flaw, flaw.kind # "none"
  PROVE  NodeAt(list, i, flaw) = IF i \in DOMAIN list THEN list[i] ELSE "NULL"
  BY DEF NodeAt, Flaw

\* The cpHash is over the names of the handles of the command.
LEMMA NamesAreHandles ==
  ASSUME NEW c \in Commands, RequestRule(c), c \notin HashesOtherNames,
         Esys[c].async.sessions, NEW flaw, flaw.kind # "none"
  PROVE  iesys_compute_cp_hash(Esys[c].async, flaw) = Handles(c)
  <1> DEFINE a == Esys[c].async
             s == a.named
  <1>1. s = Handles(c) /\ s \in Seq(STRING) /\ Len(s) <= 3
    BY TableAssumption DEF RequestRule
  <1>2. \A i \in DOMAIN s : s[i] # "NULL"
    BY DEF RequestRule
  <1>3. ASSUME NEW i \in 1..3 PROVE NameOf(a, i, flaw) = Optional(s, i)
    BY <1>2, AllThere DEF NameOf, Optional
  <1>4. NameOf(a, 1, flaw) \o NameOf(a, 2, flaw) \o NameOf(a, 3, flaw) = s
    BY <1>1, <1>3, ThreeElements
  <1> QED
    BY <1>1, <1>4 DEF iesys_compute_cp_hash

\* An authorization that is needed is made for the handle at its place, if no
\* session is left out before it and no object is missing.
LEMMA AuthorizesHandle ==
  ASSUME NEW c \in Commands, RequestRule(c), NEW s, NEW flaw, flaw.kind # "none", Gapless(s),
         \A i \in 1..3 : s[i] \in SessionKinds,
         NEW auth \in iesys_gen_auths(Esys[c].async, s, flaw),
         auth.place <= Esys[c].async.auths, Esys[c].async.auths \in Nat
  PROVE  auth.object = Handles(c)[auth.place] /\ auth.handle # "undefined"
  <1> DEFINE a == Esys[c].async
  <1>1. PICK i \in 1..3 : s[i] # "NONE" /\ auth = AuthOf(a, s, flaw, i)
    BY DEF iesys_gen_auths
  <1>2. \A j \in 1..i : s[j] # "NONE"
    BY <1>1 DEF Gapless
  <1>3. Count(s, i) = i
    BY <1>2, CountGapless
  <1>4. auth.place = i
    BY <1>1, <1>3 DEF AuthOf
  <1>5. i \in 1..a.auths
    BY <1>4
  <1>6. /\ i \in DOMAIN a.bound /\ i \in DOMAIN a.named
        /\ a.bound[i] = Handles(c)[i] /\ a.named[i] = Handles(c)[i]
        /\ a.named[i] # "NULL"
    BY <1>5 DEF RequestRule
  <1>7. NodeAt(a.named, i, flaw) = Handles(c)[i] /\ NodeAt(a.bound, i, flaw) = Handles(c)[i]
    BY <1>6, AllThere
  <1> QED
    BY <1>1, <1>4, <1>6, <1>7 DEF AuthOf

\* If the functions follow RequestRule, then the names in every cpHash, the
\* authorizations and what is encrypted belong to the handles and parameters in
\* the SYS buffer, for all sessions that check_session_feasibility accepts and
\* however often the command is resubmitted.
THEOREM ConsistentRequests ==
  ASSUME \A c \in Commands : RequestRule(c)
  PROVE  Spec => []RequestConsistent
  <1>1. TypeOK /\ RequestOfCall => RequestConsistent
    <2> SUFFICES ASSUME TypeOK, RequestOfCall, Sent
                 PROVE  RequestConsistent
      BY DEF RequestConsistent, NamesMatchHandles, AuthorizesOwnHandle, EncryptsTpm2b
    <2> DEFINE c == call.of
               a == Esys[c].async
    <2>1. /\ request = Request(c, call.sessions, call.flaw)
          /\ c \in Commands /\ call.sessions \in Sessions(c)
          /\ \A i \in 1..3 : call.sessions[i] \in SessionKinds
      BY CallShape DEF Sent, RequestOfCall
    <2>2. /\ request.handles = Handles(c) /\ request.params = Params(c)
          /\ request.names = iesys_compute_cp_hash(a, call.flaw)
          /\ request.auths = iesys_gen_auths(a, call.sessions, call.flaw)
          /\ request.encrypted = (HasHmac(call.sessions) /\ "decrypt" \in Sys[c].prepare.allowed)
      BY <2>1 DEF Request
    <2>3. RequestRule(c)
      BY <2>1
    <2>4. HasHmac(call.sessions) => a.sessions
      BY <2>1 DEF Sessions, NoSessions, HasHmac
    <2>5. NamesMatchHandles
      BY <2>1, <2>2, <2>3, <2>4, NamesAreHandles DEF NamesMatchHandles, AllObjects
    <2>6. AuthorizesOwnHandle
      BY <2>1, <2>2, <2>3, AuthorizesHandle, TableAssumption DEF AuthorizesOwnHandle, AllObjects
    <2>7. EncryptsTpm2b
      BY <2>1, <2>2, <2>3, <2>4 DEF EncryptsTpm2b, RequestRule
    <2> QED
      BY <2>5, <2>6, <2>7 DEF RequestConsistent
  <1> QED
    BY <1>1, TypeCorrect, RequestInv, PTL

-----------------------------------------------------------------------------
(* Inputs that are refused.                                                *)

\* What Esys_X_Finish and Tss2_Sys_X return is never an error of the inputs of
\* Esys_X_Async.
LEMMA OtherCodes ==
  ASSUME Finish \/ Restart \/ Take \/ \E c \in Commands : SysOneCall(c)
  PROVE  ret'.rc \notin {"BAD_INPUT", "CRASH"}
  <1>1. CASE Finish /\ ~FinishDelivers
    BY <1>1, ReturnCode
    DEF Finish, FinishRefused, FinishCannotStart, FinishTriesAgain, FinishResubmits, FinishTpmError,
        FinishIoError, FinishFails
  <1>2. CASE FinishDelivers
    BY <1>2 DEF FinishDelivers, Return
  <1>3. CASE Restart \/ Take
    BY <1>3, ReturnCode DEF Restart, Take, Taken
  <1>4. ASSUME NEW c \in Commands, SysOneCall(c) PROVE ret'.rc \notin {"BAD_INPUT", "CRASH"}
    BY <1>4, OneCallOutcome
  <1> QED
    BY <1>1, <1>2, <1>3, <1>4

\* If the functions follow InputRule, then whatever is wrong with the inputs, in any
\* state of the context, they are refused, nothing is used that is not there, and the
\* next command can be issued.
THEOREM HarmlessInputs ==
  ASSUME \A c \in Commands : InputRule(c)
  PROVE  Spec => []InputsHarmless
  <1>1. Init => InputsHarmless
    BY ReturnCode DEF Init, Taken, InputsHarmless, BadInputHarmless, NoNullDereference
  <1>2. InputsHarmless /\ [Next]_vars => InputsHarmless'
    <2> SUFFICES ASSUME InputsHarmless, [Next]_vars
                 PROVE  InputsHarmless'
      OBVIOUS
    <2> USE DEF InputsHarmless, BadInputHarmless, NoNullDereference
    <2>1. CASE UNCHANGED vars \/ TpmAnswers
      BY <2>1 DEF vars, TpmAnswers
    <2>2. CASE ret'.rc \notin {"BAD_INPUT", "CRASH"}
      BY <2>2
    <2>3. ASSUME NEW k \in Calls, AsyncRejects(k) PROVE InputsHarmless'
      BY <2>3, ReturnCode DEF AsyncRejects
    <2>4. ASSUME NEW k \in Calls, AsyncLatches(k) PROVE InputsHarmless'
      <3>1. k.of \in Commands /\ Esys[k.of].async.latches # {}
        BY <2>4, CallShape DEF AsyncLatches, Latches
      <3> QED
        BY <2>4, <3>1, ReturnCode DEF AsyncLatches, InputRule
    <2>5. ASSUME NEW k \in Calls, AsyncCrashes(k) PROVE InputsHarmless'
      <3>1. k.of \in Commands /\ Esys[k.of].async.derefs # {}
        BY <2>5, CallShape DEF AsyncCrashes, Dereferences
      <3> QED
        BY <2>5, <3>1, ReturnCode DEF AsyncCrashes, InputRule
    <2>6. CASE AsyncRefused \/ AsyncRefusesEarly \/ \E k \in Calls : AsyncSends(k)
      BY <2>6, ReturnCode DEF AsyncRefused, AsyncRefusesEarly, AsyncSends
    <2> QED
      BY <2>1, <2>2, <2>3, <2>4, <2>5, <2>6, OtherCodes DEF Next, Async
  <1> QED
    BY <1>1, <1>2, PTL DEF Spec

-----------------------------------------------------------------------------
(* The metadata.                                                           *)

LEMMA DidGrows ==
  ASSUME NEW c \in Commands, NEW k \in DOMAIN Esys[c].finish.steps, NEW ops
  PROVE  Did(Esys[c].finish.steps, k, ops)
         \subseteq Did(Esys[c].finish.steps, Len(Esys[c].finish.steps) + 1, ops)
  <1> DEFINE steps == Esys[c].finish.steps
  <1>1. Len(steps) \in Nat /\ DOMAIN steps = 1..Len(steps)
    BY TableAssumption
  <1> QED
    BY <1>1 DEF Did

\* Before there is a response nothing has changed.
LEMMA NothingBefore ==
  ASSUME call.of \in Commands, MetadataRule(call.of)
  PROVE  Changes(Steps, ExecuteAt) = Unchanged
  <1>1. /\ DOMAIN Steps = 1..Len(Steps) /\ Len(Steps) \in Nat
        /\ StepsRule(Steps)
        /\ \A i, j \in DOMAIN Steps :
              Steps[i].op \in {"setauth", "close"} /\ Steps[j].op = "execute" => j < i
    BY TableAssumption DEF MetadataRule, Steps, Function
  <1>2. ExecuteAt \in DOMAIN Steps /\ Steps[ExecuteAt].op = "execute"
    BY <1>1, ExecuteStep
  <1>3. \A i \in DOMAIN Steps : i < ExecuteAt => Steps[i].op \notin {"setauth", "close"}
    BY <1>1, <1>2
  <1> QED
    BY <1>3 DEF Changes, Did, Unchanged

\* While a command is pending ESYS has changed nothing, and the TPM what the
\* response says.  Of a failed command a part can be missing.
MetadataInv ==
    /\ Finishing =>
          /\ esys = Unchanged
          /\ tpm = IF response = "OK" THEN TpmChanges(call.of) ELSE Unchanged
    /\ AuthFollowsTpm
    /\ RemovedAreClosed

LEMMA BothUnchanged ==
  ASSUME esys' = Unchanged, tpm' = Unchanged, ~Finishing' \/ response' # "OK"
  PROVE  MetadataInv'
  BY DEF MetadataInv, AuthFollowsTpm, RemovedAreClosed, Unchanged

\* The calls that do not come to a new result.
LEMMA SameMetadata ==
  ASSUME MetadataInv, UNCHANGED <<state, call, response, esys, tpm>>, ret'.rc # "SUCCESS" \/ ret' = ret
  PROVE  MetadataInv'
  BY DEF MetadataInv, Finishing, AuthFollowsTpm, RemovedAreClosed

LEMMA FailsMetadata ==
  ASSUME TypeOK, MetadataInv, MetadataRule(call.of), call.of \in Commands, FinishFails
  PROVE  MetadataInv'
  <1> DEFINE done == Changes(Steps, Len(Steps) + 1)
  <1>1. /\ DOMAIN Steps = 1..Len(Steps) /\ Len(Steps) \in Nat /\ StepsRule(Steps)
    BY TableAssumption DEF MetadataRule, Steps, Function
  <1>2. ExecuteAt \in DOMAIN Steps
    BY <1>1, ExecuteStep
  <1>3. PICK k \in ExecuteAt + 1..Len(Steps) :
           /\ MayFail(Steps[k])
           /\ state' = IF Steps[k].fail = "init" THEN "INIT" ELSE "INTERNALERROR"
           /\ ret' = Abandon(Function, k, "ERROR")
           /\ esys' = Changes(Steps, k)
    BY DEF FinishFails
  <1>4. k \in DOMAIN Steps
    BY <1>1, <1>2, <1>3
  <1>5. esys'.auth \subseteq done.auth /\ esys'.closed \subseteq done.closed
    BY <1>3, <1>4, DidGrows DEF Changes, Steps, Function
  <1>6. tpm' = TpmChanges(call.of) /\ call' = call
    BY DEF FinishFails, MetadataInv, Leaves
  <1>7. done.closed \subseteq TpmChanges(call.of).closed
    BY DEF MetadataRule, Steps, Function
  <1>8. ret'.rc = "ERROR" /\ ~Finishing'
    BY <1>3, ReturnCode DEF Finishing
  <1>9. AuthFollowsTpm'
    <2> SUFFICES ASSUME state' = "INIT", call.of \notin ForgetsAuth
                 PROVE  esys'.auth = tpm'.auth
      BY <1>6 DEF AuthFollowsTpm
    <2>1. Steps[k].fail = "init"
      BY <1>3
    <2>2. call.of \notin DOMAIN AuthSetBy
      BY <1>4, <2>1 DEF MetadataRule, Steps, Function
    <2>3. TpmChanges(call.of).auth = {}
      BY <2>2 DEF TpmChanges
    <2>4. done.auth = {}
      BY <2>3 DEF MetadataRule, Steps, Function
    <2> QED
      BY <1>5, <1>6, <2>3, <2>4
  <1> QED
    BY <1>5, <1>6, <1>7, <1>8, <1>9 DEF MetadataInv, RemovedAreClosed

LEMMA FinishMetadata ==
  ASSUME TypeOK, MetadataInv, \A c \in Commands : MetadataRule(c), Finish
  PROVE  MetadataInv'
  <1>1. CASE FinishRefused
    BY <1>1, SameMetadata, ReturnCode DEF FinishRefused
  <1>2. CASE ~FinishRefused
    <2>1. Finishing /\ call.of \in Commands /\ call' = call /\ tpm' = tpm
      BY <1>2 DEF Finish, FinishCannotStart, FinishTriesAgain, FinishResubmits, FinishTpmError,
             FinishIoError, FinishFails, FinishDelivers, Finishing, Leaves, TypeOK
    <2>2. MetadataRule(call.of)
      BY <2>1
    <2>3. esys = Unchanged /\ tpm = IF response = "OK" THEN TpmChanges(call.of) ELSE Unchanged
      BY <2>1 DEF MetadataInv
    <2>4. Changes(Steps, ExecuteAt) = Unchanged
      BY <2>1, <2>2, NothingBefore
    <2>5. CASE FinishCannotStart
      <3>1. state' = "INTERNALERROR" /\ esys' = Unchanged
        BY <2>3, <2>5 DEF FinishCannotStart
      <3> QED
        BY <2>1, <3>1 DEF MetadataInv, Finishing, AuthFollowsTpm, RemovedAreClosed, Unchanged,
               TpmChanges
    <2>6. CASE FinishTriesAgain \/ FinishResubmits \/ FinishTpmError \/ FinishIoError
      <3>1. response # "OK" /\ response' # "OK" /\ esys' = Unchanged
        BY <2>4, <2>6 DEF FinishTriesAgain, FinishResubmits, FinishTpmError, FinishIoError, Leaves
      <3> QED
        BY <2>1, <2>3, <3>1, BothUnchanged
    <2>7. CASE FinishFails
      BY <2>1, <2>2, <2>7, FailsMetadata
    <2>8. CASE FinishDelivers
      <3>1. /\ esys' = Changes(Steps, Len(Steps) + 1) /\ ~Finishing'
            /\ tpm' = TpmChanges(call.of)
        BY <2>1, <2>3, <2>8 DEF FinishDelivers, Finishing
      <3> QED
        BY <2>1, <2>2, <3>1
        DEF MetadataInv, AuthFollowsTpm, RemovedAreClosed, MetadataRule, Steps, Function
    <2> QED
      BY <1>2, <2>5, <2>6, <2>7, <2>8 DEF Finish
  <1> QED
    BY <1>1, <1>2

\* If the functions follow MetadataRule, then in every behaviour, with errors of the
\* TPM, of the transport and of any step, ESYS closes only what the TPM removed, and
\* when the context is ready again it has the authorization values of the TPM and,
\* after a success, no ESYS_TR of an object that is gone.
THEOREM FollowsTpm ==
  ASSUME \A c \in Commands : MetadataRule(c)
  PROVE  Spec => []MetadataFollowsTpm
  <1>1. Init => MetadataInv
    BY DEF Init, MetadataInv, Finishing, AuthFollowsTpm, RemovedAreClosed
  <1>2. TypeOK /\ MetadataInv /\ [Next]_vars => MetadataInv'
    <2> SUFFICES ASSUME TypeOK, MetadataInv, [Next]_vars
                 PROVE  MetadataInv'
      OBVIOUS
    <2>1. CASE UNCHANGED vars
      BY <2>1, SameMetadata DEF vars
    <2>2. CASE AsyncRefused \/ AsyncRefusesEarly
      BY <2>2, SameMetadata, ReturnCode DEF AsyncRefused, AsyncRefusesEarly
    <2>3. ASSUME NEW k \in Calls,
                 AsyncRejects(k) \/ AsyncLatches(k) \/ AsyncCrashes(k) \/ AsyncSends(k)
          PROVE  MetadataInv'
      <3>1. esys' = Unchanged /\ tpm' = Unchanged /\ response' = "none"
        BY <2>3 DEF AsyncRejects, AsyncLatches, AsyncCrashes, AsyncSends, Issues
      <3> QED
        BY <3>1, BothUnchanged
    <2>4. CASE TpmAnswers
      <3>1. Finishing /\ response = "none"
        BY <2>4 DEF TpmAnswers, Finishing
      <3>2. /\ esys' = Unchanged /\ call' = call /\ state' = state
            /\ tpm' = IF response' = "OK" THEN TpmChanges(call.of) ELSE Unchanged
        BY <2>4, <3>1 DEF TpmAnswers, MetadataInv
      <3>3. state' # "INIT"
        BY <3>1, <3>2 DEF Finishing
      <3> QED
        BY <3>2, <3>3 DEF MetadataInv, AuthFollowsTpm, RemovedAreClosed, Unchanged
    <2>5. CASE Finish
      BY <2>5, FinishMetadata
    <2>6. CASE Restart \/ Take
      <3>1. esys' = Unchanged /\ tpm' = Unchanged /\ response' = "none"
        BY <2>6 DEF Restart, Take
      <3> QED
        BY <3>1, BothUnchanged
    <2>7. CASE state = "INIT" /\ \E c \in Commands : SysOneCall(c)
      <3>1. esys' = Unchanged /\ tpm' = Unchanged /\ ~Finishing'
        BY <2>7 DEF SysOneCall, Finishing
      <3> QED
        BY <3>1, BothUnchanged
    <2> QED
      BY <2>1, <2>2, <2>3, <2>4, <2>5, <2>6, <2>7 DEF Next, Async
  <1>3. MetadataInv => MetadataFollowsTpm
    BY DEF MetadataInv, MetadataFollowsTpm
  <1> QED
    BY <1>1, <1>2, <1>3, TypeCorrect, PTL DEF Spec

=============================================================================
