---------------------------- MODULE CommandStack ----------------------------
(***************************************************************************)
(* A command on its way through the stack: Esys_X_Async turns the ESYS_TRs *)
(* and sessions of the application into a command in the SYS buffer, the   *)
(* TPM answers, Tss2_Sys_X_Complete reads the response and Esys_X_Finish   *)
(* hands the results over.  The commands are tables: Sys and Esys say what *)
(* each function of src/tss2-sys/api and src/tss2-esys/api does, and this  *)
(* module executes it.  EsysContext has the timing of the calls and the    *)
(* sessions' attributes; here every command, every input and every step    *)
(* that fails are looked at.                                               *)
(*                                                                         *)
(* A call has at most one flaw.  The application, or the one-call function *)
(* on its behalf, calls Finish until it does not return TRY_AGAIN, and     *)
(* issues the next command after that.  The TPM is external: it refuses    *)
(* TPM2_RH_NULL for an object that Finish needs and lays the response out  *)
(* as handles, parameters and authorizations.                              *)
(***************************************************************************)
EXTENDS Integers, Sequences, FiniteSets

CONSTANTS
    Sys,                  \* SysCommandTable!SysCommands
    Esys,                 \* EsysCommandTable!EsysCommands
    NumHandles,           \* of each command: handles, and handles of its response
    ESYS_MAX_SUBMISSIONS, \* submissions of one command
    AuthSetBy,            \* commands that give an object a new authorization value
    RemovedBy             \* commands that end the life of an object in the TPM

Commands == DOMAIN Esys

ASSUME StackAssumption ==
    /\ ESYS_MAX_SUBMISSIONS \in Nat \ {0}
    /\ DOMAIN Sys = Commands /\ DOMAIN NumHandles = Commands
    /\ DOMAIN AuthSetBy \subseteq Commands /\ DOMAIN RemovedBy \subseteq Commands
    /\ \A c \in Commands : Esys[c].finish.resubmits \in {"SENT", "RESUBMISSION"}
    /\ \A c \in Commands : Esys[c].async.keeps \in BOOLEAN

\* Fields of a command or a response, and what the tables say of them and of ESYS_TRs.
Fields == [name : STRING, refuses : BOOLEAN, sized : BOOLEAN, null : BOOLEAN]

ASSUME TableAssumption ==
    \A c \in Commands :
        /\ Sys[c].prepare.fields \in Seq(Fields)
        /\ Sys[c].complete.before \in Seq(Fields) /\ Sys[c].complete.after \in Seq(Fields)
        /\ NumHandles[c] \in Nat \X Nat /\ Sys[c].auths \in BOOLEAN
        /\ Esys[c].async.named \in Seq(STRING) /\ Esys[c].async.auths \in Nat
        /\ Len(Esys[c].finish.steps) \in Nat
        /\ DOMAIN Esys[c].finish.steps = 1..Len(Esys[c].finish.steps)

VARIABLES
    state, submissionCount,
    call,      \* command, sessions and flaw of the call being processed
    in,        \* do esysContext->in hold the inputs of that command?
    request,   \* the command in the SYS buffer
    response,  \* the answer in the SYS buffer
    ret,       \* what the last function returned
    esys,      \* objects whose metadata ESYS changed: new authorization, closed
    tpm        \* objects the TPM changed (history)

vars == <<state, submissionCount, call, in, request, response, ret, esys, tpm>>

-----------------------------------------------------------------------------
(* Calls.                                                                  *)

Elements(s) == {s[i] : i \in DOMAIN s}

SessionKinds == {"NONE", "PASSWORD", "HMAC"}
NoSessions == <<"NONE", "NONE", "NONE">>
Sessions(c) == IF Esys[c].async.sessions THEN SessionKinds \X SessionKinds \X SessionKinds
               ELSE {NoSessions}

\* Inputs given by a pointer that must not be NULL.
Pointers(c) ==
    Sys[c].prepare.needs \cup {f.name : f \in {g \in Elements(Sys[c].prepare.fields) : g.refuses}}

Flaw(kind, p) == [kind |-> kind, at |-> p]
NoFlaw == Flaw("ok", "call")

\* What can be wrong with a call: an object is ESYS_TR_NONE or unknown, another
\* input is NULL or has a value that is checked, a session is unknown, the
\* authorizations cannot be computed, the command cannot be sent.
Flaws(c) ==
    LET a == Esys[c].async
        objects == Elements(a.objects)
    IN  {NoFlaw}
        \cup {Flaw(k, p) : k \in {"none", "unknown"}, p \in objects}
        \cup {Flaw("bad", p) : p \in (Pointers(c) \cup a.early \cup a.latches \cup a.rejects \cup a.derefs) \ objects}
        \cup {Flaw(k, "call") : k \in {"session", "auths", "io"}}

HasHmac(s) == \E i \in 1..3 : s[i] = "HMAC"

Calls ==
    {k \in UNION {[of : {c}, sessions : Sessions(c), flaw : Flaws(c)] : c \in Commands} :
        k.flaw.kind \in {"session", "auths"} => HasHmac(k.sessions)}
NoCall == [of |-> "none", sessions |-> NoSessions, flaw |-> NoFlaw]

-----------------------------------------------------------------------------
(* The request.                                                            *)

\* A bug: the order of the sessions is not checked.
FeasibilityCountsOnly(s, mandatory) == Cardinality({i \in 1..3 : s[i] # "NONE"}) >= mandatory

\* Enough sessions, and none is left out before a session object.
check_session_feasibility(s, mandatory) ==
    /\ Cardinality({i \in 1..3 : s[i] # "NONE"}) >= mandatory
    /\ \A i, j \in 1..3 : i < j /\ s[j] = "HMAC" => s[i] # "NONE"

\* p at place i of a list of objects; NULL beyond its end and for ESYS_TR_NONE.
NodeAt(list, i, flaw) ==
    IF i \in DOMAIN list /\ flaw # Flaw("none", list[i]) THEN list[i] ELSE "NULL"

\* How many authorizations there are up to session i.
Count(s, i) == Cardinality({j \in 1..i : s[j] # "NONE"})

\* The authorization of session i: its place in the list, where its value was
\* written, what kind it is and the object whose authorization value it holds.
\* Without an object the handle of a password authorization is not set.
AuthOf(a, s, flaw, i) ==
    IF s[i] = "PASSWORD"
    THEN [place |-> Count(s, i), written |-> Count(s, i), object |-> NodeAt(a.named, i, flaw),
          handle |-> IF NodeAt(a.named, i, flaw) = "NULL" THEN "undefined" ELSE "RH_PW"]
    ELSE [place |-> Count(s, i), written |-> i, object |-> NodeAt(a.bound, i, flaw), handle |-> "session"]

iesys_gen_auths(a, s, flaw) == {AuthOf(a, s, flaw, i) : i \in {j \in 1..3 : s[j] # "NONE"}}

\* The name of object i, if it is there.
NameOf(a, i, flaw) ==
    IF NodeAt(a.named, i, flaw) # "NULL" THEN <<NodeAt(a.named, i, flaw)>>
    ELSE IF a.nullnamed /\ i \in DOMAIN a.named THEN <<"RH_NULL">> ELSE <<>>

\* The names in the cpHash: name1, name2 and name3.
iesys_compute_cp_hash(a, flaw) == NameOf(a, 1, flaw) \o NameOf(a, 2, flaw) \o NameOf(a, 3, flaw)

FieldNames(fields) == [i \in DOMAIN fields |-> fields[i].name]

\* What Tss2_Sys_X_Prepare marshals: first the handles, then the parameters.
Handles(c) == FieldNames(SubSeq(Sys[c].prepare.fields, 1, NumHandles[c][1]))
Params(c) == SubSeq(Sys[c].prepare.fields, NumHandles[c][1] + 1, Len(Sys[c].prepare.fields))

\* The command after Tss2_Sys_X_Prepare and Tss2_Sys_SetCmdAuths.  The parameters
\* begin behind the handles (CommonPrepareEpilogue); the first is encrypted if a
\* session is there and the command allows it.
Request(c, s, flaw) ==
    [code |-> Sys[c].prepare.code,
     handles |-> Handles(c),
     params |-> Params(c),
     names |-> iesys_compute_cp_hash(Esys[c].async, flaw),
     auths |-> iesys_gen_auths(Esys[c].async, s, flaw),
     encrypted |-> HasHmac(s) /\ "decrypt" \in Sys[c].prepare.allowed]

NoRequest == [code |-> "none", handles |-> <<>>, params |-> <<>>, names |-> <<>>, auths |-> {},
              encrypted |-> FALSE]

-----------------------------------------------------------------------------
(* The response.                                                           *)

\* The response of the TPM: its n handles, the size of the parameters if there are
\* authorizations, and the parameters.
Cells(fields, n, authorized) ==
    SubSeq(fields, 1, n) \o (IF authorized THEN <<"size">> ELSE <<>>) \o SubSeq(fields, n + 1, Len(fields))

\* Where Tss2_Sys_X_Complete finds its fields: from the start of the response,
\* and after CommonComplete behind the handles and the size.
Place(complete, n, authorized, i) ==
    IF i <= Len(complete.before) THEN i
    ELSE n + (IF authorized THEN 1 ELSE 0) + i - Len(complete.before)

\* The outputs of Tss2_Sys_X_Complete that are not what the TPM sent for them.
Misread(complete, n, authorized) ==
    LET fields == FieldNames(complete.before \o complete.after)
        cells == Cells(fields, n, authorized)
    IN  {fields[i] : i \in {j \in DOMAIN fields :
            \/ Place(complete, n, authorized, j) \notin DOMAIN cells
            \/ cells[Place(complete, n, authorized, j)] # fields[j]}}

-----------------------------------------------------------------------------
(* What a function returns.                                                *)

Return(rc) == [rc |-> rc, given |-> {}, lost |-> {}, wild |-> {}, misread |-> {}]
Taken == Return("none")  \* the application has taken what was returned
Unchanged == [auth |-> {}, closed |-> {}]

Init ==
    /\ state = "INIT" /\ submissionCount = 0
    /\ call = NoCall /\ in = FALSE
    /\ request = NoRequest /\ response = "none"
    /\ ret = Taken
    /\ esys = Unchanged /\ tpm = Unchanged

-----------------------------------------------------------------------------
(* Esys_X_Async.                                                           *)

\* Does the call make the function use a NULL pointer?  The authorization value
\* of a missing object is only touched for a session object.
Dereferences(k) ==
    LET a == Esys[k.of].async IN
    /\ k.flaw.kind \in {"none", "bad"} /\ k.flaw.at \in a.derefs
    /\ \A i \in DOMAIN a.bound : a.bound[i] = k.flaw.at => k.sessions[i] = "HMAC"

\* Is there an error that is found before the state of the context is looked at?
RefusedEarly(k) == k.flaw.kind = "bad" /\ k.flaw.at \in Esys[k.of].async.early
EarlyCalls == {k \in Calls : RefusedEarly(k)}

\* Is there an error that leaves the context as it is during the call?
Latches(k) == k.flaw.kind \in {"unknown", "bad"} /\ k.flaw.at \in Esys[k.of].async.latches

\* Is there an error after which the context is reset?
Rejects(k) ==
    \/ ~check_session_feasibility(k.sessions, Esys[k.of].async.auths)
    \/ k.flaw.kind \in {"unknown", "bad", "session", "auths"} /\ ~Latches(k) /\ ~Dereferences(k)
    \/ k.flaw.kind = "none" /\ k.flaw.at \in Esys[k.of].async.rejects

\* iesys_check_sequence_async; a resubmission that failed has left RESUBMISSION.
Issues(k) ==
    /\ state \in {"INIT", "RESUBMISSION"} /\ ~RefusedEarly(k)
    /\ submissionCount' = 1
    /\ in' = Esys[k.of].async.keeps
    /\ esys' = Unchanged /\ tpm' = Unchanged
    /\ response' = "none"

\* A bug: the context keeps the state it has during the call.
AsyncRejectsLatched(k) ==
    /\ Issues(k) /\ Rejects(k)
    /\ state' = "INTERNALERROR"
    /\ call' = NoCall /\ request' = NoRequest
    /\ ret' = Return("BAD_INPUT")

AsyncRejects(k) ==
    /\ Issues(k) /\ Rejects(k)
    /\ state' = "INIT"
    /\ call' = NoCall /\ request' = NoRequest
    /\ ret' = Return("BAD_INPUT")

AsyncLatches(k) ==
    /\ Issues(k) /\ ~Rejects(k) /\ ~Dereferences(k)
    /\ Latches(k)
    /\ state' = "INTERNALERROR"
    /\ call' = k /\ request' = NoRequest
    /\ ret' = Return("BAD_INPUT")

\* The process ends; the state has been set.
AsyncCrashes(k) ==
    /\ Issues(k) /\ ~Rejects(k)
    /\ Dereferences(k)
    /\ state' = "INTERNALERROR"
    /\ call' = k /\ request' = NoRequest
    /\ ret' = Return("CRASH")

\* Tss2_Sys_ExecuteAsync fails, or the command is sent.
AsyncSends(k) ==
    /\ Issues(k) /\ ~Rejects(k) /\ ~Latches(k) /\ ~Dereferences(k)
    /\ call' = k
    /\ request' = Request(k.of, k.sessions, k.flaw)
    /\ IF k.flaw.kind = "io" THEN state' = "INTERNALERROR" /\ ret' = Return("ERROR")
                             ELSE state' = "SENT" /\ ret' = Return("SUCCESS")

\* The function returns before it has touched the context, whatever its state is.
AsyncRefusesEarly ==
    /\ EarlyCalls # {}
    /\ ret = Taken \/ state \in {"SENT", "INTERNALERROR"}
    /\ ret' = Return("BAD_VALUE")
    /\ UNCHANGED <<state, submissionCount, call, in, request, response, esys, tpm>>

\* A command is pending or the context is broken.
AsyncRefused ==
    /\ state \in {"SENT", "INTERNALERROR"}
    /\ ret' = Return("BAD_SEQUENCE")
    /\ UNCHANGED <<state, submissionCount, call, in, request, response, esys, tpm>>

Async ==
    \/ AsyncRefused \/ AsyncRefusesEarly
    \/ /\ ret = Taken
       /\ \E k \in Calls : AsyncRejects(k) \/ AsyncLatches(k) \/ AsyncCrashes(k) \/ AsyncSends(k)

-----------------------------------------------------------------------------
(* The TPM.                                                                *)

\* The objects without which the TPM does not execute a command; TPM2_RH_NULL is one
\* of the objects where ESYS puts its name for a missing one.
Needed(c) ==
    IF Esys[c].async.nullnamed THEN {}
    ELSE {s.at : s \in {t \in Elements(Esys[c].finish.steps) : t.op \in {"lookup", "close"}}}

TpmChanges(c) ==
    [auth |-> IF c \in DOMAIN AuthSetBy THEN {AuthSetBy[c]} ELSE {},
     closed |-> IF c \in DOMAIN RemovedBy THEN {RemovedBy[c]} ELSE {}]

\* The command is executed, has to be sent again, is refused, or the answer
\* cannot be received.
TpmAnswers ==
    /\ state \in {"SENT", "RESUBMISSION"} /\ call # NoCall /\ response = "none"
    /\ response' \in {"OK", "RETRY", "TPM_ERROR", "BROKEN"}
    /\ response' = "OK" => ~(call.flaw.kind = "none" /\ call.flaw.at \in Needed(call.of))
    /\ tpm' = IF response' = "OK" THEN TpmChanges(call.of) ELSE tpm
    /\ UNCHANGED <<state, submissionCount, call, in, request, ret, esys>>

-----------------------------------------------------------------------------
(* Esys_X_Finish.                                                          *)

Function == Esys[call.of].finish
Steps == Function.steps
ExecuteAt == CHOOSE i \in DOMAIN Steps : Steps[i].op = "execute"

\* What the steps before step k acquired or assigned, and did to the metadata.
\* ESYS creates the new object for a persistent handle in its last step.
Did(steps, k, ops) == {steps[i].at : i \in {j \in DOMAIN steps : j < k /\ steps[j].op \in ops}}
Acquired(steps, k) == Did(steps, k, {"node", "buf", "local"})
Changes(steps, k) == [auth |-> Did(steps, k, {"setauth"}), closed |-> Did(steps, k, {"close"})]

\* Step k of f fails: the function returns, or cleans up and returns.  wild is what is
\* freed although the pointer was never set; a local pointer is NULL at first.
Abandon(f, k, rc) ==
    LET acquired == Acquired(f.steps, k)
        locals == Did(f.steps, Len(f.steps) + 1, {"local"})
        set == acquired \cup f.nulls \cup locals \cup Did(f.steps, k, {"out"}) \cup {f.steps[k].at}
    IN  IF f.steps[k].fail = "cleanup"
        THEN [Return(rc) EXCEPT
                 !.lost = acquired \ f.frees,
                 !.wild = f.frees \ set]
        ELSE [Return(rc) EXCEPT !.lost = acquired]

Finishing == state \in {"SENT", "RESUBMISSION"} /\ call # NoCall

\* The command is over: what is in the SYS buffer is not used any more.
Leaves == request' = NoRequest /\ response' = "none" /\ UNCHANGED call

\* Any step but an assignment can fail.
MayFail(step) == step.op \notin {"execute", "setauth"}

\* A step before the response is fetched: no memory, or a NULL pointer.
FinishCannotStart ==
    /\ Finishing
    /\ \E k \in 1..ExecuteAt - 1 : MayFail(Steps[k]) /\ ret' = Abandon(Function, k, "ERROR")
    /\ state' = "INTERNALERROR"
    /\ Leaves
    /\ UNCHANGED <<submissionCount, in, esys, tpm>>

\* No answer yet.
FinishTriesAgain ==
    /\ Finishing /\ response = "none"
    /\ state' = "SENT"
    /\ ret' = Abandon(Function, ExecuteAt, "TRY_AGAIN")
    /\ esys' = Changes(Steps, ExecuteAt)
    /\ UNCHANGED <<submissionCount, call, in, request, response, tpm>>

\* A bug: one submission too many.
FinishResubmitsLong ==
    /\ Finishing /\ response = "RETRY"
    /\ submissionCount' = submissionCount + 1
    /\ IF submissionCount > ESYS_MAX_SUBMISSIONS
       THEN state' = "INIT" /\ ret' = Abandon(Function, ExecuteAt, "TPM_ERROR") /\ Leaves
       ELSE /\ state' = Function.resubmits
            /\ ret' = Abandon(Function, ExecuteAt, "TRY_AGAIN") /\ response' = "none"
            /\ UNCHANGED <<call, request>>
    /\ esys' = Changes(Steps, ExecuteAt)
    /\ UNCHANGED <<in, tpm>>

\* RETRY, TESTING or YIELDED: the command is given up, or sent again; if that
\* fails there is nothing to be received.
FinishResubmits ==
    /\ Finishing /\ response = "RETRY"
    /\ submissionCount' = submissionCount + 1
    /\ IF submissionCount >= ESYS_MAX_SUBMISSIONS
       THEN state' = "INIT" /\ ret' = Abandon(Function, ExecuteAt, "TPM_ERROR") /\ Leaves
       ELSE /\ state' = Function.resubmits
            /\ \/ ret' = Abandon(Function, ExecuteAt, "TRY_AGAIN") /\ response' = "none"
               \/ ret' = Abandon(Function, ExecuteAt, "ERROR") /\ response' = "BROKEN"
            /\ UNCHANGED <<call, request>>
    /\ esys' = Changes(Steps, ExecuteAt)
    /\ UNCHANGED <<in, tpm>>

\* Every other error of the TPM.  TPM2_RC_INITIALIZE may mean success.
FinishTpmError ==
    /\ Finishing /\ response = "TPM_ERROR"
    /\ state' = "INIT"
    /\ \/ ret' = Abandon(Function, ExecuteAt, "TPM_ERROR")
       \/ Function.tolerates /\ ret' = Return("SUCCESS")
    /\ Leaves
    /\ esys' = Changes(Steps, ExecuteAt)
    /\ UNCHANGED <<submissionCount, in, tpm>>

FinishIoError ==
    /\ Finishing /\ response = "BROKEN"
    /\ state' = "INTERNALERROR"
    /\ ret' = Abandon(Function, ExecuteAt, "ERROR")
    /\ Leaves
    /\ esys' = Changes(Steps, ExecuteAt)
    /\ UNCHANGED <<submissionCount, in, tpm>>

\* A step with the response fails.
FinishFails ==
    /\ Finishing /\ response = "OK"
    /\ \E k \in ExecuteAt + 1..Len(Steps) :
          /\ MayFail(Steps[k])
          /\ state' = IF Steps[k].fail = "init" THEN "INIT" ELSE "INTERNALERROR"
          /\ ret' = Abandon(Function, k, "ERROR")
          /\ esys' = Changes(Steps, k)
    /\ Leaves
    /\ UNCHANGED <<submissionCount, in, tpm>>

FinishDelivers ==
    /\ Finishing /\ response = "OK"
    /\ state' = "INIT"
    /\ ret' = [Return("SUCCESS") EXCEPT !.given = Acquired(Steps, Len(Steps) + 1),
                                        !.misread = Misread(Sys[call.of].complete, NumHandles[call.of][2], request.auths # {})]
    /\ esys' = Changes(Steps, Len(Steps) + 1)
    /\ Leaves
    /\ UNCHANGED <<submissionCount, in, tpm>>

FinishRefused ==
    /\ state \notin {"SENT", "RESUBMISSION"} /\ ret # Taken
    /\ ret' = Return("BAD_SEQUENCE")
    /\ UNCHANGED <<state, submissionCount, call, in, request, response, esys, tpm>>

Finish ==
    \/ FinishRefused \/ FinishCannotStart \/ FinishTriesAgain \/ FinishResubmits \/ FinishTpmError
    \/ FinishIoError \/ FinishFails \/ FinishDelivers

-----------------------------------------------------------------------------
(* Tss2_Sys_X, for an application that uses the SAPI: checks, Prepare,     *)
(* CommonOneCall and Complete.  Its SYS context is not the one of ESYS.    *)

\* A NULL pointer is refused; the TPM fails; or the outputs are read.
SysOneCall(c) ==
    /\ \/ /\ Sys[c].needs \cup Pointers(c) # {}
          /\ ret' = Return("ERROR")
       \/ ret' = Return("TPM_ERROR")
       \/ \E authorized \in {FALSE, Sys[c].auths} :
             ret' = [Return("SUCCESS") EXCEPT
                        !.misread = Misread(Sys[c].complete, NumHandles[c][2], authorized)]
    /\ call' = [NoCall EXCEPT !.of = c]
    /\ esys' = Unchanged /\ tpm' = Unchanged
    /\ UNCHANGED <<state, submissionCount, in, request, response>>

-----------------------------------------------------------------------------

\* Esys_Finalize and Esys_Initialize, the way out of INTERNALERROR.
Restart ==
    /\ state = "INTERNALERROR"
    /\ state' = "INIT" /\ submissionCount' = 0
    /\ call' = NoCall /\ in' = FALSE
    /\ request' = NoRequest /\ response' = "none"
    /\ ret' = Taken
    /\ esys' = Unchanged /\ tpm' = Unchanged

\* The application has its result, or an error, and goes on to something else.
Take ==
    /\ state \in {"INIT", "RESUBMISSION"} /\ ret.rc \notin {"TRY_AGAIN", "none"}
    /\ ret' = Taken
    /\ call' = NoCall /\ request' = NoRequest /\ response' = "none"
    /\ esys' = Unchanged /\ tpm' = Unchanged
    /\ UNCHANGED <<state, submissionCount, in>>

Next ==
    \/ Async \/ TpmAnswers \/ Finish \/ Restart \/ Take
    \/ state = "INIT" /\ ret = Taken /\ \E c \in Commands : SysOneCall(c)

Spec == Init /\ [][Next]_vars

-----------------------------------------------------------------------------
(* Properties.                                                             *)

\* The commands whose code does not have a property, named for what they do
\* instead; the README has the details.
LatchesState == {"AC_GetCapability", "AC_Send", "ContextLoad", "CreateLoaded"}
UsesNull ==
    {"AC_Send", "Create", "CreateLoaded", "CreatePrimary", "GetCommandAuditDigest",
     "GetSessionAuditDigest", "GetTime"}
HashesOtherNames == {"AC_GetCapability", "AC_Send", "SignSequenceStart"}
ReadsHandleLate == {"SignSequenceStart", "VerifySequenceStart"}
LeavesBehind == {"StartAuthSession", "ECC_Encrypt"}
FreesUnset == {"CertifyX509", "CreatePrimary"}
ForgetsAuth == {"ChangeEPS", "Clear", "HashSequenceStart"}
LeavesOpen == {"EventSequenceComplete", "SignSequenceComplete", "VerifySequenceComplete"}

\* Every variable has its type; submissionCount exceeds ESYS_MAX_SUBMISSIONS only
\* when the command has been given up.
TypeOK ==
    /\ state \in {"INIT", "SENT", "RESUBMISSION", "INTERNALERROR"}
    /\ submissionCount \in 0..ESYS_MAX_SUBMISSIONS + 1
    /\ state \in {"SENT", "RESUBMISSION"} => submissionCount <= ESYS_MAX_SUBMISSIONS
    /\ \/ call = NoCall
       \/ call.of \in Commands /\ call.sessions \in Sessions(call.of)
    /\ in \in BOOLEAN
    /\ response \in {"none", "OK", "RETRY", "TPM_ERROR", "BROKEN"}
    /\ ret.rc \in {"none", "SUCCESS", "BAD_SEQUENCE", "BAD_INPUT", "BAD_VALUE", "TRY_AGAIN", "TPM_ERROR",
                  "ERROR", "CRASH"}

\* A call that an Async function refuses for its inputs leaves the context ready
\* for the next command: every such error passes through return_state_if_error
\* with ESYS_STATE_INIT.
BadInputHarmless ==
    ret.rc = "BAD_INPUT" /\ state # "INIT" =>
        call.of \in LatchesState

Sent == state \in {"SENT", "RESUBMISSION"} /\ request # NoRequest
AllObjects == call.flaw.kind # "none"

\* The names ESYS puts into the cpHash of a session are those of the handles that
\* SYS leaves out of it, in the same order: the TPM computes the same hash.
NamesMatchHandles ==
    Sent /\ HasHmac(call.sessions) /\ AllObjects /\ request.names # request.handles =>
        call.of \in HashesOtherNames

\* An HMAC is at the place of the list from which it is sent, although iesys_gen_auths
\* writes it by the number of the session and the handle by the number of authorizations.
HmacInPlace == Sent => \A a \in request.auths : a.written = a.place

Gapless(s) == \A i, j \in 1..3 : i < j /\ s[j] # "NONE" => s[i] # "NONE"

\* The authorization at each place that needs one is for the handle at this place
\* and made with the authorization value of its object.
AuthorizesOwnHandle ==
    Sent /\ AllObjects /\ Gapless(call.sessions) =>
        \A a \in request.auths :
            a.place <= Esys[call.of].async.auths =>
                a.object = request.handles[a.place] /\ a.handle # "undefined"

ResponseParams(c) ==
    LET fields == Sys[c].complete.before \o Sys[c].complete.after
    IN  SubSeq(fields, NumHandles[c][2] + 1, Len(fields))

\* What a session encrypts is a TPM2B, and a first parameter that is a TPM2B is
\* encrypted if the application asks for it, in the command and in the response.
EncryptsTpm2b ==
    Sent /\ HasHmac(call.sessions) =>
        /\ request.encrypted <=> request.params # <<>> /\ request.params[1].sized
        /\ "encrypt" \in Sys[call.of].prepare.allowed <=>
              ResponseParams(call.of) # <<>> /\ ResponseParams(call.of)[1].sized

\* Every output the application gets is the one the TPM sent for it.
OutputsInPlace == ret.misread # {} => call.of \in ReadsHandleLate

\* Whatever step of Finish fails, what it acquired is released: no buffer and no
\* ESYS_TR is left that nobody knows of.
NothingLeftBehind == ret.lost # {} => call.of \in LeavesBehind

\* Finish frees only what it has set, whatever step fails.
FreesOwn == ret.wild # {} => call.of \in FreesUnset

\* No input makes an Async function use a NULL pointer.
NoNullDereference == ret.rc = "CRASH" => call.of \in UsesNull

\* Finish reads from esysContext->in only what this command's Async function put
\* there ("The input parameters of a command need to be stored if they are needed
\* in corresponding _Finish() function", esys_int.h).
UsesInputs(steps) ==
    \E i \in DOMAIN steps :
        steps[i].op \in {"lookup", "close", "setauth", "replace", "rename", "derive", "compare", "convert"}
InputsKept == Sent /\ ~in => ~UsesInputs(Steps)

\* When the context is ready again, ESYS and the TPM agree on authorization values.
AuthFollowsTpm ==
    state = "INIT" /\ esys.auth # tpm.auth => call.of \in ForgetsAuth

\* ESYS closes the ESYS_TR of an object that a successful command removed.
RemovedAreClosed ==
    /\ esys.closed \subseteq tpm.closed
    /\ state = "INIT" /\ ret.rc = "SUCCESS" /\ esys.closed # tpm.closed => call.of \in LeavesOpen

\* The parts above, as they are checked.

\* Whatever is wrong with the inputs of a call, it is refused and the context can
\* be used further (return_state_if_error and the tests for NULL in Esys_X_Async).
InputsHarmless == BadInputHarmless /\ NoNullDereference

\* The handles, names, authorizations and encryption of a command belong together
\* (Esys_X_Async with Tss2_Sys_X_Prepare).
RequestConsistent == NamesMatchHandles /\ AuthorizesOwnHandle /\ EncryptsTpm2b

\* Esys_X_Finish works on the inputs and on the response of its own command.
FinishReadsOwn == OutputsInPlace /\ InputsKept

\* The error paths of Esys_X_Finish release what it acquired, once.
FinishCleansUp == NothingLeftBehind /\ FreesOwn

\* The metadata of ESYS follows the TPM through every answer and every error.
MetadataFollowsTpm == AuthFollowsTpm /\ RemovedAreClosed

-----------------------------------------------------------------------------
(* The rules that the functions of a command follow, each by itself, for   *)
(* the properties to hold in every behaviour: what CommandStackProofs      *)
(* derives the properties from.                                            *)

\* Esys_X_Async resets the state on every error and tests what it uses.
InputRule(c) ==
    /\ Esys[c].async.latches # {} => c \in LatchesState
    /\ Esys[c].async.derefs # {} => c \in UsesNull

\* A command with sessions names its handles to ESYS in the order in which SYS
\* marshals them, the first of them are those whose authorization value is used, and
\* SYS allows encryption if and only if the first parameter is a TPM2B.
RequestRule(c) ==
    LET a == Esys[c].async IN
    /\ a.sessions /\ c \notin HashesOtherNames => a.named = Handles(c)
    /\ Len(a.named) <= 3
    /\ \A i \in DOMAIN a.named : a.named[i] # "NULL"
    /\ \A i \in 1..a.auths :
          /\ i \in DOMAIN a.bound /\ i \in DOMAIN a.named
          /\ a.bound[i] = Handles(c)[i] /\ a.named[i] = Handles(c)[i]
    /\ a.sessions =>
          /\ "decrypt" \in Sys[c].prepare.allowed <=> Params(c) # <<>> /\ Params(c)[1].sized
          /\ "encrypt" \in Sys[c].prepare.allowed <=>
                ResponseParams(c) # <<>> /\ ResponseParams(c)[1].sized

\* Tss2_Sys_X_Complete reads as many fields before CommonComplete as the response
\* has handles, and Esys_X_Async stores its inputs if Esys_X_Finish uses them.
ReadRule(c) ==
    /\ c \notin ReadsHandleLate => Len(Sys[c].complete.before) = NumHandles[c][2]
    /\ UsesInputs(Esys[c].finish.steps) => Esys[c].async.keeps

\* One of the steps of Esys_X_Finish fetches the response.
StepsRule(steps) ==
    /\ \E i \in DOMAIN steps : steps[i].op = "execute"
    /\ \A i \in DOMAIN steps : steps[i].op = "execute" => steps[i].fail = "cleanup"

\* From the first acquisition on every error passes through error_cleanup, which
\* frees whatever the function acquires; what it frees is NULL at first or has been
\* set when the first step fails that leads there.
CleanupRule(c) ==
    LET f == Esys[c].finish
        steps == f.steps
    IN  /\ StepsRule(steps)
        /\ c \notin LeavesBehind =>
              \A k \in DOMAIN steps :
                  MayFail(steps[k]) /\ steps[k].fail # "cleanup" => Acquired(steps, k) = {}
        /\ Acquired(steps, Len(steps) + 1) \subseteq f.frees
        /\ c \notin FreesUnset =>
              \A k \in DOMAIN steps : \A p \in f.frees :
                  steps[k].fail = "cleanup" =>
                      \/ p \in f.nulls
                      \/ \E i \in DOMAIN steps :
                            /\ steps[i].at = p
                            /\ \/ steps[i].op = "local"
                               \/ i <= k /\ steps[i].op \in {"node", "buf", "out"}

\* Esys_X_Finish changes the metadata after it has the response, sets and closes what
\* the TPM did, and does not return to INIT on an error once an authorization value
\* is another one.
MetadataRule(c) ==
    LET steps == Esys[c].finish.steps
        done == Changes(steps, Len(steps) + 1)
    IN  /\ StepsRule(steps)
        /\ \A i, j \in DOMAIN steps :
              steps[i].op \in {"setauth", "close"} /\ steps[j].op = "execute" => j < i
        /\ c \in DOMAIN AuthSetBy => \A i \in DOMAIN steps : steps[i].fail # "init"
        /\ done.auth # TpmChanges(c).auth => c \in ForgetsAuth
        /\ done.closed \subseteq TpmChanges(c).closed
        /\ done.closed # TpmChanges(c).closed => c \in LeavesOpen

\* The functions of the command that is processed (src/tss2-esys/api, src/tss2-sys/api)
\* follow the rules, but for those that are named; what the properties promise of all
\* behaviours comes down to this (see CommandStackProofs).
TablesConsistent ==
    call # NoCall =>
        LET c == call.of IN
        InputRule(c) /\ RequestRule(c) /\ ReadRule(c) /\ CleanupRule(c) /\ MetadataRule(c)

=============================================================================
