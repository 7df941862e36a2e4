-------------------------- MODULE PolicyExecution ---------------------------
(***************************************************************************)
(* The execution of a policy when FAPI authorizes an object: the stack of  *)
(* policies that execute one another (ifapi_policyutil_execute.c), the     *)
(* callbacks that start a policy within a policy                           *)
(* (ifapi_policy_callbacks.c, ifapi_authorize_object) and the sessions and *)
(* keys it takes in the TPM.  PolicyElements has the single elements.      *)
(*                                                                         *)
(* FAPI is called again and again until it does not return TRY_AGAIN; each *)
(* call goes down the stack to the policy it left, by the pointer          *)
(* util_current_policy, and up again.  frames are the levels whose         *)
(* ifapi_policyutil_execute is active, so frames = <<>> between calls.     *)
(*                                                                         *)
(* Bounds: a callback or a command fails at most MaxFaults times, and is   *)
(* not ready at most MaxWaits times; the object is authorized at most      *)
(* MaxRuns times.  Objects have no persistent handle, and the parents of a *)
(* key that is loaded have no policy.                                      *)
(***************************************************************************)
EXTENDS PolicyTpm, SequencesExt

CONSTANTS
    Policies,    \* policies of the object that is authorized
    Lists,       \* of each policy: the lists compute_policy_list can make of it
    MaxFaults, MaxWaits, MaxRuns

Callbacks == {"build", "sign", "read", "read_nv", "load_key", "search", "action"}
Commands == {"LoadExternal", "VerifySignature", "Policy", "FlushContext", "NV_Read"}
StepNames == Callbacks \union Commands \union {"sub", "authorize", "authorize_nv"}

\* An index that the platform or the owner may read ("nvOwner") is authorized by
\* that hierarchy, the platform first.
get_nv_auth_object(o) == IF o.kind = "nvOwner" THEN [kind |-> "hierarchy", policy |-> <<>>] ELSE o

Items == UNION {Range(l) : l \in UNION Range(Lists)}

ASSUME ExecutionAssumption ==
    /\ MaxFaults \in Nat /\ MaxWaits \in Nat /\ MaxRuns \in Nat \ {0}
    /\ Policies \subseteq DOMAIN Lists
    /\ \A p \in DOMAIN Lists : Lists[p] \subseteq Seq(Items)

\* What PolicyElements makes of an element: it has steps, a key is loaded right before
\* it is authorized (ifapi_policyeval_cbauth), and the policies it executes are known.
ASSUME ItemAssumption ==
    \A x \in Items :
        /\ x.run.steps \in Seq(StepNames) /\ x.run.steps # <<>>
        /\ \A i \in DOMAIN x.run.steps :
            /\ x.run.steps[i] = "sub" => x.element.sub \in DOMAIN Lists
            /\ x.run.steps[i] \in {"authorize", "authorize_nv"} =>
                  /\ x.element.object.kind \in {"hierarchy", "key", "nv", "nvOwner"}
                  /\ get_nv_auth_object(x.element.object).policy \in DOMAIN Lists \union {<<>>}
            /\ x.run.steps[i] = "authorize" /\ x.element.object.kind = "key" =>
                  i > 1 /\ x.run.steps[i - 1] = "load_key"

\* Steps that load a key, and whether one comes before step i of an element.
Loaders == {"load_key", "LoadExternal"}
LoadedBefore(x, i) == \E j \in 1 .. i - 1 : x.run.steps[j] \in Loaders

\* The order of the steps: an approved policy is searched and then executed, once; an
\* authorization is for the command that follows; and the key of a PolicySigned,
\* PolicySecret or PolicyAuthorize is used by commands, of which the last flushes it.
StepsInOrder(x) ==
    LET s == x.run.steps
        type == x.element.type
        Follows(i, step) == i < Len(s) /\ s[i + 1] = step
    IN /\ x.run.owned = IF type = "POLICYSECRET" THEN "auth" ELSE "object"
       /\ \A i \in DOMAIN s :
            /\ s[i] = "sign" => type = "POLICYSIGNED"
            /\ s[i] = "search" => Follows(i, "sub")
            /\ s[i] = "sub" => type \in {"POLICYAUTHORIZE", "POLICYAUTHORIZENV"}
            /\ s[i] \in {"read_nv", "authorize_nv", "NV_Read", "search", "sub"} =>
                  \A j \in 1 .. i - 1 : s[j] # "sub"
            /\ s[i] = "authorize" => Follows(i, "Policy")
            /\ s[i] = "authorize_nv" => Follows(i, "NV_Read")
            /\ s[i] = "load_key" => /\ type \in {"POLICYSECRET", "POLICYSIGNED"}
                                   /\ x.element.object.kind = "key" /\ Follows(i, "authorize")
            /\ s[i] = "LoadExternal" => type # "POLICYSECRET"
            /\ s[i] \in Loaders => s[Len(s)] = "FlushContext"
            /\ s[i] = "FlushContext" => i = Len(s)
            /\ LoadedBefore(x, i) => s[i] \in Commands \ Loaders \/ s[i - 1] = "load_key"

\* These are left by return, not by goto cleanup, while a key is loaded.
Unflushed ==
    {<<"POLICYSIGNED", s, "finished">> : s \in {"Policy", "FlushContext"}}
    \union {<<"POLICYAUTHORIZE", s, "finished">> : s \in {"VerifySignature", "Policy", "FlushContext"}}
    \union {<<"POLICYSECRET", "FlushContext", "finished">>, <<"POLICYSIGNED", "authorize", "called">>}

\* Every other failure after a key was loaded goes through the clean-up.
Failures(step) == IF step \in Commands THEN {"sent", "finished"} ELSE {"called"}
CleanedUp(x) ==
    \A i \in DOMAIN x.run.steps :
        LoadedBefore(x, i) =>
            \A how \in Failures(x.run.steps[i]) :
                \/ <<x.run.steps[i], how>> \in x.run.cleanup
                \/ <<x.element.type, x.run.steps[i], how>> \in Unflushed

ASSUME OrderAssumption == \A x \in Items : StepsInOrder(x) /\ CleanedUp(x)

VARIABLES
    policy,    \* the policy of the object
    stack,     \* policyutil_stack: the policies being executed, outermost first
    cur,       \* util_current_policy, a level, 0 for NULL
    frames,    \* the calls of ifapi_policyutil_execute, outermost first
    create,    \* create_session_state
    pending,   \* what ESYS has sent and not finished
    sessions,  \* the policy sessions of the TPM, in the order they were started
    keys,      \* how many keys are loaded
    session2,  \* the session that encrypts parameters
    rc,        \* how the authorization stands
    result,    \* the session it returned
    err,       \* how the innermost active step failed
    at,        \* where the first failure arose (history)
    faults, waits, runs

vars == <<policy, stack, cur, frames, create, pending, sessions, keys, session2,
          rc, result, err, at, faults, waits, runs>>

Dangling == -1
None == 0
Nowhere == <<"nowhere">>

NewContext(list) ==
    [list |-> list, step |-> 1, sent |-> FALSE, nested |-> FALSE, ready |-> FALSE,
     session |-> None, own |-> None, auth |-> None, object |-> "none", handle |-> "none",
     flush |-> FALSE, found |-> "null", buffer |-> "none"]

Init ==
    /\ policy \in Policies
    /\ stack = <<>> /\ cur = 0 /\ frames = <<>>
    /\ create = "INIT" /\ pending = "none"
    /\ sessions = <<>> /\ keys = 0 /\ session2 = "session1"
    /\ rc = "idle" /\ result = None /\ err = "none" /\ at = Nowhere
    /\ faults = 0 /\ waits = 0 /\ runs = 0

Level == Last(frames)
Top == stack[Level]
Item == Head(Top.list)
Type == Item.element.type
Step == Item.run.steps[Top.step]
Object == Item.element.object
Update(c) == stack' = [stack EXCEPT ![Level] = c]

Executing == rc = "running" /\ err = "none"
InElement == Executing /\ frames # <<>> /\ Top.ready /\ Top.list # <<>> /\ ~Top.nested

\* After its last step an element leaves the list.  PolicySecret flushes only
\* what flush_handle says.
Advance(c) ==
    LET steps == Head(c.list).run.steps
        done == \/ c.step = Len(steps)
                \/ Head(c.list).element.type = "POLICYSECRET" /\ steps[c.step] = "Policy" /\ ~c.flush
    IN [c EXCEPT !.sent = FALSE, !.nested = FALSE,
                 !.step = IF done THEN 1 ELSE @ + 1,
                 !.list = IF done THEN Tail(@) ELSE @]

\* A failure, of the environment or of the code's own making.
Fault == faults < MaxFaults /\ faults' = faults + 1
FailsAt(place, how) ==
    /\ err' = how
    /\ at' = IF at = Nowhere THEN place ELSE at
Fails(how) == FailsAt(<<Type, Step, how>>, how)

\* A bug: only the innermost frame steps back.
TryAgainInnermost == frames' = <<>> /\ cur' = Level - 1
\* TRY_AGAIN leaves every frame, and each of them sets util_current_policy to the
\* context before its own.
TryAgain == frames' = <<>> /\ cur' = Head(frames) - 1

Wait == waits < MaxWaits /\ waits' = waits + 1

-----------------------------------------------------------------------------
(* Starting a policy: ifapi_policyutil_execute_prepare puts a context      *)
(* behind the current one, and its caller makes the one before it current  *)
(* again.  When a branch cannot be selected the context is freed, and      *)
(* stays the current one.                                                  *)

new_policy(list) == Append(SubSeq(stack, 1, cur), NewContext(list))
Selects(p) == \E i \in DOMAIN p : p[i].type = "POLICYOR"

\* ifapi_authorize_object, called by a Fapi function.
Begin ==
    /\ rc \in {"idle", "done", "failed"} /\ runs < MaxRuns /\ runs' = runs + 1
    /\ sessions' = <<>> /\ keys' = 0 /\ result' = None /\ at' = Nowhere
    /\ \E list \in Lists[policy] :
        /\ stack' = <<NewContext(list)>> /\ cur' = 0
        /\ session2' = "session1" /\ rc' = "running"
    /\ UNCHANGED <<policy, frames, create, pending, err, faults, waits>>

BeginUnselected ==
    /\ rc \in {"idle", "done", "failed"} /\ runs < MaxRuns /\ runs' = runs + 1
    /\ Selects(policy) /\ Fault
    /\ sessions' = <<>> /\ keys' = 0 /\ result' = None
    /\ cur' = Dangling /\ rc' = "failed" /\ at' = <<"POLICYOR", "select", "called">>
    /\ UNCHANGED <<policy, stack, frames, create, pending, session2, err, waits>>

\* The beginning of ifapi_policyutil_execute.
Enter ==
    /\ Executing /\ (frames # <<>> => Top.nested)
    /\ LET next == IF cur < Len(stack) THEN cur + 1 ELSE 0 IN
        /\ cur' = next
        /\ frames' = IF next = 0 THEN frames ELSE Append(frames, next)
        /\ IF next = 0 THEN FailsAt(<<"no policy", "enter", "called">>, "called") ELSE UNCHANGED <<err, at>>
    /\ UNCHANGED <<policy, stack, create, pending, sessions, keys, session2, rc, result, faults, waits, runs>>

Unready == Executing /\ frames # <<>> /\ ~Top.nested /\ ~Top.ready
GetsSession == Level > 1 /\ LET p == stack[Level - 1] IN Head(p.list).run.steps[p.step] = "sub"

\* A policy that is executed for another one uses its session.
UseSession ==
    /\ Unready /\ GetsSession
    /\ Update([Top EXCEPT !.ready = TRUE, !.session = stack[Level - 1].session])
    /\ UNCHANGED <<policy, cur, frames, create, pending, sessions, keys, session2, rc, result, err, at, faults, waits, runs>>

\* Any other policy gets one of its own.
create_session_send ==
    /\ Unready /\ ~GetsSession /\ create = "INIT"
    /\ IF pending = "none"
       THEN pending' = "session" /\ create' = "WAIT" /\ TryAgain /\ UNCHANGED <<err, at>>
       ELSE FailsAt(<<"session", "create", "refused">>, "create") /\ UNCHANGED <<pending, create, frames, cur>>
    /\ UNCHANGED <<policy, stack, sessions, keys, session2, rc, result, faults, waits, runs>>

create_session_finish ==
    /\ Unready /\ ~GetsSession /\ create = "WAIT"
    /\ create' = "INIT" /\ pending' = "none"
    /\ \/ /\ sessions' = Append(sessions, [digest |-> Zero, live |-> TRUE, flushes |-> 0, used |-> FALSE])
          /\ Update([Top EXCEPT !.ready = TRUE, !.session = Len(sessions'), !.own = Len(sessions')])
          /\ UNCHANGED <<err, at, faults>>
       \/ /\ Fault /\ FailsAt(<<"session", "create", "finished">>, "create")
          /\ UNCHANGED <<sessions, stack>>
    /\ UNCHANGED <<policy, cur, frames, keys, session2, rc, result, waits, runs>>

\* ESYS returns TRY_AGAIN with its own layer or that of the TCTI, which is not
\* the value create_session compares with.
create_session_wait ==
    /\ Unready /\ ~GetsSession /\ create = "WAIT"
    /\ Wait /\ TryAgain /\ create' = "INIT"
    /\ UNCHANGED <<policy, stack, pending, sessions, keys, session2, rc, result, err, at, faults, runs>>

-----------------------------------------------------------------------------
(* The callbacks.                                                          *)

\* What a callback does to its context when it is done.
Built(c) == [c EXCEPT !.buffer = "set", !.object = "none", !.flush = FALSE]
Signed(c) == [c EXCEPT !.buffer = "freed"]
\* A bug: flush_handle is not set.
LoadedUnnoted(c) == [c EXCEPT !.handle = "key"]
Loaded(c) == [c EXCEPT !.flush = TRUE, !.handle = "key"]
\* A bug: policy_list is not reset before a PolicyAuthorize searches.
FoundBeforeReset(c) == [c EXCEPT !.found = IF @ = "null" THEN "list" ELSE "broken"]
Found(c) ==
    IF Head(c.list).element.type = "POLICYAUTHORIZE" THEN [c EXCEPT !.found = "list", !.object = "none"]
    ELSE [c EXCEPT !.found = IF @ = "null" THEN "list" ELSE "broken"]

Callback ==
    /\ InElement /\ Step \in Callbacks
    /\ Step = "sign" => Top.buffer = "set"
    /\ \/ /\ Update(Advance(CASE Step = "build" -> Built(Top)
                              [] Step = "sign" -> Signed(Top)
                              [] Step = "load_key" -> Loaded(Top)
                              [] Step = "search" -> Found(Top)
                              [] OTHER -> Top))
          /\ keys' = IF Step = "load_key" THEN keys + 1 ELSE keys
          /\ session2' = IF Step = "load_key" THEN "NONE" ELSE session2
          /\ UNCHANGED <<err, at, faults>>
       \/ Fault /\ Fails("called") /\ UNCHANGED <<stack, keys, session2>>
    /\ UNCHANGED <<policy, cur, frames, create, pending, sessions, rc, result, waits, runs>>

\* The buffer that is signed is freed before the result is looked at.
CallbackWaits ==
    /\ InElement /\ Step \in Callbacks \ {"build"}
    /\ Step = "sign" => Top.buffer = "set"
    /\ Wait /\ TryAgain
    /\ IF Step = "sign" THEN Update(Signed(Top)) ELSE UNCHANGED stack
    /\ UNCHANGED <<policy, create, pending, sessions, keys, session2, rc, result, err, at, faults, runs>>

SignsNothing ==
    /\ InElement /\ Step = "sign" /\ Top.buffer # "set"
    /\ rc' = "crashed" /\ at' = <<Type, Step, "freed">>
    /\ UNCHANGED <<policy, stack, cur, frames, create, pending, sessions, keys, session2, result, err, faults, waits, runs>>

-----------------------------------------------------------------------------
(* Authorizations within a policy, and policies a policy executes.         *)

AuthPolicy == IF Step = "sub" THEN Item.element.sub ELSE get_nv_auth_object(Object).policy

NeedsPolicy == Step \in {"sub", "authorize", "authorize_nv"} /\ (Step # "sub" => AuthPolicy # <<>>)

\* *object_handle and *auth_handle of ifapi_policyeval_cbauth.
Handles(c) ==
    LET o == Head(c.list).element.object IN
    [c EXCEPT !.object = IF o.kind = "nvOwner" THEN "nv" ELSE o.kind,
              !.handle = get_nv_auth_object(o).kind]
Authorized(c, session) ==
    LET n == IF Head(c.list).run.steps[c.step] = "authorize" THEN Handles(c) ELSE c
    IN Advance([n EXCEPT !.auth = session])

\* Without a policy the session of the Fapi function, or the password, will do.
AuthorizeByValue ==
    /\ InElement /\ Step \in {"authorize", "authorize_nv"} /\ AuthPolicy = <<>>
    /\ \/ /\ Update(Authorized(Top, None)) /\ session2' = "NONE"
          /\ UNCHANGED <<err, at, faults>>
       \/ Fault /\ Fails("called") /\ UNCHANGED <<stack, session2>>
    /\ UNCHANGED <<policy, cur, frames, create, pending, sessions, keys, rc, result, waits, runs>>

Nest ==
    /\ InElement /\ NeedsPolicy
    /\ \E list \in Lists[AuthPolicy] :
        stack' = [new_policy(list) EXCEPT ![Level].nested = TRUE]
    /\ session2' = IF Step = "sub" THEN session2 ELSE "session1"
    /\ UNCHANGED <<policy, cur, frames, create, pending, sessions, keys, rc, result, err, at, faults, waits, runs>>

\* ifapi_exec_auth_policy goes on to read the context that was freed.
NestUnselected ==
    /\ InElement /\ NeedsPolicy
    /\ Selects(AuthPolicy) /\ Fault
    /\ FailsAt(<<"POLICYOR", "select", "called">>, "called")
    /\ cur' = Dangling
    /\ rc' = IF Type = "POLICYAUTHORIZE" THEN "crashed" ELSE rc
    /\ UNCHANGED <<policy, stack, frames, create, pending, sessions, keys, session2, result, waits, runs>>

\* The list of policies is freed when the one that was executed is done; only
\* ifapi_exec_auth_policy forgets it.
Executed(c) ==
    Advance([c EXCEPT !.found = IF Head(c.list).element.type = "POLICYAUTHORIZE" THEN "null" ELSE "freed"])

\* A bug: util_current_policy stays at the context that is freed.
PreviousKept == cur
\* The context below becomes the current one.
Previous == Level - 1
ClearCurrent == IF cur = 0 THEN stack ELSE SubSeq(stack, 1, cur - 1)

\* ifapi_policyutil_execute is through with its policy.
Return ==
    /\ Executing /\ frames # <<>> /\ Top.ready /\ Top.list = <<>>
    /\ cur' = Previous /\ frames' = Front(frames)
    /\ IF Level = 1
       THEN /\ stack' = ClearCurrent /\ rc' = "done" /\ result' = Top.own
       ELSE LET p == stack[Level - 1]
                sub == Head(p.list).run.steps[p.step] = "sub"
                broken == sub /\ p.found = "broken"
            IN /\ stack' = [ClearCurrent EXCEPT ![Level - 1] = IF sub THEN Executed(p) ELSE Authorized(p, Top.own)]
               /\ rc' = IF broken THEN "crashed" ELSE rc
               /\ UNCHANGED result
    /\ UNCHANGED <<policy, create, pending, sessions, keys, session2, err, at, faults, waits, runs>>

\* ifapi_set_auth fails: the authorization value that the session still needs
\* cannot be had, and the session is flushed.  The two calls before it return
\* without that; they fail only for an unknown session or without memory.
ReturnWithoutAuth ==
    /\ Executing /\ frames # <<>> /\ Top.ready /\ Top.list = <<>> /\ ~GetsSession
    /\ Fault /\ FailsAt(<<"session", "auth", "called">>, IF Level = 1 THEN "none" ELSE "called")
    /\ stack' = ClearCurrent /\ cur' = Level - 1 /\ frames' = Front(frames)
    /\ sessions' = [sessions EXCEPT ![Top.own].live = FALSE, ![Top.own].flushes = @ + 1]
    /\ rc' = IF Level = 1 THEN "failed" ELSE rc
    /\ UNCHANGED <<policy, create, pending, keys, session2, result, waits, runs>>

-----------------------------------------------------------------------------
(* The commands.                                                           *)

Send ==
    /\ InElement /\ Step \in Commands /\ ~Top.sent
    /\ \/ /\ Update([Top EXCEPT !.sent = TRUE]) /\ pending' = "command"
          /\ UNCHANGED <<err, at, faults>>
       \/ Fault /\ Fails("sent") /\ UNCHANGED <<stack, pending>>
    /\ UNCHANGED <<policy, cur, frames, create, sessions, keys, session2, rc, result, waits, runs>>

SendWaits ==
    /\ InElement /\ Step \in Commands /\ Top.sent
    /\ Wait /\ TryAgain
    /\ UNCHANGED <<policy, stack, create, pending, sessions, keys, session2, rc, result, err, at, faults, runs>>

Owned(c) == IF Head(c.list).run.owned = "object" THEN c.object ELSE c.handle
\* Only one of object_handle and auth_handle is reset when the key of both is flushed.
Stale(h) == IF h = "key" THEN "closed" ELSE h
Disowned(c) ==
    IF Head(c.list).run.owned = "object"
    THEN [c EXCEPT !.object = "none", !.handle = Stale(@)]
    ELSE [c EXCEPT !.handle = "none", !.object = Stale(@)]

\* The TPM does not flush what is not loaded, takes no hierarchy for the index of
\* a PolicyNV, and checks digests.
Accepted ==
    CASE Step = "FlushContext" -> Owned(Top) = "key"
      [] Step = "Policy" -> /\ TpmAccepts(Item.run.command, sessions[Top.session].digest)
                            /\ Type = "POLICYNV" => Top.handle = "nv"
      [] OTHER -> TRUE

\* The session that authorized the command ends with it; PolicySigned is not
\* authorized by a session.
UsesAuth == Step \in {"Policy", "NV_Read"} /\ Type # "POLICYSIGNED" /\ Top.auth # None
Ended(ss) == IF UsesAuth THEN [ss EXCEPT ![Top.auth].live = FALSE, ![Top.auth].used = TRUE] ELSE ss
Extended(ss) ==
    IF Step = "Policy" THEN [ss EXCEPT ![Top.session].digest = TpmDigest(Item.run.command, @)] ELSE ss

\* execute_policy_signed notes that its key is to be flushed.
KeyLoaded(c) == [c EXCEPT !.object = "key", !.flush = IF Type = "POLICYSIGNED" THEN TRUE ELSE @]
Answered(c) ==
    CASE Step = "LoadExternal" -> KeyLoaded(c)
      [] Step = "FlushContext" -> Disowned(c)
      [] UsesAuth -> [c EXCEPT !.auth = None]
      [] OTHER -> c

\* A bug: PolicyCpHash leaves the encryption session.
EncryptionKept == session2
\* execute_policy_cp_hash disables encryption, which would change what the hash
\* is taken of.
Encryption == IF Step = "Policy" /\ Type = "POLICYCPHASH" THEN "NONE" ELSE session2

Finish ==
    /\ InElement /\ Step \in Commands /\ Top.sent /\ Accepted
    /\ pending' = "none"
    /\ Update(Advance(Answered(Top)))
    /\ sessions' = Ended(Extended(sessions))
    /\ keys' = CASE Step = "LoadExternal" -> keys + 1 [] Step = "FlushContext" -> keys - 1 [] OTHER -> keys
    /\ session2' = Encryption
    /\ UNCHANGED <<policy, cur, frames, create, rc, result, err, at, faults, waits, runs>>

FinishFails ==
    /\ InElement /\ Step \in Commands /\ Top.sent
    /\ IF Accepted THEN Fault ELSE UNCHANGED faults
    /\ pending' = "none" /\ Fails("finished")
    /\ sessions' = IF UsesAuth THEN [sessions EXCEPT ![Top.auth].used = TRUE] ELSE sessions
    /\ Update([Top EXCEPT !.sent = FALSE])
    /\ UNCHANGED <<policy, cur, frames, create, keys, session2, rc, result, waits, runs>>

-----------------------------------------------------------------------------
(* Failure: the clean-up of the element, ifapi_policyeval_execute flushes  *)
(* the session of the policy, and ifapi_policyutil_execute takes it from   *)
(* the policies that share it and frees the context.  Then the step that   *)
(* executed this policy has failed.  ESYS refuses to flush anything while  *)
(* a command is pending.                                                   *)

InPolicy == Top.ready /\ Top.list # <<>>
CleansUp ==
    /\ InPolicy /\ err # "create" /\ <<Step, err>> \in Item.run.cleanup
    /\ Type = "POLICYSECRET" => Top.flush
    /\ Owned(Top) = "key"
FlushesSession == InPolicy /\ err # "create" /\ Top.session # None

\* A bug: the policies that share a flushed session keep its handle.
SharedStays(cs, s) == cs
SharedForgotten(cs, s) == [i \in DOMAIN cs |-> IF cs[i].session = s THEN [cs[i] EXCEPT !.session = None] ELSE cs[i]]

\* cleanup_policy_list on a list that was freed before.
FreesTwice ==
    /\ InPolicy /\ Type = "POLICYAUTHORIZENV" /\ Top.found \in {"freed", "broken"}
    /\ Step \in {"read_nv", "authorize_nv", "NV_Read", "search", "sub"}

Unwind ==
    /\ rc = "running" /\ err # "none" /\ frames # <<>>
    /\ IF cur = Dangling \/ FreesTwice
       THEN rc' = "crashed" /\ UNCHANGED <<stack, cur, frames, sessions, keys, err>>
       ELSE /\ keys' = IF CleansUp /\ pending = "none" THEN keys - 1 ELSE keys
            /\ sessions' = IF FlushesSession /\ pending = "none"
                           THEN [sessions EXCEPT ![Top.session].live = FALSE, ![Top.session].flushes = @ + 1]
                           ELSE sessions
            /\ stack' = IF FlushesSession THEN SharedForgotten(ClearCurrent, Top.session) ELSE ClearCurrent
            /\ cur' = Level - 1 /\ frames' = Front(frames)
            /\ rc' = IF Level = 1 THEN "failed" ELSE rc
            /\ err' = IF Level = 1 THEN "none" ELSE "called"
    /\ UNCHANGED <<policy, create, pending, session2, result, at, faults, waits, runs>>

Next ==
    \/ Begin \/ BeginUnselected \/ Enter \/ UseSession
    \/ create_session_send \/ create_session_finish \/ create_session_wait
    \/ Callback \/ CallbackWaits \/ SignsNothing
    \/ AuthorizeByValue \/ Nest \/ NestUnselected \/ Return \/ ReturnWithoutAuth
    \/ Send \/ SendWaits \/ Finish \/ FinishFails \/ Unwind

Spec == Init /\ [][Next]_vars

-----------------------------------------------------------------------------
(* Properties.                                                             *)

\* Contexts whose sessions are among ids.
HandleKinds == {"none", "hierarchy", "key", "nv", "closed"}
Contexts(ids) ==
    [list : Seq(Items), step : Nat \ {0}, sent : BOOLEAN, nested : BOOLEAN, ready : BOOLEAN,
     session : ids, own : ids, auth : ids, object : HandleKinds, handle : HandleKinds,
     flush : BOOLEAN, found : {"null", "list", "freed", "broken"}, buffer : {"none", "set", "freed"}]
SessionIds == DOMAIN sessions \union {None}

\* The contexts, frames and sessions refer to one another, and no more keys are
\* flushed than were loaded.
TypeOK ==
    /\ policy \in Policies
    /\ stack \in Seq(Contexts(SessionIds))
    /\ cur \in 0 .. Len(stack) \union {Dangling}
    /\ frames \in Seq(DOMAIN stack)
    /\ create \in {"INIT", "WAIT"} /\ pending \in {"none", "session", "command"}
    /\ sessions \in Seq(Range(sessions))
    /\ \A i \in DOMAIN sessions :
          /\ DOMAIN sessions[i] = {"digest", "live", "flushes", "used"}
          /\ sessions[i].live \in BOOLEAN /\ sessions[i].flushes \in Nat /\ sessions[i].used \in BOOLEAN
    /\ keys \in Nat /\ session2 \in {"session1", "NONE"}
    /\ rc \in {"idle", "running", "done", "failed", "crashed"}
    /\ result \in SessionIds
    /\ err \in {"none", "called", "sent", "finished", "create"}
    /\ faults \in 0 .. MaxFaults /\ waits \in 0 .. MaxWaits /\ runs \in 0 .. MaxRuns

\* create_session was called again for a session that is being created.
SessionLost == pending = "session" /\ create = "INIT"

\* util_current_policy, which every callback takes its context from, is the policy
\* whose element is being executed, however often the stack was left with TRY_AGAIN
\* and entered again; between calls it is NULL, and no context is left in the end.
CurrentIsExecuting ==
    /\ Executing => frames = [i \in 1 .. Len(frames) |-> i] /\ cur = Len(frames)
    /\ rc \in {"done", "failed"} => stack = <<>>

\* The stack of policies (ifapi_policyutil_execute) is in step with the calls.
StackInv == TypeOK /\ CurrentIsExecuting

\* Objects and policies an element authorizes or executes.
NestedPolicies(e) ==
    {p \in CASE e.type \in {"POLICYSECRET", "POLICYNV"} -> {e.object.policy}
             [] e.type = "POLICYSIGNED" -> IF e.keyedhash THEN {e.object.policy} ELSE {}
             [] e.type = "POLICYAUTHORIZE" -> {e.sub}
             [] e.type = "POLICYAUTHORIZENV" -> {e.sub, e.object.policy}
             [] OTHER -> {} : p # <<>>}

\* A keyed hash with a policy: cbauth sets object_handle only when it succeeds, and
\* PolicySigned is not given the session cbauth made.
SignedByPolicy(p) == \E i \in DOMAIN p : p[i].type = "POLICYSIGNED" /\ NestedPolicies(p[i]) # {}

\* Whatever happens, the keys that were loaded for a policy are flushed: at the end
\* of their element, or when a later step of it, or of a policy it executes, fails.
\* The steps in Unflushed leave their key in the TPM.
KeysFlushed ==
    rc \in {"done", "failed"} => keys = 0 \/ at \in Unflushed \/ SignedByPolicy(policy) \/ SessionLost

\* A policy session is flushed at most once, although the policies that share it all
\* fail with it; and when the authorization has ended, a session that is still there
\* is the one it returned, or one that was given to a command that failed.
SessionsEnded ==
    /\ \A s \in DOMAIN sessions : sessions[s].flushes <= 1
    /\ rc \in {"done", "failed"} =>
         \A s \in DOMAIN sessions :
            sessions[s].live => \/ s = result \/ sessions[s].used
                                \/ at # Nowhere /\ at[2] \in {"Policy", "NV_Read"} /\ at[3] = "sent"
                                \/ SignedByPolicy(policy) \/ SessionLost

\* The end of an authorization, whether it succeeds or fails at any step, leaves
\* nothing in the TPM that nobody knows of (the labels cleanup and error of
\* execute_policy_X and ifapi_policyutil_execute).
TpmLeftClean == KeysFlushed /\ SessionsEnded

\* No freed memory is used.  It is when a signature callback asks to be called
\* again, when a branch cannot be selected in a policy within a policy, and by a
\* second PolicyAuthorizeNV.
NoCrash ==
    rc = "crashed" =>
        \/ at \in {<<"POLICYSIGNED", "sign", "freed">>, <<"POLICYOR", "select", "called">>}
        \/ \E i, j \in DOMAIN policy : i < j /\ policy[i].type = "POLICYAUTHORIZENV" /\ policy[j].type = "POLICYAUTHORIZENV"

\* After PolicyCpHash the command is sent without parameter encryption, which would
\* make the TPM hash other parameters; unless a later element authorizes an object
\* with a policy, which sets session2 again.
CpHashInClear ==
    rc = "done" /\ session2 = "session1" =>
        \A i \in DOMAIN policy : policy[i].type = "POLICYCPHASH" =>
            \E j \in i + 1 .. Len(policy) : NestedPolicies(policy[j]) # {}

\* While the session of a policy is being created, create_session stays in the state
\* that waits for it, as the TRY_AGAIN of its description promises.
SessionAwaited == pending = "session" => create = "WAIT"

=============================================================================
