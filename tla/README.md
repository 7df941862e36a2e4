# TLA+ models of the tpm2-tss stack

This directory holds a TLA+ development of tpm2-tss (with its post-quantum
additions): modules that model the layers of the stack, TLC configurations that
check them on small instances, and TLAPS proofs of the properties that matter
most. Paths below are relative to the repository; `PROJECT.json` names, for
every definition that models code, the lines it stands for.

## 1. The system

tpm2-tss is a stack of libraries between an application and a TPM. Each layer
owns a context, is used by one thread at a time and calls the layer below.
Nothing is locked. What runs concurrently with a context is the TPM (or its
simulator), the network or the driver in between, other programs that use the
same TPM, and the application's own choice of which call comes next: the
`_Async`/`_Finish` pairs let it leave a command in the middle and come back.

| Component | State it keeps | Operations |
|---|---|---|
| TCTI state machine (`src/tss2-tcti/tcti-common.[ch]`) | `state` (TRANSMIT, RECEIVE, FINAL), `header`, `partial`, `locality` | the checks at the head of every transport call |
| mssim transport (`tcti-mssim.c`, with `src/util-io/io.c`) | the common context, the flag `cancel`, two sockets | transmit, receive, size query, cancel, setLocality, finalize |
| device transport (`tcti-device.c`) | the common context, a descriptor, `partial_read_supported` | transmit, receive, size query, finalize |
| other transports (swtpm, cmd, libtpms, pcap, I2C/SPI TIS, TBS, null), loader | as above; for TIS the chip's registers | as above |
| SYS context (`src/tss2-sys`) | one buffer for command and response, offsets into it, `previousStage`, `authsCount`, flags | Prepare, SetCmdAuths, Get/SetDecryptParam, ExecuteAsync, ExecuteFinish, GetRspAuths, Get/SetEncryptParam, Complete, Abort |
| ESYS context (`src/tss2-esys`, one file per command in `api/`) | `state`, `submissionCount`, `timeout`, sessions and their saved attributes | `_Async`, `_Finish` and the one-call function of every command |
| ESYS_TR objects (`esys_tr.c`) | the list of metadata nodes, reference counts, `esys_handle_cnt`, the opening in progress | `Esys_TR_FromTPMPublic`, `Esys_TR_Close`, and the commands that add or remove nodes |
| marshalling (`src/tss2-mu`) | none | conversions |
| FAPI JSON and keystore (`src/tss2-fapi/*json*.c`, `ifapi_keystore.c`) | objects, policies, profiles and events in memory and in files | a writer and a reader for each type |
| policies (`ifapi_policy_*.c`, `ifapi_policyutil_execute.c`) | a stack of policies being executed, the state of the current element, sessions and loaded keys, `util_current_policy` | instantiate, calculate, execute; callbacks that authorize objects, search policies, sign |
| FAPI commands (`fapi_util.c`, `api/`) | a state per nested operation, open sessions | several dozen asynchronous state machines |
| return codes, crypto back ends, utilities | none of the protocol | conversions, cryptography, logging |

How they interact. `Esys_X_Async` prepares a command in the SYS buffer, adds
the session authorizations and calls `Tss2_Sys_ExecuteAsync`, which calls the
TCTI's transmit. `Esys_X_Finish` calls `Tss2_Sys_ExecuteFinish`, which asks the
TCTI for the size of the response and then receives it; TRY_AGAIN travels up
unchanged and the application repeats the call. On a RETRY, YIELDED or TESTING
answer `Finish` executes the same SYS buffer again. FAPI sits on ESYS: a call
is repeated until it does not return TRY_AGAIN, and each time finds its way back
to the place it left. Only there are callbacks: executing a policy element may
authorize another object, which executes another policy, within the first.

What is hard in this code:

* a call that is left with TRY_AGAIN has kept part of a response (mssim), or
  only its header (device), and the next call must continue there;
* command and response share one buffer, and a command is sent again from what
  its response left of it;
* every layer has a state of its own, and error paths must take all of them
  back together (TCTI `state`, SYS `previousStage`, ESYS `state`);
* what an operation changes temporarily (session attributes, timeout, reference
  counts) must be undone on every path;
* state of a pending operation lives in the context, where the next call can
  overwrite it;
* more than a hundred commands repeat one pattern by hand, each with its own
  lists of handles, names, sessions, outputs and things to free;
* what FAPI stores in a file is written and read by separate functions, type by
  type, and a policy's digest is calculated by one program and reproduced in the
  TPM by another.

There is no persistence below FAPI, so crash recovery is no concern there; FAPI
writes a file as a whole.
`PROJECT.json` lists the hazards one by one, each at its line.

What makes each component correct:

* transport: the documented state machine; a receive delivers exactly the
  response to the command transmitted last; nothing of it remains; a blocking
  call ends;
* SYS: what is transmitted is the command that was built; the parameters over
  which the upper layer computes the cpHash are the ones sent; what is read is
  the response to it;
* ESYS: one pending command; a result is the result of that command; bounded
  resubmission of an unchanged command; session attributes altered for a command
  are restored;
* ESYS commands: names, handles, authorizations and encryption of a command
  belong together; outputs are read from where the TPM put them; an error path
  releases what was acquired; metadata follows the TPM;
* ESYS_TR: a handle names one node for ever; an object the application holds
  stays open and keeps its name;
* FAPI JSON: what is stored comes back the same; what was read or made can be
  stored;
* policies: the session ends up with the digest calculated when the policy was
  made; the stack stays in step with the calls; nothing is left in the TPM.

## 2. The modules

```
TctiCommon ──┬── TctiContract        abstract: what a transport promises
             ├── TctiMssim  ─ implements ─> TctiContract
             │       └── TctiMssimProofs
             ├── TctiDevice ─ implements ─> TctiContract
             │       └── TctiDeviceProofs
             ├── SysContext ──┬── MCSysContext
             │                └── SysContextProofs
             └── EsysContext ─ implements ─> EsysAbstract
                     └── EsysContextProofs
EsysTr ── EsysTrProofs

SysCommandTable ───────────────────┐
EsysFinish ── EsysCommandTable ────┴─ MCCommandStack
                      CommandStack ──────┘
                           └── CommandStackProofs

JsonEntry ─┬─ TpmJsonWriter, TpmJsonReader ───┬── JsonStore ── MCJsonStore
           └─ FapiJsonWriter, FapiJsonReader ─┘
PolicyTpm ─┬─ PolicyElements ────┬── PolicyAgreement ── MCPolicyExecution
           └─ PolicyExecution ───┘
                     └── PolicyExecutionProofs ── PolicyCleanupProofs
```

**TctiCommon** has the states, the return codes in the classes
`tcti-common.h` puts them in, and the sequence checks.

**TctiContract** is the comment of `tcti-common.h` as a specification: which
return codes change the state of a context and how.

**TctiMssim** models the simulator transport over a byte stream. Bytes are
chunks (size field, `BodyLen` pieces of the body, trailer) that carry the number
of the command they answer. `receive` is a pipeline of phases (`ReadSize`,
`ReadBody`, `ReadTail`, `FinishCancel`), each of which can end the call with
`return` (`Stop`) or `goto out` (`Out`), as in the code; a timeout between two
phases leaves the context where the code leaves it. The simulator, the network
and a connection that breaks are actions beside it.

**TctiDevice** models the kernel driver transport, with drivers that hand out a
response in one read or in parts, and contexts that have probed for this or
not. A size query of a driver with partial reads keeps the header in the
context; a second query (`size_again`) takes the beginning of the body for
another one, as the code does.

**SysContext** models the SYS buffer as an array of cells (header, handles,
authorizations, parameters) and every call that writes to it or moves its
contents, with offsets as the code computes them. `Layout` describes a command:
handles, flags, parameters. **MCSysContext** gives the layouts of Create, Load
and Startup: with and without sessions, encryptable parameters and a response
handle. The calls are actions; a `Prepare` that fails in the middle
(`PrepareTorn`), refused calls, TPM errors and malformed responses are included.

**EsysContext** models the state machine of an ESYS command, translated from
`Esys_Create.c`, which all commands repeat: `Async` in all its outcomes,
`Finish` in all its outcomes (`FinishNotYet`, `FinishGivesUp`,
`FinishResubmits`, ...), the one-call function as a frame that calls `Finish`
until it does not return TRY_AGAIN, `Esys_SetTimeout` and
`Esys_TRSess_SetAttributes`. Of the SYS and TCTI contexts it keeps the stage and
the state. **EsysAbstract** says what remains when submissions, timeouts and
lower layers are forgotten.

**EsysTr** models the ESYS_TR objects: the list, the two-round
`Esys_TR_FromTPMPublic`, `Esys_TR_Close`, and `Esys_Load`, `Esys_FlushContext`
and `Esys_EvictControl` as far as they change the list. Other programs create
and delete persistent objects.

In both transports the variable `calm` is chosen once: in calm behaviours no
poll, read or platform command fails in a way the code does not recover from,
and the client does not finalize; of the device, the client also cancels only
in RECEIVE and sets the locality only in TRANSMIT. The contract and liveness are
claimed for those; the invariants for all. In EsysTr the variable `app` is chosen once in
the same way: an application that lets an opening finish, or an eager one that
calls at any time.

**CommandStack** executes any command on its way down and up: `Esys_X_Async`
with its checks and early returns, `iesys_gen_auths` and the names in the cpHash,
what `Tss2_Sys_X_Prepare` puts into the buffer, the TPM's answer, and
`Esys_X_Finish` step by step, each of which can fail, with its resubmissions. A
call has at most one flaw (an unknown object, a NULL pointer, a bad value, a
failing session, authorization or transmission). `SysOneCall` is the SAPI's own
one-call function. What differs between commands comes from two constants. Their
values are tables with one definition per function of the repository, under its
name: **SysCommandTable** (Prepare: fields in the order they are marshalled,
pointers that are refused, flags; Complete: fields read before and after
`CommonComplete`; one-call functions, `GetNumHandles`), **EsysCommandTable**
(objects, names, bound authorization values, checks) and **EsysFinish** (the
steps of Finish and what error_cleanup frees). `InputRule`, `RequestRule`,
`ReadRule`, `CleanupRule` and `MetadataRule` say of one function, without any
execution, what it must look like for the properties to hold; the functions that
the properties except by name are excepted here, too. `TablesConsistent` says that
all functions follow them.

**TpmJsonWriter**, **TpmJsonReader**, **FapiJsonWriter** and **FapiJsonReader**
have one entry for each `ifapi_json_X_serialize` and `ifapi_json_X_deserialize`,
in the notation of **JsonEntry**. **JsonStore** says what an entry does and runs
one value of one type through its life: made by FAPI or written by an author,
stored, loaded, and for policies instantiated and calculated.

**PolicyElements** has two views of each policy element: the digest FAPI
calculates, and the callbacks and the command with which it is executed.
**PolicyTpm** has the third, the digest the TPM computes for that command.
**PolicyExecution** is the stack of policies: `ifapi_policyutil_execute` entered
again after each TRY_AGAIN, sessions that are created and shared, callbacks that
nest, and what each error path flushes. It takes the lists of elements from the
constant `Lists` and does not depend on how they are made. **PolicyAgreement**
joins the two and states what the execution promises to whoever calculated the
policy; **MCPolicyExecution** gives the policies and, as `Lists`, the value of
`compute_policy_list` for each of them and all they execute.

The operators whose comment begins with "A bug" are alternatives of the
definition below them, with a plausible mistake in it. No specification uses
them; they show that each property notices such a mistake.

## 3. What the runs check

Passing runs:

| Run | Module | Checks | Distinct states |
|---|---|---|---|
| `MssimStream` | TctiMssim | `StreamInv`: through every split of a response, timeouts, poll errors, lost connections, cancel and platform failures, a receive delivers the response to the last command and leaves the stream empty. `ImplementsContract`: refinement of TctiContract; `Answered`: a client that keeps receiving gets out of RECEIVE | 63 310 |
| `DeviceStream` | TctiDevice | `StreamInv`: a header read early is delivered once, in front of its own body, and not kept. `Answered`, `ImplementsContract`, header-only responses included | 42 105 |
| `SysBuffer` | MCSysContext | `TypeOK`, `TransmitsEncoding`, `CpBufferIsParameters`, `ReadsResponse` | 205 143 |
| `EsysCommands` | EsysContext | `TypeOK`, `Resubmissions` (at most `ESYS_MAX_SUBMISSIONS`, each the same command), `InitMeansIdle`, `EncryptedAsRequested`, `ImplementsAbstract`, `OneCallReturns` | 44 628 |
| `EsysTrLife` | EsysTr | `TypeOK`, `HandlesUnique`, `ReferencesCounted`, `OpeningKept`, `NamePinned` | 2 146 932 |
| `CommandStack` | MCCommandStack | `TypeOK`, `HmacInPlace`, `InputsHarmless`, `RequestConsistent`, `FinishReadsOwn`, `FinishCleansUp`, `MetadataFollowsTpm`, for all 130 commands; `TablesConsistent`: their functions follow the rules from which section 4 proves five of these | 292 810 |
| `JsonStore` | MCJsonStore | `TypeOK`, `ComesBack`, `CanBeStored`, `PolicySettles`, for all types that are written or read | 10 577 |
| `PolicyExecution` | MCPolicyExecution | `StackInv`, `DigestsAgree`, `CanBeExecuted`, `TpmLeftClean`, `NoCrash`, `CpHashInClear` | 113 464 |

Runs that end with a counterexample. In each the property is what a comment, a
document or a test of the repository says, and the behaviour TLC prints is one
of the code:

| Run | Property | What it shows |
|---|---|---|
| `SysNullParam` | `CpBufferIsParameters` | `Tss2_Sys_SetDecryptParam` moves the parameters behind a NULL parameter to the wrong offset unless the new one happens to be as long as they are. |
| `EsysAttributes` | `AttributesRestored` | After a TPM error a session keeps the attributes that were altered for one command. |
| `EsysTrReopen` | `HeldIsLive` | An opening that fails closes a reference an earlier opening took. |
| `PolicySession` | `SessionAwaited` | `create_session` compares the TRY_AGAIN of ESYS with that of FAPI, takes it for an error, and starts another session while the first is being created. |

The properties of the passing runs are stated so that the cases in which the
code does not have them lie outside, and visibly so: by a constant
(`MayAskAgain`, `NullParams`, `AppWaits`), by `calm` and `app`, by a history
variable that records that something unrecoverable has happened (`clean`,
`reread`, `usable`, `smooth`, `spoiled`), or by name. Section 5 lists them.

### Bounds

* `MaxCmds`: two or three commands. What one command can leave behind for
  another (a header, a trailer, altered attributes) shows in the second; the
  third shows that the second has not left anything either.
* `BodyLen = 2`, `MaxLen = 3`: a response that can arrive in pieces, one that is
  nothing but a header, and ones in between.
* `MaxCmdSize = 9`: Create with one session fits and with two does not, so that
  the size checks are met from both sides; 12 in `SysNullParam`, where an
  inserted parameter has to fit.
* `ParamSizes = {1, 2, 3}`: shorter than, as long as and longer than the
  parameter it replaces. `MaxPrepares = 2`: a command after another, in every
  combination of the three layouts.
* `ESYS_MAX_SUBMISSIONS` is 5, the code's value, in `EsysCommands`, and 2 in
  `CommandStack`, enough for a command that is given up after a resubmission.
* `MaxTr = 6`, one transient and one persistent handle, two objects, two
  references: an opening uses up to two ESYS_TR values, so that an object can
  be opened, lost and opened again.
* `BitsPerByte = 2`: integers of one to eight bytes keep their proportions and
  their limits can be enumerated. `Few`: of a structure's optional members none,
  all, one, all but one and, of small ones, every two are set.
* `MaxFaults = MaxWaits = MaxRuns = 2`: two failures and two TRY_AGAINs in one
  authorization, and a second authorization that meets what the first left.
  The policies are every element alone, all pairs of those with more than one
  step, branches, and policies within policies up to three deep.

The proofs of section 4 do not depend on these bounds.

Deadlock is checked wherever the client goes on. `MssimStream`, `JsonStore`,
`PolicyExecution` and `PolicySession` switch it off: a finalized context, a value
that has reached the end of its life, and the last authorization have no next
step.

### Fairness

Three runs assume any. `MssimStream`: the simulator answers, bytes that were
sent arrive, and the client keeps calling receive, as the loops of the SYS and
ESYS one-call functions do; a lost connection is an end of file. The client
mixes blocking and polling calls, and `Answered` leaves out the one situation in
which a timeout before the trailer loses the place in the stream (`Misplaced`).
`DeviceStream`: the TPM answers, and the client asks for the size and then
receives, which is what `Tss2_Sys_ExecuteFinish` does. `EsysCommands`: the TPM
answers, and the loop of a one-call function keeps running in the application's
thread. Nothing obliges the application to call the asynchronous functions
again, and no property depends on it. Strong fairness is not used.

## 4. What is proved

The eight modules of proofs hold for every value of the constants that
satisfies the assumptions of the modules, which TLC evaluates in the runs:

* `MssimAssumption`, `DeviceAssumption`: any number of commands, a response that
  is not empty, any of the faults.
* `SysAssumption` (any layouts of commands, any positive size of the buffer, any
  number of sessions) and `HandlesFit`: header and handles of a command fit into
  the buffer. They do with the default size (`Tss2_Sys_GetContextSize(0)`, which
  ESYS uses); of a smaller one an application asks for, the code ensures only
  that it holds a header.
* `EsysAssumption`: at least one submission, any number of commands, any set of
  faults. `TrAssumption`: transient and persistent handles are disjoint, at least
  one reference.
* `StackAssumption`: at least one submission; the tables have the same commands,
  and a resubmission leaves SENT or RESUBMISSION.
* `ExecutionAssumption` (any policies, any lists) and `ItemAssumption`: an element
  has steps, the policies it executes have lists, and a key is loaded in the step
  before it is authorized, as `ifapi_policyeval_cbauth` does.
* `OrderAssumption`: the steps of an element come in the order of its function
  `execute_policy_X` (a policy is searched and then executed, a command follows
  the authorization made for it, the last command flushes the key that was
  loaded), and a failure after a key was loaded goes to the label `cleanup` or is
  in `Unflushed`. It says in a few lines what the proofs need of the table in
  PolicyElements; TLC evaluates it on the elements of the policies of the run.

In `TctiMssimProofs`:

* `ResponseDelivered`, the invariant `StreamInv` for responses of any length. It
  needs to be known at every moment where in the response the context is:
  `Placed` says that the command has not been answered, or that nothing or just
  the size field has been read and what is readable and in flight continues the
  response there, or that the place is lost and what is left is too short to be
  taken for a response; `EmptyInv`, that between commands the stream is empty.
  `receive` is a pipeline of phases, and there is one lemma for each phase.
* `Refinement` of TctiContract, from the same invariant.

In `TctiDeviceProofs`:

* `ResponseDelivered`. A kept header is the first chunk of the response to the
  last command and the driver has the rest of it (`KeptInv`); without one the
  driver has all of it (`FreshInv`). `BusyInv`, `PartialInv`, `EofInv`, `DoneInv`
  and `CalmInv` tie these to the state.
* `Refinement` of TctiContract, which is the documented state machine as it
  stands; what the device does out of sequence is left out by `calm` and not by
  the contract.

In `SysContextProofs`, for a client that sets the authorizations of a prepared
command at most once (section 5), assuming `~NullParams`: what the client inserts for a NULL
parameter is as long as the area it is inserted into. Section 3 shows, with the
run `SysNullParam`, that the assumption is needed.

* `TypeCorrect`, `SendsRequest`, `CpHashOfCommand` and `ReadsAnswer`, from one
  inductive invariant. `CommandInv` says what is in the buffer before and after a
  command is sent: header, handles, authorizations and parameters of the request
  that was built, each at its computed offset, so that moving the parameters for
  another number of sessions or another size keeps a command. `ResponseInv` says
  the same of a response, or that the calls that would read it are refused;
  `FlagsInv`, `CountInv` and `SentInv` tie the flags, `authsCount` and the saved
  header to the request. The lemmas about writing and moving cells come first;
  there is one lemma per action.

In `EsysContextProofs`:

* `TypeCorrect` and `SubmissionsBounded`, the property `Resubmissions`. That a command
  is submitted at most `ESYS_MAX_SUBMISSIONS` times is not inductive: it needs
  that `submissionCount` is the number of submissions as long as the command is
  outstanding, and that `Finish` compares before it sends. `CountInv` says this,
  together with the fact that each submission was the command the SYS buffer
  holds now, from which `SameCommand` and the refinement follow. The inductive
  invariant is `IInv == TypeOK /\ CountInv`.
* `Refinement`: the context implements `EsysAbstract`. The mapping takes SENT,
  and RESUBMISSION with a command outstanding, to a pending command; that the
  result delivered is the result of the current command is the clause
  `tpm.no = cmd.no` of `CountInv`. It does not assume that the application
  waits.
* `IdleInInit` (assuming `AppWaits`), from `IdleInv`, which ties the stage of the
  SYS context to the state of the TCTI. Section 5 shows that the
  assumption is needed.
* `EncryptionAsRequested` (assuming `AppWaits`), from `SessionInv`: while a command
  is pending the saved attributes are the application's, and between commands the
  current ones are, as long as no command has failed.

In `EsysTrProofs`:

* `TypeCorrect` and `UniqueHandles`, from `IInv`: the types and `WellFormed`, that
  an ESYS_TR in the list is below the counter and names one node. The lemmas
  `CloseList`, `ReplaceList`, `AddList` and `LaterList` say what each way of
  changing the list does to a well-formed one; there is one lemma per action.
* `NamesPinned`: no step changes the name of a node. The same lemmas show
  `Pinned` for each way of changing the list.

These three do not need the application to wait. For one that does:

* `CountsReferences` and `KeepsOpening`, from `WaitInv`. The second round of
  `Esys_TR_FromTPMPublic` searches the list again for the handle, so that the
  counts are right only if it finds the node the first round made or took:
  `TargetInv` says that this node is there and the one a search finds.
  `SessionInv` carries the session from the first round to the second, and
  `CountInv` is the claim about the counts.

In `CommandStackProofs`, for any table of commands, not just the 130 there are:

* `HmacPlaces`: `iesys_gen_auths` writes an HMAC by the number of its session and
  the handle that goes with it by the number of authorizations so far. The lemma
  `FeasibleInPlace` shows that the two agree for all sessions
  `check_session_feasibility` lets through, by counting (`CountGapless`); the
  invariant `InPlace` says it of the request in the buffer, sent or not.
* `TypeCorrect`, from `TypeInv`, one lemma for each group of actions. The part
  that is not obvious is the number of submissions: it passes
  `ESYS_MAX_SUBMISSIONS` only in the step that gives the command up.
* `HarmlessInputs`, `ConsistentRequests`, `ReadsOwn`, `CleansUp` and `FollowsTpm`:
  the properties `InputsHarmless`, `RequestConsistent`, `FinishReadsOwn`,
  `FinishCleansUp` and `MetadataFollowsTpm`. The hypothesis of each is that every
  command follows the rule of that name (section 2), which the run `CommandStack`
  checks for the functions of the repository. The rule is about one function; the
  theorem, about all behaviours: sessions in any number, any answer of the TPM,
  any step of Finish failing, any number of resubmissions, and what one command
  leaves to the next. The invariants say how far a call has come: that the buffer
  holds the request of the command that is pending (`ConsistentRequests`), and
  that what Finish holds and has changed is what the steps up to that one acquire
  and change (`CleansUp`, `FollowsTpm`). Who adds a command to the ESAPI has only
  its rules to check.

In `PolicyExecutionProofs`, for any policies, nested to any depth:

* `StackInStep`, the invariant `StackInv`. It is not inductive: `Enter` needs that
  there is a level to go down to, so `RunningInv` says that a context executes
  another one just when it is not the innermost, and `FailingInv` that a failure
  arises in the innermost and goes up the whole stack. That no more keys are
  flushed than were loaded needs a count: `KeyInv` has a loaded key for each
  context that holds the handle of one, and `StepInv` that a context is at a step
  of its element and holds the key it is about to authorize. `Split` divides the
  invariant by what the actions change together (simple variables, calls, data);
  the lemmas about contexts, stack and sessions serve all actions, and there is
  one lemma per action.

In `PolicyCleanupProofs`, for any policies, nested to any depth, any number of
failures and TRY_AGAINs:

* `LeavesTpmClean`, the property `TpmLeftClean`, assuming `SignedByValue`: no
  PolicySigned, at any depth, is signed with a keyed hash that has a policy of
  its own (section 5 says what happens to one that is). The end of an
  authorization says little about how it came about, so `CleanInv` follows every
  key and session from the step that makes it to the one that ends it.
  `ContextInv` says of one context that it has the handle of a key just between
  the step that loads it and the one that flushes it, in the field from which the
  clean-up takes it (`KeyOK`), and the session of an authorization just until the
  command it is for (`AuthOK`). `CountInv` adds the keys up over the stack:
  as many are loaded as contexts have one, until a failure loses one. `KnownInv`
  says where a live session is known, `OwnInv` and `FlushInv` who shares it with
  whom, so that it is flushed once when all that share it fail. `FailInv` says
  where a failure on its way up the stack arose, `PendingInv` that ESYS is idle
  then (it refuses to flush anything otherwise) unless a session was lost, and
  `AtInv` that the failure is the first. `Kinds` divides the twenty actions by
  what they do to keys and sessions; each invariant is then shown for each kind.
* `NothingFreedUsed`, the property `NoCrash`, assuming `NvOnce`: no list of
  elements, at any depth, has two PolicyAuthorizeNV. `FoundInv` says where a
  context stands when its list of approved policies is there, and that no element
  that looks at the list comes after the step that freed it. The two other cases
  the property names remain in the theorem.
* `ClearAfterCpHash`, the property `CpHashInClear`, assuming `ListsFollow`: a
  list has the PolicyCpHash of its policy, and what executes a policy behind it
  comes from an element behind it. TLC finds this of the lists
  `compute_policy_list` makes of the policies of the run. `ClearInv` says how far
  the outermost policy has come in its list, and that encryption is on after a
  PolicyCpHash only if an element between there and here executed a policy.

On the instances of section 3 TLC finds each of these inductive invariants to
hold, too; those of `PolicyCleanupProofs` on the 233 of the 235 policies of
`PolicyExecution` that satisfy its three hypotheses.

Only model-checked:

* the liveness properties (`Answered`, `OneCallReturns`): the proof system does
  not handle fairness and ENABLED;
* `TablesConsistent` and the properties of JsonStore: they are about the
  repository's own tables, which are finite and which TLC visits completely;
* `DigestsAgree` and `CanBeExecuted`, which need an induction over the tree of a
  policy, and which PolicyElements states with recursive operators;
* what the theorems of `PolicyCleanupProofs` leave out by a hypothesis: policies
  with a PolicySigned or two PolicyAuthorizeNV of the excluded kind are in the run
  `PolicyExecution`, whose properties have the exceptions of section 5.

## 5. Where the code differs

Disagreements that appear when a passing configuration or the client of a model
is changed, or that are excluded by name in a property. No configuration of their own is kept for them.

Transports and ESYS:

* `MssimStream` without `calm` in `Contract`: when CANCEL_OFF fails,
  `tcti_mssim_receive` returns IO_ERROR by `return rc` (`tcti-mssim.c:399`) and
  stays in RECEIVE, where `tcti-common.h:43` says that such failures "transition
  state machine to TRANSMIT"; `tcti_mssim_finalize` leaves the state alone, where
  `tcti-common.h:45` says "transitions state machine to FINAL state".
* `MssimStream` without `Misplaced`: a timeout while the trailer is awaited
  (`tcti-mssim.c:383`) is reported as TRY_AGAIN when the body is consumed; the
  repeated call takes the trailer for the body. `tcti-common.h:40` has TRY_AGAIN
  leave the context as it is.
* `DeviceStream` without `calm`: `tcti_device_receive` returns IO_ERROR in the
  state RECEIVE when poll or read fails (`tcti-device.c:232`).
* `DeviceStream` with cancel and setLocality out of sequence: `tcti_device_cancel`
  and `tcti_device_set_locality` return NOT_IMPLEMENTED in every state
  (`tcti-device.c:322` and 356), where `tcti-common.h:35`, 48 and 51 say that they
  produce BAD_SEQUENCE: cancel in TRANSMIT, setLocality in RECEIVE, both in FINAL.
* `SysBuffer` with a second `SetCmdAuths` for a prepared command: the code
  (`Tss2_Sys_SetCmdAuths.c:36-91`) does not notice it and puts another
  authorization area in front of the first. The model has it as a rule for the
  client, which ESYS keeps.
* `EsysCommands` with `AppWaits = FALSE`: `iesys_check_sequence_async`
  (`esys_iutil.c:1055`) admits a command in RESUBMISSION, SYS refuses it, and
  the context is in INIT with the first command outstanding, where
  `esys_int.h:151` says of INIT "A new command can only be issued in this
  state".
* `EsysTrLife` with the invariant `EvictCloses`: deleting a persistent object
  that was opened twice lowers its count and leaves its ESYS_TR open
  (`Esys_EvictControl.c:353`); `Esys_FlushContext_Finish` sets the count to 0
  first.

Commands, by the part of a property that names them:

* `BadInputHarmless`: AC_GetCapability, AC_Send, ContextLoad and CreateLoaded
  return some errors without resetting the state, and the context stays in
  INTERNALERROR. Hash, HierarchyControl, LoadExternal and SequenceComplete check
  a hierarchy before they look at the context (`AsyncRefusesEarly`), which is
  harmless also while a command is pending.
* `NoNullDereference`: AC_Send, Create, CreateLoaded, CreatePrimary,
  GetCommandAuditDigest, GetSessionAuditDigest and GetTime
  (`Esys_GetTime.c:200`) use an input that may be NULL, or the node of
  ESYS_TR_NONE.
* `NamesMatchHandles`: AC_Send and AC_GetCapability give no names to
  `iesys_gen_auths`; SignSequenceStart hashes the name of `keyB`, which it sends
  as a parameter.
* `OutputsInPlace`: SignSequenceStart and VerifySequenceStart read the sequence
  handle after `CommonComplete`, which has skipped it.
* `FreesOwn`: CertifyX509 and CreatePrimary free an output that was not set to
  NULL before. `NothingLeftBehind`: StartAuthSession loses its node when the
  session key cannot be derived, ECC_Encrypt a buffer. Also, the error path of
  StartAuthSession (`Esys_StartAuthSession.c:486`) sends Esys_FlushContext in the
  state INTERNALERROR, which is refused.
* `AuthFollowsTpm`: HashSequenceStart does not store the authorization value of
  the sequence; Clear (owner, endorsement and lockout) and ChangeEPS
  (endorsement) reset values in the TPM that ESYS goes on using.
  `RemovedAreClosed`: EventSequenceComplete, SignSequenceComplete and
  VerifySequenceComplete leave the ESYS_TR of the sequence open. The repository's
  own test calls it "consumed" (`esys-mldsa-sign-sequence.int.c:184` and 217), and
  `Esys_SequenceComplete.c:348` closes it.
* `Gapless` in `AuthorizesOwnHandle`: a password after a session left out is
  accepted, although `esys_iutil.c:1063` describes the opposite, and a password
  for no object leaves its session handle unset.
* `Tss2_Sys_MAC` and `Tss2_Sys_MAC_Start` do not declare the `hashAlg` they use
  in the Prepare function, and are described as if they did.

JSON (`WriterAhead`, `Loses`, `ReaderAhead` and the cases in `MadeCanBeStored`):

* Post-quantum keys: the unions have arms for ML-DSA and ML-KEM, the lists of
  TPMI_ALG_PUBLIC (`tpm_json_serialize.c:4023`, `tpm_json_deserialize.c:3914`),
  TPMI_ALG_SIG_SCHEME and the names of TPM2_ALG_ID have not. The shipped profile
  `dist/fapi-profiles/P_MLDSA87SHA512.json` is refused for its type.
* Numbers: handles from 0x80000000 on are written as negative numbers and not
  read (`tpm_json_serialize.c:873`); PCR 31 is not written (line 82) and a
  selection always has three bytes when it is read
  (`tpm_json_deserialize.c:345`); TPM2B_DATA is read up to 66 bytes and written
  up to 64.
* Policies: `PolicyAuthorize` is written without any of its alternatives and
  then not read, since the writer does not count `keyPEM`; the object names of
  `PolicyNameHash` are neither written beside its digest nor accepted without it.
  `count - 1` of no names wraps (`ifapi_policy_instantiate.c:236`). An empty
  text counts for the reader and, apart from `newParentPath`, the `keyPath` of
  PolicyAuthorize and the `nvPath` of PolicyAuthorizeNV, not for the writer.
* Events: an IMA event is written without the name of its template; firmware
  events have no writer. TPMT_RSA_SCHEME with RSAES, TPMT_TK_CREATION,
  TPMI_RH_NV_INDEX: one side accepts more than the other. The policy of a key to
  be duplicated has the key of the object's own policy in the document.

Policies:

* `WellPlaced`: a PolicyOR that is not first starts from a digest that is
  cleared from the wrong place (`ifapi_policy_calculate.c:1064`: the algorithm
  and all but the last two bytes of the digest); PolicyDuplicationSelect with
  the object included leaves out its name. `ifapi_calculate_policy_name_hash`
  hashes one entry more than there are names (line 789); it is empty unless the
  array is full.
* `Passes`: PolicyNV of an index read by its owner exchanges two handles
  (`ifapi_policy_execute.c:332`); PolicySecret of an object that is no key flushes
  an old handle after an element that loaded one (line 867); PolicyAuthorize and
  PolicyAuthorizeNV after another element do not find the digest they need.
* `Unflushed`: some Finish steps are left by return, not by goto cleanup, with a
  key loaded (lines 486 and 877). `SignedByPolicy`: PolicySigned by a keyed hash
  that has a policy of its own does not use the session made for it (line 502).
* `NoCrash`: a signature callback that returns TRY_AGAIN is called again without
  its buffer (line 446); when no branch is selected in a policy within a policy,
  a freed context stays the current one (`ifapi_policyutil_execute.c:199`,
  `ifapi_policy_callbacks.c:1351`); a second PolicyAuthorizeNV frees the list of
  the first again (line 1544).
* `CpHashInClear`: an object with a policy that is authorized after PolicyCpHash
  turns parameter encryption on again (`fapi_util.c:2122`).

## 6. What is not modelled

* Validity checks of contexts and magic numbers: contexts are valid.
* Cryptography. Whether a parameter is encrypted, and which object's value an
  authorization is made with, is modelled; nonces, HMACs and session keys are
  not, and neither is a failing HMAC check apart from its outcome. Digests are
  the sequence of what was hashed.
* The marshalling of individual types: a parameter is a cell, or a sequence of
  cells.
* In SysContext, the checks for MALFORMED_RESPONSE behind the header
  (`Tss2_Sys_GetRspAuths.c:47-74`, `sysapi_util.c:115`): responses are well
  formed, or malformed in their length, their tag or their header.
* In CommandStack, objects a failing Finish leaves in the TPM; objects that a
  command removes or resets without naming them (Clear, ChangeEPS and ChangePPS
  flush those of a hierarchy, Startup resets the platform's authorization);
  ContextSave of an object that is no session, whose ESYS_TR stays. In JsonStore, byte
  strings as lists, constants as numbers, warnings about unknown fields, the
  check of the data of EV_SEPARATOR. In PolicyExecution, persistent keys,
  policies of the parents of a key, `authorization_state` after a failure, memory
  that runs out, the failures of `Esys_TRSess_GetAuthRequired` and
  `ifapi_get_description` in `ifapi_authorize_object` (an unknown session, no
  memory), which do not flush the session, and which hierarchy reads an NV index
  (platform or owner).
* The swtpm, cmd, libtpms, pcap, I2C and SPI transports and the loader; the
  commands of FAPI apart from `ifapi_authorize_object`. TBS, null, the FTDI and
  LTT2GO adapters are I/O without logic of their own; `tss2-rc` is formatting;
  logging and key-value parsing keep no state of the protocol.

## 7. Plan

Done, in this order, the most used path first: transports and their contract;
the SYS buffer; the ESYS state machine with its abstract specification; ESYS_TR
objects; all commands of SYS and ESYS; the JSON of FAPI; policies; proofs about
ESYS, ESYS_TR, the pattern of the commands, both transports with their
refinement, the SYS buffer, the stack of policies, the commands from rules their
tables satisfy, and what a policy leaves behind.

Next, in order:

1. FAPI: session and key-loading state machines and provisioning, with the
   clean-up each error path owes (sessions flushed, keys closed, state reset).
2. Transports: swtpm (data and control channel), the TIS register protocol of
   `tcti-i2c-helper.c` and `tcti-spi-helper.c` (locality, burst count, status,
   retries), cmd and libtpms as further implementations of TctiContract; the
   loader with its search order and its clean-up after failures.
3. A composition of SysContext with TctiContract in place of its built-in TCTI,
   and of EsysContext with the stages of SysContext.
4. Marshalling: the offset and bound rules as operators, against a reference
   definition.

## 8. Running

```
tlc -config EsysCommands.cfg EsysContext
tlapm EsysContextProofs.tla
```

Each run of section 3 has a configuration of its own name, and the table names
its module (`SysNullParam` uses MCSysContext, `PolicySession`
MCPolicyExecution, the others the module of the run above them). All runs finish
within two minutes.
