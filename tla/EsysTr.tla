------------------------------- MODULE EsysTr --------------------------------
(***************************************************************************)
(* The ESYS_TR objects of an ESYS_CONTEXT (esys_tr.c): the list of         *)
(* metadata nodes, their reference counts, and the two-round asynchronous  *)
(* Esys_TR_FromTPMPublic, which opens an object that exists in the TPM.    *)
(* Loading, flushing and making an object persistent add and remove nodes  *)
(* too; these commands are one step here (EsysContext has the state        *)
(* machine every command runs).                                            *)
(*                                                                         *)
(* The list is a set of nodes: a new node goes to its front and gets the   *)
(* largest ESYS_TR, so the first node of the list with a TPM handle is the *)
(* one with the largest ESYS_TR.  An object is known by its name, a hash   *)
(* of its public area: 1, 2, ... here; name 0 stands for no object, or for *)
(* a node whose rsrcType is not yet set.                                   *)
(***************************************************************************)
EXTENDS Integers, FiniteSets

CONSTANTS
    Transient, Persistent,  \* TPM handles; NV indices behave as persistent ones
    MaxTr,                  \* bound on esys_handle_cnt
    MaxNames,               \* number of different objects
    MaxRefs,                \* bound on the references held to one ESYS_TR
    OpenFaults,             \* may an Esys_TR_FromTPMPublic fail by itself?
    Apps                    \* the applications: one that is "waiting" leaves ESYS_TRs
                            \* alone while an Esys_TR_FromTPMPublic is running, an
                            \* "eager" one does not

ASSUME TrAssumption ==
    /\ Transient \cap Persistent = {}
    /\ MaxTr \in Nat /\ MaxNames \in Nat /\ MaxRefs \in Nat \ {0}
    /\ OpenFaults \in BOOLEAN /\ Apps \subseteq {"waiting", "eager"}

VARIABLES
    app,              \* the application (never changes)
    rsrc_list, esys_handle_cnt,
    esys_handle,      \* the ESYS_TR that is being opened
    sav_session,      \* is there a session for the second round?
    state,            \* of the context
    pending,          \* TPM handle and session of the ReadPublic that was sent
    tpm,              \* name of the object at each handle
    held,             \* references the application holds (history)
    spoiled,          \* ESYS_TRs that were not opened by Esys_TR_FromTPMPublic,
                      \* or of which an opening failed (history)
    wanted,           \* the TPM handle and session the application asked to open
                      \* an object with (history)
    last              \* what the last call achieved (history)

context == <<rsrc_list, esys_handle_cnt, esys_handle, sav_session, state, pending>>
vars == <<app, rsrc_list, esys_handle_cnt, esys_handle, sav_session, state, pending,
          tpm, held, spoiled, wanted, last>>

Handles == Transient \cup Persistent
Trs == 1..MaxTr
Node == [tr : Trs, handle : Handles, name : 0..MaxNames, refs : 0..MaxRefs]
Query == [handle : Handles, session : BOOLEAN]
Nothing == [op |-> "none", tr |-> 0]

AppWaits == app = "waiting"

ContextTypeOK ==
    /\ rsrc_list \subseteq Node
    /\ esys_handle_cnt \in 1..MaxTr + 1
    /\ esys_handle \in 0..MaxTr
    /\ sav_session \in BOOLEAN
    /\ state \in {"INIT", "SENT", "INTERNALERROR"}
    /\ pending \in Query /\ wanted \in Query
    /\ tpm \in [Handles -> 0..MaxNames]
    /\ held \in [Trs -> 0..MaxRefs]
    /\ spoiled \subseteq Trs
    /\ last \in [op : {"none", "opened", "evicted"}, tr : 0..MaxTr]

TypeOK == app \in Apps /\ ContextTypeOK

\* Esys_Initialize.
Init ==
    /\ app \in Apps
    /\ rsrc_list = {} /\ esys_handle_cnt = 1 /\ esys_handle = 0
    /\ sav_session = FALSE /\ state = "INIT"
    /\ pending \in [handle : Handles, session : {FALSE}]
    /\ tpm = [h \in Handles |-> 0]
    /\ held = [tr \in Trs |-> 0] /\ spoiled = {} /\ wanted = pending
    /\ last = Nothing

-----------------------------------------------------------------------------
(* The list.                                                               *)

NodesOf(list, tr) == {n \in list : n.tr = tr}

\* A bug: the search for a TPM handle takes any node.
NodesForAny(list, h) == list

NodesFor(list, h) == {n \in list : n.handle = h}

\* The node, if any, that a search of the list for a TPM handle finds first.
Found(list, h) == {n \in NodesFor(list, h) : \A m \in NodesFor(list, h) : m.tr <= n.tr}

\* A bug: the count of a node nobody opened goes below zero.
CloseUnderflow(list, tr) ==
    (list \ NodesOf(list, tr))
    \cup {[n EXCEPT !.refs = @ - 1] : n \in {m \in NodesOf(list, tr) : m.refs # 1}}

\* Esys_TR_Close: a node that is referenced more than once loses a reference,
\* another one is removed; an unknown ESYS_TR changes nothing.
Esys_TR_Close(list, tr) ==
    (list \ NodesOf(list, tr))
    \cup {[n EXCEPT !.refs = @ - 1] : n \in {m \in NodesOf(list, tr) : m.refs > 1}}

\* A bug: the counter is not advanced past the handle just used.
CreateResourceStale(h, name) ==
    /\ rsrc_list' = rsrc_list \cup {[tr |-> esys_handle_cnt, handle |-> h, name |-> name, refs |-> 0]}
    /\ UNCHANGED esys_handle_cnt

\* esys_CreateResourceObject for a handle taken from esys_handle_cnt.
CreateResourceObject(h, name) ==
    /\ esys_handle_cnt <= MaxTr
    /\ rsrc_list' = rsrc_list \cup {[tr |-> esys_handle_cnt, handle |-> h, name |-> name, refs |-> 0]}
    /\ esys_handle_cnt' = esys_handle_cnt + 1

-----------------------------------------------------------------------------
(* Esys_TR_FromTPMPublic.                                                  *)

\* The ReadPublic command is sent.
OpenSends(list, h, session) ==
    /\ rsrc_list' = list
    /\ state' = "SENT"
    /\ pending' = [handle |-> h, session |-> session]
    /\ UNCHANGED spoiled

\* It is refused or fails: error_cleanup closes the node, also one that was
\* there before.
OpenFails(list, node) ==
    /\ rsrc_list' = Esys_TR_Close(list, node.tr)
    /\ spoiled' = spoiled \cup {node.tr}
    /\ UNCHANGED pending

\* ReadPublic for a node that is on the list.
ReadPublic(list, node, st, session) ==
    /\ esys_handle' = node.tr
    /\ \/ st = "INIT" /\ OpenSends(list, node.handle, session)
       \/ /\ st # "INIT" \/ OpenFaults
          /\ OpenFails(list, node)
          /\ state' \in IF st = "INIT" THEN {"INIT", "INTERNALERROR"} ELSE {st}

\* Esys_TR_FromTPMPublic_Async on a list and a context state: the node of a
\* known handle is used, and queried with the session ...
QueryKnown(list, st, h, session) ==
    /\ esys_handle_cnt <= MaxTr
    /\ esys_handle_cnt' = esys_handle_cnt + 1
    /\ \E node \in Found(list, h) : ReadPublic(list, node, st, session)
    /\ UNCHANGED sav_session

\* ... and a new one is first queried without.
QueryNew(list, st, h, session) ==
    /\ NodesFor(list, h) = {}
    /\ esys_handle_cnt < MaxTr
    /\ esys_handle_cnt' = esys_handle_cnt + 2
    /\ LET node == [tr |-> esys_handle_cnt + 1, handle |-> h, name |-> 0, refs |-> 0]
       IN  ReadPublic(list \cup {node}, node, st, FALSE)
    /\ sav_session' = session

FromTPMPublic(list, st, h, session) ==
    QueryKnown(list, st, h, session) \/ QueryNew(list, st, h, session)

Esys_TR_FromTPMPublic_Async ==
    /\ AppWaits => state # "SENT"
    /\ \E h \in Handles, s \in BOOLEAN :
          FromTPMPublic(rsrc_list, state, h, s) /\ wanted' = [handle |-> h, session |-> s]
    /\ last' = Nothing
    /\ UNCHANGED <<tpm, held>>

\* Esys_TR_FromTPMPublic_Finish finds the node that is being opened.
Opening(n) == state = "SENT" /\ n \in NodesOf(rsrc_list, esys_handle)

\* The node is gone: BAD_TR, and the response is not fetched.
FinishUnknown ==
    /\ AppWaits => state = "SENT"
    /\ NodesOf(rsrc_list, esys_handle) = {}
    /\ last' = Nothing
    /\ UNCHANGED <<context, tpm, held, spoiled, wanted>>

\* No command is outstanding: BAD_SEQUENCE, and the node opened last is closed.
FinishRefused ==
    /\ ~AppWaits /\ state # "SENT"
    /\ \E n \in NodesOf(rsrc_list, esys_handle) : OpenFails(rsrc_list, n)
    /\ last' = Nothing
    /\ UNCHANGED <<esys_handle_cnt, esys_handle, sav_session, state, tpm, held, wanted>>

\* ReadPublic_Finish fails, for the TPM has no such object or otherwise, or
\* the name differs from the one the node has.
FinishFails ==
    /\ \E n \in rsrc_list :
          /\ Opening(n)
          /\ \/ tpm[pending.handle] = 0 \/ OpenFaults
             \/ n.name \notin {0, tpm[pending.handle]}
          /\ OpenFails(rsrc_list, n)
    /\ state' \in {"INIT"} \cup IF OpenFaults THEN {"INTERNALERROR"} ELSE {}
    /\ last' = Nothing
    /\ UNCHANGED <<esys_handle_cnt, esys_handle, sav_session, tpm, held, wanted>>

\* A bug: the metadata is taken from every answer.
first_call_always(n) == TRUE

\* Has the object not been initialized yet?
first_call(n) == n.name = 0

\* The node with what the TPM answered.
Described(n) == IF first_call(n) THEN [n EXCEPT !.name = tpm[pending.handle]] ELSE n

Answered(n) ==
    /\ Opening(n)
    /\ tpm[pending.handle] # 0
    /\ first_call(n) \/ n.name = tpm[pending.handle]

\* A bug: the session saved for the second round is forgotten.
second_round_never(n) == FALSE

\* Is the query to be repeated with the session?
second_round(n) == sav_session /\ first_call(n)

\* The answer to the first round, which ran without the session, names the
\* object; the second one is started and TRY_AGAIN returned.
FinishFirstRound ==
    /\ \E n \in rsrc_list :
          /\ Answered(n) /\ second_round(n)
          /\ LET list == (rsrc_list \ {n}) \cup {Described(n)}
             IN  \/ FromTPMPublic(list, "INIT", n.handle, TRUE)
                 \/ /\ OpenFaults              \* init_session_tab fails
                    /\ rsrc_list' = list /\ state' = "INIT"
                    /\ spoiled' = spoiled \cup {n.tr}
                    /\ UNCHANGED <<esys_handle_cnt, esys_handle, sav_session, pending>>
    /\ last' = Nothing
    /\ UNCHANGED <<tpm, held, wanted>>

\* A bug: opening a known object takes no reference.
ReferencedOnce(n) == [Described(n) EXCEPT !.refs = 1]

Referenced(n) == [Described(n) EXCEPT !.refs = @ + 1]

\* The object is opened and its ESYS_TR returned.
FinishOpens ==
    /\ \E n \in rsrc_list :
          /\ Answered(n) /\ ~second_round(n)
          /\ n.refs < MaxRefs /\ held[n.tr] < MaxRefs
          /\ rsrc_list' = (rsrc_list \ {n}) \cup {Referenced(n)}
          /\ held' = [held EXCEPT ![n.tr] = @ + 1]
          /\ last' = [op |-> "opened", tr |-> n.tr]
    /\ state' = "INIT"
    /\ UNCHANGED <<esys_handle_cnt, esys_handle, sav_session, pending, tpm, spoiled, wanted>>

Esys_TR_FromTPMPublic_Finish ==
    FinishUnknown \/ FinishRefused \/ FinishFails \/ FinishFirstRound \/ FinishOpens

-----------------------------------------------------------------------------
(* The other calls that add or remove nodes; the application makes them    *)
(* for the ESYS_TRs it holds.                                              *)

\* Esys_Load, Esys_CreatePrimary and their like create an object.
Esys_Load ==
    /\ state = "INIT"
    /\ \E h \in Transient, name \in 1..MaxNames :
          /\ tpm[h] = 0
          /\ tpm' = [tpm EXCEPT ![h] = name]
          /\ CreateResourceObject(h, name)
    /\ held' = [held EXCEPT ![esys_handle_cnt] = 1]
    /\ spoiled' = spoiled \cup {esys_handle_cnt}
    /\ last' = Nothing
    /\ UNCHANGED <<esys_handle, sav_session, state, pending, wanted>>

Close ==
    /\ AppWaits => state # "SENT"
    /\ \E tr \in Trs :
          /\ held[tr] > 0
          /\ rsrc_list' = Esys_TR_Close(rsrc_list, tr)
          /\ held' = [held EXCEPT ![tr] = @ - 1]
    /\ last' = Nothing
    /\ UNCHANGED <<esys_handle_cnt, esys_handle, sav_session, state, pending, tpm, spoiled, wanted>>

\* Esys_FlushContext drops all references, for the object is gone.
Esys_FlushContext ==
    /\ state = "INIT"
    /\ \E n \in rsrc_list :
          /\ held[n.tr] > 0 /\ n.handle \in Transient /\ tpm[n.handle] # 0
          /\ tpm' = [tpm EXCEPT ![n.handle] = 0]
          /\ rsrc_list' = Esys_TR_Close((rsrc_list \ {n}) \cup {[n EXCEPT !.refs = 0]}, n.tr)
          /\ held' = [held EXCEPT ![n.tr] = 0]
    /\ last' = Nothing
    /\ UNCHANGED <<esys_handle_cnt, esys_handle, sav_session, state, pending, spoiled, wanted>>

\* Esys_EvictControl copies a transient object to a persistent handle ...
EvictCopies(n, h) ==
    /\ n.handle \in Transient /\ tpm[n.handle] # 0 /\ tpm[h] = 0
    /\ tpm' = [tpm EXCEPT ![h] = tpm[n.handle]]
    /\ CreateResourceObject(h, n.name)
    /\ held' = [held EXCEPT ![esys_handle_cnt] = 1]
    /\ spoiled' = spoiled \cup {esys_handle_cnt}
    /\ last' = Nothing

\* ... or deletes a persistent one and closes its ESYS_TR.
EvictDeletes(n) ==
    /\ n.handle \in Persistent /\ tpm[n.handle] # 0
    /\ tpm' = [tpm EXCEPT ![n.handle] = 0]
    /\ rsrc_list' = Esys_TR_Close(rsrc_list, n.tr)
    /\ held' = [held EXCEPT ![n.tr] = @ - 1]
    /\ last' = [op |-> "evicted", tr |-> n.tr]
    /\ UNCHANGED <<esys_handle_cnt, spoiled>>

Esys_EvictControl ==
    /\ state = "INIT"
    /\ \E n \in rsrc_list :
          /\ held[n.tr] > 0
          /\ EvictDeletes(n) \/ \E h \in Persistent : EvictCopies(n, h)
    /\ UNCHANGED <<esys_handle, sav_session, state, pending, wanted>>

\* Another program creates or deletes a persistent object (external).
OtherProgram ==
    /\ \E h \in Persistent, name \in 0..MaxNames :
          /\ (name = 0) # (tpm[h] = 0)
          /\ tpm' = [tpm EXCEPT ![h] = name]
    /\ UNCHANGED <<context, held, spoiled, wanted, last>>

Next ==
    /\ \/ Esys_TR_FromTPMPublic_Async \/ Esys_TR_FromTPMPublic_Finish
       \/ Esys_Load \/ Close \/ Esys_FlushContext \/ Esys_EvictControl
       \/ OtherProgram
    /\ UNCHANGED app

Spec == Init /\ [][Next]_vars

-----------------------------------------------------------------------------
(* Properties.                                                             *)

\* An ESYS_TR names one node, and one that was given out is never given out
\* again (esys_handle_cnt).
HandlesUnique ==
    /\ \A m, n \in rsrc_list : m.tr = n.tr => m = n
    /\ \A n \in rsrc_list : n.tr < esys_handle_cnt

\* An object that is only opened with Esys_TR_FromTPMPublic, and never fails
\* to, has a node just as long as the application holds it or opens it, and
\* the count is the number of references held, whichever of Esys_TR_Close,
\* Esys_FlushContext and Esys_EvictControl gave them back.  An eager application
\* may close what it is opening.
ReferencesCounted ==
    AppWaits => \A tr \in Trs \ spoiled :
        /\ held[tr] > 0 => \E n \in rsrc_list : n.tr = tr
        /\ \A n \in NodesOf(rsrc_list, tr) :
              n.refs = held[tr] /\ (held[tr] = 0 => state = "SENT" /\ esys_handle = tr)

\* Esys_TR_FromTPMPublic_Finish applies an answer of the TPM to the node of
\* the handle the application asked for, however many rounds there are.
OpenTargetKept ==
    AppWaits /\ state = "SENT" =>
        \E n \in rsrc_list : n.tr = esys_handle /\ n.handle = pending.handle /\ n.handle = wanted.handle

\* If the application passed a session, an object is returned only after the
\* TPM was asked with this session ("First without a session to retrieve some
\* metadata then with the session": Esys_TR_FromTPMPublic).
SessionUsed == AppWaits /\ last.op = "opened" /\ wanted.session => pending.session

\* An opening that takes several calls stays the one that was asked for: the same
\* handle and the same session, in both rounds of Esys_TR_FromTPMPublic.
OpeningKept == OpenTargetKept /\ SessionUsed

\* Metadata is pinned: once a node has the name of an object it keeps it, so a
\* later object at the same TPM handle is not taken for it.
NamePinned ==
    [][\A m \in rsrc_list, n \in rsrc_list' :
          m.tr = n.tr /\ m.name # 0 => n.name = m.name]_vars

\* What the application holds stays valid until it closes it ("Add reference
\* counting for Esys_TR_FromTPMPublic").
HeldIsLive ==
    \A tr \in Trs : held[tr] > 0 => \E n \in rsrc_list : n.tr = tr

\* Deleting a persistent object with Esys_EvictControl closes its ESYS_TR
\* ("verify that handle is closed on Esys_EvictControl delete").
EvictCloses == last.op = "evicted" => NodesOf(rsrc_list, last.tr) = {}

=============================================================================
