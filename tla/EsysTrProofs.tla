---------------------------- MODULE EsysTrProofs -----------------------------
(***************************************************************************)
(* Proofs about EsysTr, for any TPM handles, any number of ESYS_TRs and    *)
(* any behaviour of the application.                                       *)
(***************************************************************************)
EXTENDS EsysTr, TLAPS

-----------------------------------------------------------------------------
(* Lists of nodes.                                                         *)

\* A list on which an ESYS_TR names one node, all of them given out before c.
WellFormed(list, c) ==
    /\ list \subseteq Node
    /\ \A m, n \in list : m.tr = n.tr => m = n
    /\ \A n \in list : n.tr < c

\* No node of new has lost the name it had on old.
Pinned(new, old) ==
    \A m \in old, n \in new : m.tr = n.tr /\ m.name # 0 => n.name = m.name

\* A node with another reference count or another name.
LEMMA NodeChanges ==
  ASSUME NEW m \in Node
  PROVE  /\ \A r \in 0..MaxRefs :
              /\ [m EXCEPT !.refs = r] \in Node
              /\ [m EXCEPT !.refs = r].tr = m.tr /\ [m EXCEPT !.refs = r].name = m.name
         /\ \A k \in 0..MaxNames :
              /\ [m EXCEPT !.name = k] \in Node
              /\ [m EXCEPT !.name = k].tr = m.tr
  BY DEF Node

\* Closing an ESYS_TR keeps the list well-formed and the names of its nodes.
LEMMA CloseList ==
  ASSUME NEW list, NEW old, NEW c, NEW tr, WellFormed(list, c), Pinned(list, old)
  PROVE  WellFormed(Esys_TR_Close(list, tr), c) /\ Pinned(Esys_TR_Close(list, tr), old)
  <1> DEFINE new == Esys_TR_Close(list, tr)
  <1>1. ASSUME NEW n \in new
        PROVE  \/ n \in list /\ n.tr # tr
               \/ \E m \in list : /\ m.tr = tr /\ m.refs > 1
                                  /\ n = [m EXCEPT !.refs = @ - 1]
    BY <1>1 DEF Esys_TR_Close, NodesOf
  <1>2. ASSUME NEW n \in new
        PROVE  n \in Node /\ \E m \in list : m.tr = n.tr /\ m.name = n.name
    <2>1. CASE n \in list
      BY <2>1 DEF WellFormed
    <2>2. ASSUME NEW m \in list, m.refs > 1, n = [m EXCEPT !.refs = @ - 1]
          PROVE  n \in Node /\ m.tr = n.tr /\ m.name = n.name
      <3>1. m \in Node
        BY DEF WellFormed
      <3>2. m.refs \in 0..MaxRefs
        BY <3>1 DEF Node
      <3>3. m.refs - 1 \in 0..MaxRefs
        BY <2>2, <3>2, TrAssumption
      <3> HIDE DEF new
      <3> QED
        BY <2>2, <3>1, <3>3, NodeChanges
    <2> QED
      BY <1>1, <2>1, <2>2
  <1>3. ASSUME NEW m \in new, NEW n \in new, m.tr = n.tr PROVE m = n
    <2> DEFINE less(k) == [k EXCEPT !.refs = @ - 1]
    <2>1. \A k, l \in list : k.tr = l.tr => k = l
      BY DEF WellFormed
    <2>2. \A k \in list : less(k).tr = k.tr
      BY DEF WellFormed, Node
    <2> HIDE DEF less, new
    <2>3. \A k \in new : \/ k \in list /\ k.tr # tr
                         \/ k.tr = tr /\ \E l \in list : l.tr = tr /\ k = less(l)
      BY <1>1, <2>2 DEF less
    <2> QED
      BY <1>3, <2>1, <2>3
  <1>4. \A n \in new : n.tr < c
    BY <1>2 DEF WellFormed
  <1>5. Pinned(new, old)
    BY <1>2 DEF Pinned
  <1> QED
    BY <1>2, <1>3, <1>4, <1>5 DEF WellFormed

\* Replacing a node by one with the same ESYS_TR, which keeps a name it has.
LEMMA ReplaceList ==
  ASSUME NEW list, NEW old, NEW c, WellFormed(list, c), Pinned(list, old),
         NEW n \in list, NEW r \in Node, r.tr = n.tr, n.name # 0 => r.name = n.name
  PROVE  WellFormed((list \ {n}) \cup {r}, c) /\ Pinned((list \ {n}) \cup {r}, old)
  BY DEF WellFormed, Pinned

\* Adding a node with a new ESYS_TR.
LEMMA AddList ==
  ASSUME NEW list, NEW c \in Int, NEW d \in Int, WellFormed(list, c), c <= d,
         NEW n \in Node, c <= n.tr, n.tr < d,
         NEW old, Pinned(list, old), \A m \in old : m.tr # n.tr
  PROVE  WellFormed(list \cup {n}, d) /\ Pinned(list \cup {n}, old)
  BY DEF WellFormed, Pinned, Node, Trs

\* A later counter does not harm.
LEMMA LaterList ==
  ASSUME NEW list, NEW c \in Int, NEW d \in Int, WellFormed(list, c), c <= d
  PROVE  WellFormed(list, d)
  BY DEF WellFormed, Node, Trs

-----------------------------------------------------------------------------
(* The inductive invariant: types, and the list is well-formed.            *)

IInv == ContextTypeOK /\ WellFormed(rsrc_list, esys_handle_cnt)

\* What a step does to the list and the counter.
ListStep ==
    /\ esys_handle_cnt' \in 1..MaxTr + 1
    /\ WellFormed(rsrc_list', esys_handle_cnt')
    /\ Pinned(rsrc_list', rsrc_list)

\* What a step does to the other variables.
TypeStep ==
    /\ esys_handle' \in 0..MaxTr
    /\ sav_session' \in BOOLEAN
    /\ state' \in {"INIT", "SENT", "INTERNALERROR"}
    /\ pending' \in Query
    /\ spoiled' \subseteq Trs

\* An invariant list is pinned to itself.
LEMMA SelfPinned == ASSUME IInv PROVE Pinned(rsrc_list, rsrc_list)
  BY DEF IInv, WellFormed, Pinned

\* A step that leaves the list and the counter alone.
LEMMA KeepList ==
  ASSUME IInv, UNCHANGED <<rsrc_list, esys_handle_cnt>>
  PROVE  ListStep
  BY SelfPinned DEF ListStep, IInv, ContextTypeOK

\* ReadPublic for a node of a well-formed list.
LEMMA ReadPublicStep ==
  ASSUME IInv, NEW list, NEW c \in 1..MaxTr + 1, WellFormed(list, c),
         Pinned(list, rsrc_list), NEW node \in list, NEW session \in BOOLEAN,
         NEW st \in {"INIT", "SENT", "INTERNALERROR"},
         ReadPublic(list, node, st, session)
  PROVE  /\ WellFormed(rsrc_list', c) /\ Pinned(rsrc_list', rsrc_list)
         /\ esys_handle' \in 0..MaxTr
         /\ state' \in {"INIT", "SENT", "INTERNALERROR"}
         /\ pending' \in Query
         /\ spoiled' \subseteq Trs
  <1>1. node \in Node /\ node.tr \in Trs /\ node.handle \in Handles
    BY DEF WellFormed, Node
  <1>2. esys_handle' \in 0..MaxTr
    BY <1>1, TrAssumption DEF ReadPublic, Trs
  <1>3. CASE OpenSends(list, node.handle, session)
    BY <1>1, <1>2, <1>3 DEF OpenSends, Query, IInv, ContextTypeOK
  <1>4. CASE /\ OpenFails(list, node)
             /\ state' \in IF st = "INIT" THEN {"INIT", "INTERNALERROR"} ELSE {st}
    <2>1. WellFormed(rsrc_list', c) /\ Pinned(rsrc_list', rsrc_list)
      BY <1>4, CloseList DEF OpenFails
    <2>2. pending' \in Query /\ spoiled' \subseteq Trs
      BY <1>1, <1>4 DEF OpenFails, IInv, ContextTypeOK
    <2> QED
      BY <1>2, <1>4, <2>1, <2>2
  <1> QED
    BY <1>3, <1>4 DEF ReadPublic

\* Esys_TR_FromTPMPublic_Async on a well-formed list.
LEMMA FromTPMPublicStep ==
  ASSUME IInv, NEW list, WellFormed(list, esys_handle_cnt), Pinned(list, rsrc_list),
         NEW st \in {"INIT", "SENT", "INTERNALERROR"},
         NEW h \in Handles, NEW session \in BOOLEAN,
         FromTPMPublic(list, st, h, session)
  PROVE  ListStep /\ TypeStep
  <1>0. esys_handle_cnt \in 1..MaxTr + 1 /\ esys_handle_cnt \in Int /\ sav_session \in BOOLEAN
    BY TrAssumption DEF IInv, ContextTypeOK
  <1>1. CASE QueryKnown(list, st, h, session)
    <2>1. PICK node \in list : ReadPublic(list, node, st, session)
      BY <1>1 DEF QueryKnown, Found, NodesFor
    <2>2. esys_handle_cnt' \in 1..MaxTr + 1 /\ esys_handle_cnt' \in Int
          /\ esys_handle_cnt <= esys_handle_cnt'
      BY <1>0, <1>1, TrAssumption DEF QueryKnown
    <2>3. WellFormed(list, esys_handle_cnt')
      BY <1>0, <2>2, LaterList
    <2>4. sav_session' \in BOOLEAN
      BY <1>0, <1>1 DEF QueryKnown
    <2> QED
      BY <2>1, <2>2, <2>3, <2>4, ReadPublicStep DEF ListStep, TypeStep
  <1>2. CASE QueryNew(list, st, h, session)
    <2> DEFINE node == [tr |-> esys_handle_cnt + 1, handle |-> h, name |-> 0, refs |-> 0]
    <2>1. /\ esys_handle_cnt' \in 1..MaxTr + 1 /\ esys_handle_cnt' \in Int
          /\ esys_handle_cnt <= node.tr /\ node.tr < esys_handle_cnt'
          /\ esys_handle_cnt <= esys_handle_cnt'
      BY <1>0, <1>2, TrAssumption DEF QueryNew
    <2>2. node \in Node
      BY <1>0, <1>2, TrAssumption DEF QueryNew, Node, Trs
    <2>3. \A m \in rsrc_list : m.tr # node.tr
      BY <1>0 DEF IInv, WellFormed, Node, Trs
    <2>4. /\ WellFormed(list \cup {node}, esys_handle_cnt')
          /\ Pinned(list \cup {node}, rsrc_list)
      BY <1>0, <2>1, <2>2, <2>3, AddList
    <2>5. ReadPublic(list \cup {node}, node, st, FALSE) /\ sav_session' \in BOOLEAN
      BY <1>2 DEF QueryNew
    <2> QED
      BY <2>1, <2>4, <2>5, ReadPublicStep DEF ListStep, TypeStep
  <1> QED
    BY <1>1, <1>2 DEF FromTPMPublic

\* esys_CreateResourceObject for the next ESYS_TR.
LEMMA CreateStep ==
  ASSUME IInv, NEW h \in Handles, NEW name \in 0..MaxNames,
         CreateResourceObject(h, name)
  PROVE  ListStep /\ esys_handle_cnt \in Trs
  <1> DEFINE node == [tr |-> esys_handle_cnt, handle |-> h, name |-> name, refs |-> 0]
  <1>0. esys_handle_cnt \in 1..MaxTr + 1 /\ esys_handle_cnt \in Int
    BY TrAssumption DEF IInv, ContextTypeOK
  <1>1. /\ esys_handle_cnt' \in 1..MaxTr + 1 /\ esys_handle_cnt' \in Int
        /\ esys_handle_cnt <= node.tr /\ node.tr < esys_handle_cnt'
        /\ esys_handle_cnt <= esys_handle_cnt'
    BY <1>0, TrAssumption DEF CreateResourceObject
  <1>2. node \in Node /\ esys_handle_cnt \in Trs
    BY <1>0, TrAssumption DEF CreateResourceObject, Node, Trs
  <1>3. \A m \in rsrc_list : m.tr # node.tr
    BY <1>0 DEF IInv, WellFormed, Node, Trs
  <1>4. WellFormed(rsrc_list, esys_handle_cnt) /\ Pinned(rsrc_list, rsrc_list)
    BY SelfPinned DEF IInv
  <1>5. rsrc_list' = rsrc_list \cup {node}
    BY DEF CreateResourceObject
  <1> HIDE DEF node
  <1>6. WellFormed(rsrc_list', esys_handle_cnt') /\ Pinned(rsrc_list', rsrc_list)
    BY <1>0, <1>1, <1>2, <1>3, <1>4, <1>5, AddList
  <1> QED
    BY <1>1, <1>2, <1>6 DEF ListStep

\* A step that closes an ESYS_TR.
LEMMA CloseStep ==
  ASSUME IInv, NEW tr, rsrc_list' = Esys_TR_Close(rsrc_list, tr), UNCHANGED esys_handle_cnt
  PROVE  ListStep
  BY CloseList, SelfPinned DEF IInv, ContextTypeOK, ListStep

-----------------------------------------------------------------------------
(* One lemma per action.                                                   *)

\* Esys_TR_FromTPMPublic_Async, called by the application.
LEMMA AsyncStep ==
  ASSUME IInv, Esys_TR_FromTPMPublic_Async
  PROVE  IInv' /\ Pinned(rsrc_list', rsrc_list)
  <1>1. PICK h \in Handles, s \in BOOLEAN :
           FromTPMPublic(rsrc_list, state, h, s) /\ wanted' = [handle |-> h, session |-> s]
    BY DEF Esys_TR_FromTPMPublic_Async
  <1>2. ListStep /\ TypeStep
    BY <1>1, SelfPinned, FromTPMPublicStep DEF IInv, ContextTypeOK
  <1>3. wanted' \in Query
    BY <1>1 DEF Query
  <1>4. UNCHANGED <<tpm, held>> /\ last' = Nothing
    BY DEF Esys_TR_FromTPMPublic_Async
  <1>5. last' \in [op : {"none", "opened", "evicted"}, tr : 0..MaxTr]
    BY <1>4, TrAssumption DEF Nothing
  <1> QED
    BY <1>2, <1>3, <1>4, <1>5 DEF IInv, ContextTypeOK, ListStep, TypeStep, WellFormed

\* The node with the name the TPM answered.
LEMMA DescribedNode ==
  ASSUME IInv, NEW n \in rsrc_list
  PROVE  /\ n \in Node /\ Described(n) \in Node /\ Described(n).tr = n.tr
         /\ n.name # 0 => Described(n).name = n.name
         /\ Described(n).refs = n.refs
  <1>1. n \in Node
    BY DEF IInv, WellFormed
  <1>2. pending.handle \in Handles /\ tpm[pending.handle] \in 0..MaxNames
    BY DEF IInv, ContextTypeOK, Query
  <1> QED
    BY <1>1, <1>2 DEF Described, first_call, Node

\* The end of the first round.
LEMMA FirstRoundStep ==
  ASSUME IInv, FinishFirstRound
  PROVE  IInv' /\ Pinned(rsrc_list', rsrc_list)
  <1>1. PICK n \in rsrc_list :
           LET list == (rsrc_list \ {n}) \cup {Described(n)}
           IN  \/ FromTPMPublic(list, "INIT", n.handle, TRUE)
               \/ /\ rsrc_list' = list /\ state' = "INIT"
                  /\ spoiled' = spoiled \cup {n.tr}
                  /\ UNCHANGED <<esys_handle_cnt, esys_handle, sav_session, pending>>
    BY DEF FinishFirstRound
  <1> DEFINE list == (rsrc_list \ {n}) \cup {Described(n)}
  <1>2. n \in Node /\ n.handle \in Handles /\ n.tr \in Trs
    BY DEF IInv, WellFormed, Node
  <1>3. WellFormed(list, esys_handle_cnt) /\ Pinned(list, rsrc_list)
    <2>1. WellFormed(rsrc_list, esys_handle_cnt) /\ Pinned(rsrc_list, rsrc_list)
      BY SelfPinned DEF IInv
    <2> QED
      BY <2>1, DescribedNode, ReplaceList
  <1> HIDE DEF list
  <1>4. ListStep /\ TypeStep
    <2>1. CASE FromTPMPublic(list, "INIT", n.handle, TRUE)
      BY <1>2, <1>3, <2>1, FromTPMPublicStep
    <2>2. CASE /\ rsrc_list' = list /\ state' = "INIT"
               /\ spoiled' = spoiled \cup {n.tr}
               /\ UNCHANGED <<esys_handle_cnt, esys_handle, sav_session, pending>>
      BY <1>2, <1>3, <2>2 DEF ListStep, TypeStep, IInv, ContextTypeOK
    <2> QED
      BY <1>1, <2>1, <2>2 DEF list
  <1>5. UNCHANGED <<tpm, held, wanted>> /\ last' = Nothing
    BY DEF FinishFirstRound
  <1>6. last' \in [op : {"none", "opened", "evicted"}, tr : 0..MaxTr]
    BY <1>5, TrAssumption DEF Nothing
  <1> QED
    BY <1>4, <1>5, <1>6 DEF IInv, ContextTypeOK, ListStep, TypeStep, WellFormed

\* An object is opened.
LEMMA OpensStep ==
  ASSUME IInv, FinishOpens
  PROVE  IInv' /\ Pinned(rsrc_list', rsrc_list)
  <1>1. PICK n \in rsrc_list :
           /\ n.refs < MaxRefs /\ held[n.tr] < MaxRefs
           /\ rsrc_list' = (rsrc_list \ {n}) \cup {Referenced(n)}
           /\ held' = [held EXCEPT ![n.tr] = @ + 1]
           /\ last' = [op |-> "opened", tr |-> n.tr]
    BY DEF FinishOpens
  <1>2. n \in Node /\ n.tr \in Trs /\ n.refs \in 0..MaxRefs /\ n.refs + 1 \in 0..MaxRefs
    BY <1>1, TrAssumption DEF IInv, WellFormed, Node
  <1>3. /\ Referenced(n) \in Node /\ Referenced(n).tr = n.tr
        /\ n.name # 0 => Referenced(n).name = n.name
    <2>1. Referenced(n) = [Described(n) EXCEPT !.refs = n.refs + 1]
      BY DescribedNode DEF Referenced
    <2> HIDE DEF Described
    <2> QED
      BY <1>2, <2>1, DescribedNode, NodeChanges
  <1>4. WellFormed(rsrc_list, esys_handle_cnt) /\ Pinned(rsrc_list, rsrc_list)
    BY SelfPinned DEF IInv
  <1>5. WellFormed(rsrc_list', esys_handle_cnt) /\ Pinned(rsrc_list', rsrc_list)
    BY <1>1, <1>3, <1>4, ReplaceList
  <1>6. held' \in [Trs -> 0..MaxRefs]
    BY <1>1, <1>2, TrAssumption DEF IInv, ContextTypeOK
  <1>7. last' \in [op : {"none", "opened", "evicted"}, tr : 0..MaxTr]
    BY <1>1, <1>2, TrAssumption DEF Trs
  <1>8. /\ state' = "INIT"
        /\ UNCHANGED <<esys_handle_cnt, esys_handle, sav_session, pending, tpm, spoiled, wanted>>
    BY DEF FinishOpens
  <1> QED
    BY <1>5, <1>6, <1>7, <1>8 DEF IInv, ContextTypeOK, WellFormed

\* An opening fails, or Finish is called without one.
LEMMA FailsStep ==
  ASSUME IInv, FinishFails \/ FinishRefused
  PROVE  IInv' /\ Pinned(rsrc_list', rsrc_list)
  <1>1. PICK n \in rsrc_list : OpenFails(rsrc_list, n)
    BY DEF FinishFails, FinishRefused, NodesOf
  <1>2. UNCHANGED <<esys_handle_cnt, esys_handle, sav_session, tpm, held, wanted>>
    BY DEF FinishFails, FinishRefused
  <1>3. state' \in {"INIT", "SENT", "INTERNALERROR"}
    BY DEF FinishFails, FinishRefused, IInv, ContextTypeOK
  <1>4. ListStep
    BY <1>1, <1>2, CloseStep DEF OpenFails
  <1>5. pending' \in Query /\ spoiled' \subseteq Trs
    BY <1>1 DEF OpenFails, IInv, ContextTypeOK, Node
  <1>6. last' \in [op : {"none", "opened", "evicted"}, tr : 0..MaxTr]
    BY TrAssumption DEF FinishFails, FinishRefused, Nothing
  <1> QED
    BY <1>2, <1>3, <1>4, <1>5, <1>6 DEF IInv, ContextTypeOK, ListStep, WellFormed

\* Esys_Load.
LEMMA LoadStep ==
  ASSUME IInv, Esys_Load
  PROVE  IInv' /\ Pinned(rsrc_list', rsrc_list)
  <1>1. PICK h \in Transient, name \in 1..MaxNames :
           tpm' = [tpm EXCEPT ![h] = name] /\ CreateResourceObject(h, name)
    BY DEF Esys_Load
  <1>2. h \in Handles /\ name \in 0..MaxNames
    BY TrAssumption DEF Handles
  <1>3. ListStep /\ esys_handle_cnt \in Trs
    BY <1>1, <1>2, CreateStep
  <1>4. tpm' \in [Handles -> 0..MaxNames]
    BY <1>1, <1>2 DEF IInv, ContextTypeOK
  <1>5. held' \in [Trs -> 0..MaxRefs] /\ spoiled' \subseteq Trs
    BY <1>3, TrAssumption DEF Esys_Load, IInv, ContextTypeOK
  <1>6. last' \in [op : {"none", "opened", "evicted"}, tr : 0..MaxTr]
    BY TrAssumption DEF Esys_Load, Nothing
  <1>7. UNCHANGED <<esys_handle, sav_session, state, pending, wanted>>
    BY DEF Esys_Load
  <1> QED
    BY <1>3, <1>4, <1>5, <1>6, <1>7 DEF IInv, ContextTypeOK, ListStep, WellFormed

\* Esys_TR_Close, called by the application.
LEMMA ApplicationCloseStep ==
  ASSUME IInv, Close
  PROVE  IInv' /\ Pinned(rsrc_list', rsrc_list)
  <1>1. PICK tr \in Trs :
           /\ held[tr] > 0
           /\ rsrc_list' = Esys_TR_Close(rsrc_list, tr)
           /\ held' = [held EXCEPT ![tr] = @ - 1]
    BY DEF Close
  <1>2. UNCHANGED <<esys_handle_cnt, esys_handle, sav_session, state, pending, tpm, spoiled, wanted>>
    BY DEF Close
  <1>3. ListStep
    BY <1>1, <1>2, CloseStep
  <1>4. held' \in [Trs -> 0..MaxRefs]
    BY <1>1, TrAssumption DEF IInv, ContextTypeOK
  <1>5. last' \in [op : {"none", "opened", "evicted"}, tr : 0..MaxTr]
    BY TrAssumption DEF Close, Nothing
  <1> QED
    BY <1>2, <1>3, <1>4, <1>5 DEF IInv, ContextTypeOK, ListStep, WellFormed

\* Esys_FlushContext: the count is reset, then the node is closed.
LEMMA FlushStep ==
  ASSUME IInv, Esys_FlushContext
  PROVE  IInv' /\ Pinned(rsrc_list', rsrc_list)
  <1>1. PICK n \in rsrc_list :
           /\ tpm' = [tpm EXCEPT ![n.handle] = 0]
           /\ rsrc_list' = Esys_TR_Close((rsrc_list \ {n}) \cup {[n EXCEPT !.refs = 0]}, n.tr)
           /\ held' = [held EXCEPT ![n.tr] = 0]
    BY DEF Esys_FlushContext
  <1> DEFINE r == [n EXCEPT !.refs = 0]
  <1>2. n \in Node /\ 0 \in 0..MaxRefs /\ 0 \in 0..MaxNames
    BY TrAssumption DEF IInv, WellFormed
  <1>3. r \in Node /\ r.tr = n.tr /\ r.name = n.name
    BY <1>2, NodeChanges
  <1>4. WellFormed(rsrc_list, esys_handle_cnt) /\ Pinned(rsrc_list, rsrc_list)
    BY SelfPinned DEF IInv
  <1>5. rsrc_list' = Esys_TR_Close((rsrc_list \ {n}) \cup {r}, n.tr)
    BY <1>1
  <1> HIDE DEF r
  <1>6. /\ WellFormed((rsrc_list \ {n}) \cup {r}, esys_handle_cnt)
        /\ Pinned((rsrc_list \ {n}) \cup {r}, rsrc_list)
    BY <1>3, <1>4, ReplaceList
  <1>7. WellFormed(rsrc_list', esys_handle_cnt) /\ Pinned(rsrc_list', rsrc_list)
    BY <1>5, <1>6, CloseList
  <1>8. tpm' \in [Handles -> 0..MaxNames] /\ held' \in [Trs -> 0..MaxRefs]
    BY <1>1, <1>2 DEF IInv, ContextTypeOK
  <1>9. last' \in [op : {"none", "opened", "evicted"}, tr : 0..MaxTr]
    BY TrAssumption DEF Esys_FlushContext, Nothing
  <1>10. UNCHANGED <<esys_handle_cnt, esys_handle, sav_session, state, pending, spoiled, wanted>>
    BY DEF Esys_FlushContext
  <1> QED
    BY <1>7, <1>8, <1>9, <1>10 DEF IInv, ContextTypeOK, WellFormed

\* Esys_EvictControl, both ways.
LEMMA EvictStep ==
  ASSUME IInv, Esys_EvictControl
  PROVE  IInv' /\ Pinned(rsrc_list', rsrc_list)
  <1>0. UNCHANGED <<esys_handle, sav_session, state, pending, wanted>>
    BY DEF Esys_EvictControl
  <1>1. ASSUME NEW n \in rsrc_list, held[n.tr] > 0, EvictDeletes(n)
        PROVE  IInv' /\ Pinned(rsrc_list', rsrc_list)
    <2>1. n.tr \in Trs /\ n.handle \in Handles
      BY DEF IInv, WellFormed, Node
    <2>2. ListStep
      BY <1>1, CloseStep DEF EvictDeletes
    <2>3. tpm' \in [Handles -> 0..MaxNames] /\ spoiled' \subseteq Trs
      BY <1>1, <2>1, TrAssumption DEF EvictDeletes, IInv, ContextTypeOK
    <2>4. held' \in [Trs -> 0..MaxRefs]
      BY <1>1, <2>1, TrAssumption DEF EvictDeletes, IInv, ContextTypeOK
    <2>5. last' \in [op : {"none", "opened", "evicted"}, tr : 0..MaxTr]
      BY <1>1, <2>1, TrAssumption DEF EvictDeletes, Trs
    <2> QED
      BY <1>0, <2>2, <2>3, <2>4, <2>5 DEF IInv, ContextTypeOK, ListStep, WellFormed
  <1>2. ASSUME NEW n \in rsrc_list, NEW h \in Persistent, EvictCopies(n, h)
        PROVE  IInv' /\ Pinned(rsrc_list', rsrc_list)
    <2>1. n.name \in 0..MaxNames /\ n.handle \in Handles /\ h \in Handles
      BY DEF IInv, WellFormed, Node, Handles
    <2>2. ListStep /\ esys_handle_cnt \in Trs
      BY <1>2, <2>1, CreateStep DEF EvictCopies
    <2>3. tpm' \in [Handles -> 0..MaxNames]
      BY <1>2, <2>1 DEF EvictCopies, IInv, ContextTypeOK
    <2>4. held' \in [Trs -> 0..MaxRefs] /\ spoiled' \subseteq Trs
      BY <1>2, <2>2, TrAssumption DEF EvictCopies, IInv, ContextTypeOK
    <2>5. last' \in [op : {"none", "opened", "evicted"}, tr : 0..MaxTr]
      BY <1>2, TrAssumption DEF EvictCopies, Nothing
    <2> QED
      BY <1>0, <2>2, <2>3, <2>4, <2>5 DEF IInv, ContextTypeOK, ListStep, WellFormed
  <1> QED
    BY <1>1, <1>2 DEF Esys_EvictControl

\* The steps that leave the list and the counter alone.
LEMMA OtherSteps ==
  ASSUME IInv, FinishUnknown \/ OtherProgram \/ UNCHANGED vars
  PROVE  IInv' /\ Pinned(rsrc_list', rsrc_list)
  <1>1. CASE FinishUnknown
    <2>1. last' \in [op : {"none", "opened", "evicted"}, tr : 0..MaxTr]
      BY <1>1, TrAssumption DEF FinishUnknown, Nothing
    <2>2. UNCHANGED <<context, tpm, held, spoiled, wanted>>
      BY <1>1 DEF FinishUnknown
    <2> QED
      BY <2>1, <2>2, KeepList DEF context, IInv, ContextTypeOK, ListStep, WellFormed
  <1>2. CASE OtherProgram
    <2>1. tpm' \in [Handles -> 0..MaxNames]
      BY <1>2 DEF OtherProgram, IInv, ContextTypeOK, Handles
    <2>2. UNCHANGED <<context, held, spoiled, wanted, last>>
      BY <1>2 DEF OtherProgram
    <2> QED
      BY <2>1, <2>2, KeepList DEF context, IInv, ContextTypeOK, ListStep, WellFormed
  <1>3. CASE UNCHANGED vars
    BY <1>3, KeepList DEF vars, IInv, ContextTypeOK, ListStep, WellFormed
  <1> QED
    BY <1>1, <1>2, <1>3

-----------------------------------------------------------------------------
(* The theorems.                                                           *)

\* Esys_Initialize establishes the invariant.
LEMMA InitInv == Init => IInv
  <1> SUFFICES ASSUME Init PROVE IInv
    OBVIOUS
  <1>1. rsrc_list \subseteq Node /\ WellFormed(rsrc_list, esys_handle_cnt)
    BY DEF Init, WellFormed
  <1>2. esys_handle_cnt \in 1..MaxTr + 1 /\ esys_handle \in 0..MaxTr
    BY TrAssumption DEF Init
  <1>3. sav_session \in BOOLEAN /\ state \in {"INIT", "SENT", "INTERNALERROR"}
    BY DEF Init
  <1>4. pending \in Query /\ wanted \in Query
    BY DEF Init, Query
  <1>5. tpm \in [Handles -> 0..MaxNames] /\ held \in [Trs -> 0..MaxRefs] /\ spoiled \subseteq Trs
    BY TrAssumption DEF Init
  <1>6. last \in [op : {"none", "opened", "evicted"}, tr : 0..MaxTr]
    BY TrAssumption DEF Init, Nothing
  <1> QED
    BY <1>1, <1>2, <1>3, <1>4, <1>5, <1>6 DEF IInv, ContextTypeOK

\* Every step keeps it, and the names of the nodes.
LEMMA NextInv == IInv /\ [Next]_vars => IInv' /\ Pinned(rsrc_list', rsrc_list)
  BY AsyncStep, FirstRoundStep, OpensStep, FailsStep, LoadStep, ApplicationCloseStep,
     FlushStep, EvictStep, OtherSteps
  DEF Next, Esys_TR_FromTPMPublic_Finish

\* The inductive invariant holds.
THEOREM Invariance == Spec => []IInv
  BY InitInv, NextInv, PTL DEF Spec

\* Every node, count and counter of the ESYS_TR list is always of its type; in
\* particular Esys_TR_Close never takes a reference count below zero.
THEOREM TypeCorrect == Spec => []TypeOK
  <1>1. Init => app \in Apps
    BY DEF Init
  <1>2. app \in Apps /\ [Next]_vars => (app \in Apps)'
    BY DEF Next, vars
  <1>3. IInv /\ app \in Apps => TypeOK
    BY DEF IInv, TypeOK
  <1> QED
    BY <1>1, <1>2, <1>3, Invariance, PTL DEF Spec

\* esys_handle_cnt never gives out an ESYS_TR twice, however calls overlap,
\* fail and close each other's nodes.
THEOREM UniqueHandles == Spec => []HandlesUnique
  <1>1. IInv => HandlesUnique
    BY DEF IInv, WellFormed, HandlesUnique
  <1> QED
    BY <1>1, Invariance, PTL

\* A node never changes the name it has: no sequence of openings, evictions and
\* other programs' changes makes an ESYS_TR name another object.
THEOREM NamesPinned == Spec => NamePinned
  <1>1. IInv /\ [Next]_vars =>
          [\A m \in rsrc_list, n \in rsrc_list' :
              m.tr = n.tr /\ m.name # 0 => n.name = m.name]_vars
    BY NextInv DEF Pinned
  <1> QED
    BY <1>1, Invariance, PTL DEF Spec, NamePinned

-----------------------------------------------------------------------------
(* An application that waits for its openings.  While an opening runs, the *)
(* node that is opened is the one a search for its TPM handle finds: the   *)
(* second round of Esys_TR_FromTPMPublic searches again, and would leave a *)
(* node nobody references if it found another.                             *)

\* The node that is being opened, and the session it is still to be read with.
TargetInv ==
    state = "SENT" =>
        \E n \in rsrc_list :
           /\ n.tr = esys_handle /\ n.handle = pending.handle /\ n.handle = wanted.handle
           /\ \A m \in rsrc_list : m.handle = n.handle => m.tr <= n.tr
           /\ wanted.session => pending.session \/ (sav_session /\ n.name = 0)

SessionInv == last.op = "opened" /\ wanted.session => pending.session

\* ReferencesCounted of an application that waits.
CountInv ==
    \A tr \in Trs \ spoiled :
        /\ held[tr] > 0 => \E n \in rsrc_list : n.tr = tr
        /\ \A n \in rsrc_list :
              n.tr = tr => n.refs = held[tr] /\ (held[tr] = 0 => state = "SENT" /\ esys_handle = tr)

WaitInv == TargetInv /\ SessionInv /\ CountInv

\* Closing an ESYS_TR concerns its node alone.
LEMMA CloseEffect ==
  ASSUME NEW list, list \subseteq Node, NEW tr
  PROVE  LET new == Esys_TR_Close(list, tr) IN
         /\ \A m : m.tr # tr => (m \in new <=> m \in list)
         /\ \A m \in new : m.tr = tr => \E k \in list : k.tr = tr /\ k.refs > 1 /\ m.refs = k.refs - 1
         /\ \A k \in list : k.tr = tr /\ k.refs > 1 => \E m \in new : m.tr = tr
  <1> DEFINE less(k) == [k EXCEPT !.refs = @ - 1]
             new == Esys_TR_Close(list, tr)
  <1>1. \A k \in list : less(k).tr = k.tr /\ less(k).refs = k.refs - 1
    BY DEF Node
  <1> HIDE DEF less
  <1>2. \A m : m \in new <=> \/ m \in list /\ m.tr # tr
                             \/ \E k \in list : k.tr = tr /\ k.refs > 1 /\ m = less(k)
    BY DEF Esys_TR_Close, NodesOf, less
  <1> HIDE DEF new
  <1>3. \A m : m.tr # tr => (m \in new <=> m \in list)
    BY <1>1, <1>2
  <1>4. \A m \in new : m.tr = tr => \E k \in list : k.tr = tr /\ k.refs > 1 /\ m.refs = k.refs - 1
    BY <1>1, <1>2
  <1>5. \A k \in list : k.tr = tr /\ k.refs > 1 => \E m \in new : m.tr = tr
    BY <1>1, <1>2
  <1> QED
    BY <1>3, <1>4, <1>5 DEF new

\* The count of every ESYS_TR of list but that of tr is right.
CountedBut(list, tr) ==
    \A t \in Trs \ spoiled : t # tr =>
        /\ held[t] > 0 => \E n \in list : n.tr = t
        /\ \A n \in list : n.tr = t => n.refs = held[t] /\ held[t] # 0

\* Unless an opening runs, and but for the ESYS_TR it opens, every count is
\* right.
LEMMA CountedOthers ==
  ASSUME CountInv, NEW tr, state # "SENT" \/ tr = esys_handle
  PROVE  CountedBut(rsrc_list, tr)
  BY DEF CountInv, CountedBut

\* The node that is read.
LEMMA ReadPublicCount ==
  ASSUME IInv, NEW list, list \subseteq Node, \A m, n \in list : m.tr = n.tr => m = n, NEW node \in list,
         NEW st, NEW session, ReadPublic(list, node, st, session), UNCHANGED held,
         CountedBut(list, node.tr), node.tr \notin spoiled => node.refs = held[node.tr]
  PROVE  CountInv'
  <1>1. CASE OpenSends(list, node.handle, session)
    <2>1. rsrc_list' = list /\ spoiled' = spoiled /\ state' = "SENT" /\ esys_handle' = node.tr
      BY <1>1 DEF ReadPublic, OpenSends
    <2> QED
      BY <2>1 DEF CountInv, CountedBut
  <1>2. CASE OpenFails(list, node)
    <2>1. rsrc_list' = Esys_TR_Close(list, node.tr) /\ spoiled' = spoiled \cup {node.tr}
      BY <1>2 DEF OpenFails
    <2>2. \A m : m.tr # node.tr => (m \in rsrc_list' <=> m \in list)
      BY <2>1, CloseEffect
    <2> QED
      BY <2>1, <2>2 DEF CountInv, CountedBut
  <1> QED
    BY <1>1, <1>2 DEF ReadPublic

LEMMA ReadPublicTarget ==
  ASSUME NEW list, NEW node \in list, NEW st \in {"INIT", "INTERNALERROR"}, NEW session \in BOOLEAN,
         ReadPublic(list, node, st, session), \A m \in list : m.handle = node.handle => m.tr <= node.tr,
         wanted'.handle = node.handle, wanted'.session => session \/ (sav_session' /\ node.name = 0)
  PROVE  TargetInv'
  <1>1. CASE OpenSends(list, node.handle, session)
    <2>1. rsrc_list' = list /\ pending' = [handle |-> node.handle, session |-> session] /\ esys_handle' = node.tr
      BY <1>1 DEF ReadPublic, OpenSends
    <2> QED
      BY <2>1 DEF TargetInv
  <1>2. CASE state' \in IF st = "INIT" THEN {"INIT", "INTERNALERROR"} ELSE {st}
    BY <1>2 DEF TargetInv
  <1> QED
    BY <1>1, <1>2 DEF ReadPublic

LEMMA AsyncWait ==
  ASSUME IInv, AppWaits, WaitInv, Esys_TR_FromTPMPublic_Async
  PROVE  WaitInv'
  <1>0. /\ state \in {"INIT", "INTERNALERROR"} /\ rsrc_list \subseteq Node /\ WellFormed(rsrc_list, esys_handle_cnt)
        /\ esys_handle_cnt \in Nat /\ held \in [Trs -> 0..MaxRefs] /\ UNCHANGED held
    BY TrAssumption DEF IInv, ContextTypeOK, Esys_TR_FromTPMPublic_Async
  <1>1. PICK h \in Handles, s \in BOOLEAN :
           FromTPMPublic(rsrc_list, state, h, s) /\ wanted' = [handle |-> h, session |-> s]
    BY DEF Esys_TR_FromTPMPublic_Async
  <1>2. SessionInv'
    BY DEF Esys_TR_FromTPMPublic_Async, Nothing, SessionInv
  <1>3. \A tr : CountedBut(rsrc_list, tr)
    BY <1>0, CountedOthers DEF WaitInv
  <1>4. CASE QueryKnown(rsrc_list, state, h, s)
    <2>1. PICK node \in Found(rsrc_list, h) : ReadPublic(rsrc_list, node, state, s)
      BY <1>4 DEF QueryKnown
    <2>2. node \in rsrc_list /\ node.handle = h /\ \A m \in rsrc_list : m.handle = h => m.tr <= node.tr
      BY DEF Found, NodesFor
    <2>3. node.tr \notin spoiled => node.refs = held[node.tr]
      BY <1>0, <2>2 DEF WaitInv, CountInv, Node
    <2>4. CountInv'
      BY <1>0, <1>3, <2>1, <2>2, <2>3, ReadPublicCount DEF WellFormed
    <2>5. TargetInv'
      BY <1>0, <1>1, <2>1, <2>2, ReadPublicTarget
    <2> QED
      BY <1>2, <2>4, <2>5 DEF WaitInv
  <1>5. CASE QueryNew(rsrc_list, state, h, s)
    <2> DEFINE node == [tr |-> esys_handle_cnt + 1, handle |-> h, name |-> 0, refs |-> 0]
               list == rsrc_list \cup {node}
    <2>1. ReadPublic(list, node, state, FALSE) /\ sav_session' = s /\ NodesFor(rsrc_list, h) = {}
          /\ esys_handle_cnt < MaxTr
      BY <1>5 DEF QueryNew
    <2>2. node \in Node /\ node.tr = esys_handle_cnt + 1 /\ node.handle = h /\ node.name = 0 /\ node.refs = 0
      BY <1>0, <2>1, TrAssumption DEF Node, Trs
    <2>3. \A m \in rsrc_list : m.tr # node.tr
      BY <1>0 DEF WellFormed, Node, Trs
    <2>4. \A m \in rsrc_list : m.handle # h
      BY <2>1 DEF NodesFor
    <2>5. node.tr <= node.tr
      BY <1>0, <2>2
    <2> HIDE DEF node
    <2>6. /\ list \subseteq Node /\ node \in list /\ (\A m, n \in list : m.tr = n.tr => m = n)
          /\ \A m \in list : m.handle = node.handle => m.tr <= node.tr
      BY <1>0, <2>2, <2>3, <2>4, <2>5 DEF WellFormed
    <2>7. CountedBut(list, node.tr)
      <3>1. CountedBut(rsrc_list, node.tr)
        BY <1>3
      <3>2. rsrc_list \subseteq list /\ \A m \in list : m.tr # node.tr => m \in rsrc_list
        OBVIOUS
      <3> HIDE DEF list
      <3> QED
        BY <3>1, <3>2 DEF CountedBut
    <2>8. node.tr \notin spoiled => node.refs = held[node.tr]
      <3> SUFFICES ASSUME node.tr \notin spoiled PROVE held[node.tr] = 0
        BY <2>2
      <3>1. node.tr \in Trs /\ held[node.tr] \in 0..MaxRefs
        BY <1>0, <2>2 DEF Node
      <3>2. ~(held[node.tr] > 0)
        BY <2>3, <3>1 DEF WaitInv, CountInv
      <3> QED
        BY <3>1, <3>2, TrAssumption
    <2> HIDE DEF list
    <2>9. CountInv'
      BY <1>0, <2>1, <2>6, <2>7, <2>8, ReadPublicCount
    <2>10. TargetInv'
      <3>1. /\ wanted'.handle = node.handle /\ FALSE \in BOOLEAN
            /\ wanted'.session => FALSE \/ (sav_session' /\ node.name = 0)
        BY <1>1, <2>1, <2>2
      <3> QED
        BY <1>0, <2>1, <2>6, <3>1, ReadPublicTarget
    <2> QED
      BY <1>2, <2>9, <2>10 DEF WaitInv
  <1> QED
    BY <1>1, <1>4, <1>5 DEF FromTPMPublic

\* The node of an opening: Finish has found it, and it is the target.
LEMMA TargetNode ==
  ASSUME IInv, WaitInv, NEW n \in rsrc_list, Opening(n)
  PROVE  /\ state = "SENT" /\ n.tr = esys_handle /\ n.handle = pending.handle /\ n.handle = wanted.handle
         /\ \A m \in rsrc_list : m.handle = n.handle => m.tr <= n.tr
         /\ wanted.session => pending.session \/ (sav_session /\ n.name = 0)
         /\ CountedBut(rsrc_list, n.tr)
  <1>1. state = "SENT" /\ n.tr = esys_handle
    BY DEF Opening, NodesOf
  <1>2. \A m, k \in rsrc_list : m.tr = k.tr => m = k
    BY DEF IInv, WellFormed
  <1>3. CountedBut(rsrc_list, n.tr)
    BY <1>1, CountedOthers DEF WaitInv
  <1> QED
    BY <1>1, <1>2, <1>3 DEF WaitInv, TargetInv

LEMMA FirstRoundWait ==
  ASSUME IInv, AppWaits, WaitInv, FinishFirstRound
  PROVE  WaitInv'
  <1>1. PICK n \in rsrc_list :
           /\ Answered(n) /\ second_round(n)
           /\ LET list == (rsrc_list \ {n}) \cup {Described(n)}
              IN  \/ FromTPMPublic(list, "INIT", n.handle, TRUE)
                  \/ /\ rsrc_list' = list /\ state' = "INIT"
                     /\ spoiled' = spoiled \cup {n.tr}
                     /\ UNCHANGED <<esys_handle_cnt, esys_handle, sav_session, pending>>
    BY DEF FinishFirstRound
  <1> DEFINE list == (rsrc_list \ {n}) \cup {Described(n)}
             d == Described(n)
  <1>2. /\ d \in Node /\ d.tr = n.tr /\ d.refs = n.refs /\ n \in Node
    BY DescribedNode
  <1>3. d.handle = n.handle
    BY <1>2 DEF Described, Node
  <1>4. /\ n.handle = wanted.handle /\ (\A m \in rsrc_list : m.handle = n.handle => m.tr <= n.tr)
        /\ CountedBut(rsrc_list, n.tr) /\ n.tr = esys_handle
    BY <1>1, TargetNode DEF Answered
  <1>5. rsrc_list \subseteq Node /\ (\A m, k \in rsrc_list : m.tr = k.tr => m = k) /\ held \in [Trs -> 0..MaxRefs]
    BY DEF IInv, ContextTypeOK, WellFormed
  <1>6. UNCHANGED <<held, wanted>> /\ last'.op = "none"
    BY DEF FinishFirstRound, Nothing
  <1>7. n.tr \notin spoiled => n.refs = held[n.tr]
    BY <1>2 DEF WaitInv, CountInv, Node
  <1>8. SessionInv'
    BY <1>6 DEF SessionInv
  <1> HIDE DEF d
  <1>9. list = (rsrc_list \ {n}) \cup {d}
    BY DEF d
  <1> HIDE DEF list
  <1>10. /\ list \subseteq Node /\ d \in list /\ (\A m, k \in list : m.tr = k.tr => m = k)
         /\ \A m : m.tr # n.tr => (m \in list <=> m \in rsrc_list)
    BY <1>2, <1>5, <1>9
  <1>11. \A m \in list : m.handle = n.handle => m.tr <= d.tr
    <2>1. \A m \in list : m = d \/ m \in rsrc_list
      BY <1>9
    <2>2. d.tr <= d.tr
      BY <1>2 DEF Node, Trs
    <2> QED
      BY <1>2, <1>4, <2>1, <2>2
  <1>12. CountedBut(list, d.tr)
    BY <1>2, <1>4, <1>10 DEF CountedBut
  <1>13. CASE FromTPMPublic(list, "INIT", n.handle, TRUE)
    <2>1. d \in NodesFor(list, n.handle)
      BY <1>3, <1>10 DEF NodesFor
    <2>2. ~QueryNew(list, "INIT", n.handle, TRUE)
      BY <2>1 DEF QueryNew
    <2>3. PICK node \in Found(list, n.handle) : ReadPublic(list, node, "INIT", TRUE)
      BY <1>13, <2>2 DEF FromTPMPublic, QueryKnown
    <2>4. node = d
      <3>1. node \in list /\ node.handle = n.handle /\ d.tr <= node.tr
        BY <2>1 DEF Found, NodesFor
      <3>2. node.tr <= d.tr
        BY <1>11, <3>1
      <3>3. node.tr \in Int /\ d.tr \in Int
        BY <1>2, <1>10, <3>1 DEF Node, Trs
      <3>4. node.tr = d.tr
        BY <3>1, <3>2, <3>3
      <3> QED
        BY <1>10, <3>1, <3>4
    <2>5. ReadPublic(list, d, "INIT", TRUE)
      BY <2>3, <2>4
    <2>6. CountInv'
      BY <1>2, <1>6, <1>7, <1>10, <1>12, <2>5, ReadPublicCount
    <2>7. TargetInv'
      <3>1. /\ wanted'.handle = d.handle /\ "INIT" \in {"INIT", "INTERNALERROR"} /\ TRUE \in BOOLEAN
            /\ \A m \in list : m.handle = d.handle => m.tr <= d.tr
        BY <1>3, <1>4, <1>6, <1>11
      <3> QED
        BY <1>10, <2>5, <3>1, ReadPublicTarget
    <2> QED
      BY <1>8, <2>6, <2>7 DEF WaitInv
  <1>14. CASE /\ rsrc_list' = list /\ state' = "INIT"
              /\ spoiled' = spoiled \cup {n.tr}
    <2>1. CountInv'
      BY <1>2, <1>6, <1>12, <1>14 DEF CountInv, CountedBut
    <2>2. TargetInv'
      BY <1>14 DEF TargetInv
    <2> QED
      BY <1>8, <2>1, <2>2 DEF WaitInv
  <1> QED
    BY <1>1, <1>13, <1>14 DEF list, d

LEMMA OpensWait ==
  ASSUME IInv, AppWaits, WaitInv, FinishOpens
  PROVE  WaitInv'
  <1>1. PICK n \in rsrc_list :
           /\ Answered(n) /\ ~second_round(n)
           /\ rsrc_list' = (rsrc_list \ {n}) \cup {Referenced(n)}
           /\ held' = [held EXCEPT ![n.tr] = @ + 1]
    BY DEF FinishOpens
  <1>2. state' = "INIT" /\ UNCHANGED <<pending, spoiled, wanted>>
    BY DEF FinishOpens
  <1>3. /\ wanted.session => pending.session \/ (sav_session /\ n.name = 0)
        /\ CountedBut(rsrc_list, n.tr)
    BY <1>1, TargetNode DEF Answered
  <1>4. SessionInv'
    BY <1>1, <1>2, <1>3 DEF SessionInv, second_round, first_call
  <1>5. TargetInv'
    BY <1>2 DEF TargetInv
  <1> DEFINE r == Referenced(n)
  <1>6. /\ n \in Node /\ Described(n) \in Node /\ Described(n).tr = n.tr /\ Described(n).refs = n.refs
    BY DescribedNode
  <1>7. r.tr = n.tr /\ r.refs = n.refs + 1
    <2> HIDE DEF r
    <2>1. r = [Described(n) EXCEPT !.refs = n.refs + 1]
      BY <1>6 DEF Referenced, r
    <2> QED
      BY <1>6, <2>1 DEF Node
  <1> HIDE DEF r
  <1>8. rsrc_list' = (rsrc_list \ {n}) \cup {r}
    BY <1>1 DEF r
  <1>9. held \in [Trs -> 0..MaxRefs] /\ n.tr \in Trs /\ \A m, k \in rsrc_list : m.tr = k.tr => m = k
    BY <1>6 DEF IInv, ContextTypeOK, WellFormed, Node
  <1>10. \A t \in Trs : held'[t] = IF t = n.tr THEN held[n.tr] + 1 ELSE held[t]
    BY <1>1, <1>9
  <1>11. n.tr \notin spoiled => n.refs = held[n.tr]
    BY <1>9 DEF WaitInv, CountInv
  <1>12. /\ \A m \in rsrc_list' : m = r \/ (m \in rsrc_list /\ m.tr # n.tr)
         /\ \A m \in rsrc_list : m.tr # n.tr => m \in rsrc_list'
         /\ r \in rsrc_list'
    BY <1>8, <1>9
  <1>13. CountInv'
    <2> SUFFICES ASSUME NEW tr \in Trs \ spoiled
                 PROVE  /\ held'[tr] > 0 => \E k \in rsrc_list' : k.tr = tr
                        /\ \A k \in rsrc_list' :
                              k.tr = tr => k.refs = held'[tr] /\ held'[tr] # 0
      BY <1>2 DEF CountInv
    <2>1. CASE tr = n.tr
      <3>1. held'[tr] = n.refs + 1 /\ n.refs + 1 # 0
        BY <1>6, <1>9, <1>10, <1>11, <2>1, TrAssumption DEF Node
      <3> QED
        BY <1>7, <1>12, <2>1, <3>1
    <2>2. CASE tr # n.tr
      BY <1>3, <1>7, <1>10, <1>12, <2>2 DEF CountedBut
    <2> QED
      BY <2>1, <2>2
  <1> QED
    BY <1>4, <1>5, <1>13 DEF WaitInv

LEMMA FailsWait ==
  ASSUME IInv, AppWaits, WaitInv, FinishFails
  PROVE  WaitInv'
  <1>1. PICK n \in rsrc_list : Opening(n) /\ OpenFails(rsrc_list, n)
    BY DEF FinishFails
  <1>2. state' # "SENT" /\ last'.op = "none" /\ UNCHANGED held
    BY DEF FinishFails, Nothing
  <1>3. CountedBut(rsrc_list, n.tr) /\ rsrc_list \subseteq Node
    BY <1>1, TargetNode DEF IInv, ContextTypeOK
  <1>4. rsrc_list' = Esys_TR_Close(rsrc_list, n.tr) /\ spoiled' = spoiled \cup {n.tr}
    BY <1>1 DEF OpenFails
  <1>5. \A m : m.tr # n.tr => (m \in rsrc_list' <=> m \in rsrc_list)
    BY <1>3, <1>4, CloseEffect
  <1>6. CountInv'
    BY <1>2, <1>3, <1>4, <1>5 DEF CountInv, CountedBut
  <1> QED
    BY <1>2, <1>6 DEF WaitInv, TargetInv, SessionInv

\* A new node that is not counted, for it was not opened.
LEMMA CreateWait ==
  ASSUME IInv, WaitInv, NEW h \in Handles, NEW name \in 0..MaxNames, CreateResourceObject(h, name),
         held' = [held EXCEPT ![esys_handle_cnt] = 1], spoiled' = spoiled \cup {esys_handle_cnt},
         state = "INIT", UNCHANGED state, last' = Nothing
  PROVE  WaitInv'
  <1> DEFINE node == [tr |-> esys_handle_cnt, handle |-> h, name |-> name, refs |-> 0]
  <1>1. rsrc_list' = rsrc_list \cup {node} /\ node.tr = esys_handle_cnt
    BY DEF CreateResourceObject
  <1>2. held \in [Trs -> 0..MaxRefs]
    BY DEF IInv, ContextTypeOK
  <1>3. \A t \in Trs \ spoiled' : held'[t] = held[t] /\ t # node.tr
    BY <1>1, <1>2
  <1> HIDE DEF node
  <1>4. CountInv'
    BY <1>1, <1>3 DEF WaitInv, CountInv
  <1> QED
    BY <1>4 DEF WaitInv, TargetInv, SessionInv, Nothing

\* A reference that is given back.
LEMMA GiveBack ==
  ASSUME IInv, WaitInv, NEW tr \in Trs, held[tr] > 0, rsrc_list' = Esys_TR_Close(rsrc_list, tr),
         held' = [held EXCEPT ![tr] = @ - 1], state # "SENT", UNCHANGED <<state, spoiled>>
  PROVE  CountInv'
  <1>1. held \in [Trs -> 0..MaxRefs] /\ rsrc_list \subseteq Node /\ \A m, k \in rsrc_list : m.tr = k.tr => m = k
    BY DEF IInv, ContextTypeOK, WellFormed
  <1>2. /\ \A m : m.tr # tr => (m \in rsrc_list' <=> m \in rsrc_list)
        /\ \A m \in rsrc_list' : m.tr = tr => \E k \in rsrc_list : k.tr = tr /\ k.refs > 1 /\ m.refs = k.refs - 1
        /\ \A k \in rsrc_list : k.tr = tr /\ k.refs > 1 => \E m \in rsrc_list' : m.tr = tr
    BY <1>1, CloseEffect
  <1>3. \A t \in Trs : held'[t] = IF t = tr THEN held[tr] - 1 ELSE held[t]
    BY <1>1
  <1> SUFFICES ASSUME NEW t \in Trs \ spoiled
               PROVE  /\ held'[t] > 0 => \E k \in rsrc_list' : k.tr = t
                      /\ \A k \in rsrc_list' : k.tr = t => k.refs = held'[t] /\ held'[t] # 0
    BY DEF CountInv
  <1>4. /\ held[t] > 0 => \E n \in rsrc_list : n.tr = t
        /\ \A n \in rsrc_list : n.tr = t => n.refs = held[t] /\ held[t] # 0
    BY DEF WaitInv, CountInv
  <1>5. CASE t # tr
    BY <1>2, <1>3, <1>4, <1>5
  <1>6. CASE t = tr
    <2>1. held[tr] \in Nat /\ held'[t] = held[tr] - 1
      BY <1>1, <1>3, <1>6, TrAssumption
    <2>2. PICK n \in rsrc_list : n.tr = tr
      BY <1>4, <1>6
    <2>3. n.refs = held[tr]
      BY <1>4, <1>6, <2>2
    <2>4. ASSUME held'[t] > 0 PROVE \E k \in rsrc_list' : k.tr = t
      <3>1. n.refs > 1
        BY <2>1, <2>3, <2>4
      <3> QED
        BY <1>2, <1>6, <2>2, <3>1
    <2>5. ASSUME NEW m \in rsrc_list', m.tr = t PROVE m.refs = held'[t] /\ held'[t] # 0
      <3>1. PICK k \in rsrc_list : k.tr = tr /\ k.refs > 1 /\ m.refs = k.refs - 1
        BY <1>2, <1>6, <2>5
      <3>2. k = n
        BY <1>1, <2>2, <3>1
      <3> QED
        BY <2>1, <2>3, <3>1, <3>2
    <2> QED
      BY <2>4, <2>5
  <1> QED
    BY <1>5, <1>6

LEMMA CloseWait ==
  ASSUME IInv, AppWaits, WaitInv, Close
  PROVE  WaitInv'
  <1>1. CountInv'
    BY GiveBack DEF Close
  <1> QED
    BY <1>1 DEF Close, WaitInv, TargetInv, SessionInv, Nothing

LEMMA FlushWait ==
  ASSUME IInv, AppWaits, WaitInv, Esys_FlushContext
  PROVE  WaitInv'
  <1>1. PICK n \in rsrc_list :
           /\ rsrc_list' = Esys_TR_Close((rsrc_list \ {n}) \cup {[n EXCEPT !.refs = 0]}, n.tr)
           /\ held' = [held EXCEPT ![n.tr] = 0]
    BY DEF Esys_FlushContext
  <1>2. state = "INIT" /\ last'.op = "none" /\ UNCHANGED <<state, spoiled>>
    BY DEF Esys_FlushContext, Nothing
  <1> DEFINE r == [n EXCEPT !.refs = 0]
             list == (rsrc_list \ {n}) \cup {r}
  <1>3. n \in Node /\ r \in Node /\ r.tr = n.tr /\ r.refs = 0 /\ rsrc_list \subseteq Node /\ held \in [Trs -> 0..MaxRefs]
    BY TrAssumption DEF IInv, ContextTypeOK, Node
  <1>4. \A m, k \in rsrc_list : m.tr = k.tr => m = k
    BY DEF IInv, WellFormed
  <1> HIDE DEF r
  <1>5. /\ list \subseteq Node /\ (\A m : m.tr # n.tr => (m \in list <=> m \in rsrc_list))
        /\ \A m \in list : m.tr = n.tr => m.refs = 0
    BY <1>3, <1>4
  <1>6. rsrc_list' = Esys_TR_Close(list, n.tr)
    BY <1>1 DEF r
  <1> HIDE DEF list
  <1>7. /\ \A m : m.tr # n.tr => (m \in rsrc_list' <=> m \in rsrc_list)
        /\ \A m \in rsrc_list' : m.tr # n.tr
    <2>1. /\ \A m : m.tr # n.tr => (m \in rsrc_list' <=> m \in list)
          /\ \A m \in rsrc_list' : m.tr = n.tr => \E k \in list : k.tr = n.tr /\ k.refs > 1 /\ m.refs = k.refs - 1
      BY <1>5, <1>6, CloseEffect
    <2>2. ~(0 > 1)
      OBVIOUS
    <2> QED
      BY <1>5, <2>1, <2>2
  <1>8. \A t \in Trs : held'[t] = IF t = n.tr THEN 0 ELSE held[t]
    BY <1>1, <1>3
  <1>9. CountInv'
    BY <1>2, <1>7, <1>8 DEF WaitInv, CountInv
  <1> QED
    BY <1>2, <1>9 DEF WaitInv, TargetInv, SessionInv

LEMMA EvictWait ==
  ASSUME IInv, AppWaits, WaitInv, Esys_EvictControl
  PROVE  WaitInv'
  <1>1. state = "INIT" /\ UNCHANGED state
    BY DEF Esys_EvictControl
  <1>2. ASSUME NEW n \in rsrc_list, held[n.tr] > 0, EvictDeletes(n) PROVE WaitInv'
    <2>1. n.tr \in Trs
      BY DEF IInv, WellFormed, Node
    <2>2. CountInv'
      BY <1>1, <1>2, <2>1, GiveBack DEF EvictDeletes
    <2> QED
      BY <1>1, <1>2, <2>2 DEF EvictDeletes, WaitInv, TargetInv, SessionInv
  <1>3. ASSUME NEW n \in rsrc_list, NEW h \in Persistent, EvictCopies(n, h) PROVE WaitInv'
    <2>1. n.name \in 0..MaxNames /\ h \in Handles
      BY DEF IInv, WellFormed, Node, Handles
    <2> QED
      BY <1>1, <1>3, <2>1, CreateWait DEF EvictCopies
  <1> QED
    BY <1>2, <1>3 DEF Esys_EvictControl

LEMMA LoadWait ==
  ASSUME IInv, AppWaits, WaitInv, Esys_Load
  PROVE  WaitInv'
  <1>1. PICK h \in Transient, name \in 1..MaxNames : CreateResourceObject(h, name)
    BY DEF Esys_Load
  <1>2. h \in Handles /\ name \in 0..MaxNames
    BY TrAssumption DEF Handles
  <1> QED
    BY <1>1, <1>2, CreateWait DEF Esys_Load

LEMMA OtherWait ==
  ASSUME IInv, AppWaits, WaitInv, FinishUnknown \/ FinishRefused \/ OtherProgram \/ UNCHANGED vars
  PROVE  WaitInv'
  <1>1. ~FinishRefused
    BY DEF FinishRefused
  <1>2. UNCHANGED <<rsrc_list, esys_handle, sav_session, state, pending, held, spoiled, wanted>>
    BY <1>1 DEF FinishUnknown, OtherProgram, vars, context
  <1>3. last' = Nothing \/ UNCHANGED last
    BY <1>1 DEF FinishUnknown, OtherProgram, vars
  <1>4. SessionInv'
    BY <1>2, <1>3 DEF WaitInv, SessionInv, Nothing
  <1>5. TargetInv' /\ CountInv'
    BY <1>2 DEF WaitInv, TargetInv, CountInv
  <1> QED
    BY <1>4, <1>5 DEF WaitInv

LEMMA InitWait == Init => WaitInv
  <1> SUFFICES ASSUME Init PROVE WaitInv
    OBVIOUS
  <1>1. CountInv
    <2>1. ~(0 > 0)
      OBVIOUS
    <2> QED
      BY <2>1 DEF Init, CountInv
  <1> QED
    BY <1>1 DEF Init, WaitInv, TargetInv, SessionInv, Nothing

LEMMA NextWait == IInv /\ (AppWaits => WaitInv) /\ [Next]_vars => (AppWaits => WaitInv)'
  <1> SUFFICES ASSUME IInv, AppWaits => WaitInv, [Next]_vars, AppWaits' PROVE WaitInv'
    OBVIOUS
  <1>1. AppWaits /\ WaitInv
    BY DEF Next, vars, AppWaits
  <1> QED
    BY <1>1, AsyncWait, FirstRoundWait, OpensWait, FailsWait, LoadWait, CloseWait, FlushWait, EvictWait, OtherWait
    DEF Next, Esys_TR_FromTPMPublic_Finish

LEMMA WaitInvariance == Spec => [](AppWaits => WaitInv)
  <1>1. Init => (AppWaits => WaitInv)
    BY InitWait
  <1> QED
    BY <1>1, NextWait, Invariance, PTL DEF Spec

\* The count of a node is the number of references the application holds, and
\* no node outlives them, whichever calls gave them back: nothing leaks and
\* nothing is closed early.
THEOREM CountsReferences == Spec => []ReferencesCounted
  <1>1. (AppWaits => WaitInv) => ReferencesCounted
    BY DEF WaitInv, CountInv, ReferencesCounted, NodesOf
  <1> QED
    BY <1>1, WaitInvariance, PTL

\* An opening reads the handle that was asked for, and the object is returned
\* only after it was read with the session that was passed.
THEOREM KeepsOpening == Spec => []OpeningKept
  <1>1. (AppWaits => WaitInv) => OpeningKept
    BY DEF WaitInv, TargetInv, SessionInv, OpeningKept, OpenTargetKept, SessionUsed
  <1> QED
    BY <1>1, WaitInvariance, PTL

=============================================================================
