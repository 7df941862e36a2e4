-------------------------- MODULE PolicyAgreement ---------------------------
(***************************************************************************)
(* What the execution of a policy promises to whoever calculated it: the   *)
(* elements of PolicyElements, executed by the stack of PolicyExecution,   *)
(* give the session of the TPM the digest that was calculated.             *)
(***************************************************************************)
EXTENDS PolicyExecution, PolicyElements

\* A PolicyOR starts from a zero digest, since FAPI does not clear all of the digest
\* it replaces, and a PolicyDuplicationSelect does not include the object, since
\* FAPI leaves its name out.
RECURSIVE WellPlaced(_, _)
WellPlaced(p, d) ==
    p # <<>> =>
        LET e == Head(p) IN
        /\ e.type = "POLICYOR" => d = Zero /\ \A b \in DOMAIN e.branches : WellPlaced(e.branches[b], d)
        /\ e.type = "POLICYDUPLICATIONSELECT" => ~e.include
        /\ WellPlaced(Tail(p), Calculated(d, e))

\* A session in which a policy was executed has the digest that was calculated for
\* it when it was created, so that it authorizes the object: the commands
\* execute_policy_X send and the TPM hashes are those ifapi_calculate_policy_X hashes,
\* through branches, policies of other objects and policies found by their
\* authorization.
DigestsAgree ==
    rc = "done" /\ WellPlaced(policy, Zero) => sessions[result].digest = Digest(policy)

LoadsKey(e) == e.type = "POLICYSIGNED" \/ (e.type = "POLICYSECRET" /\ e.object.kind = "key")

\* No element of a list is bound to be refused.  Those that are: PolicyNV of an index
\* read by its owner, whose two handles are exchanged; PolicySecret of an object that
\* is no key after an element that loaded one, as flush_handle is not reset; and
\* PolicyAuthorize and PolicyAuthorizeNV that do not come first, or whose policy has
\* not the digest that was calculated for it.
RECURSIVE Passes(_)
Passes(list) ==
    \A i \in DOMAIN list :
        LET e == list[i].element IN
        /\ e.type = "POLICYNV" => e.object.kind # "nvOwner"
        /\ e.type = "POLICYSECRET" => e.object.kind = "key" \/ \A j \in 1 .. i - 1 : ~LoadsKey(list[j].element)
        /\ e.type \in {"POLICYAUTHORIZE", "POLICYAUTHORIZENV"} =>
               WellPlaced(e.sub, Zero) /\ \A j \in 1 .. i - 1 : list[j].element.type = "POLICYACTION"
        /\ \A p \in NestedPolicies(e) : \A l \in Lists[p] : Passes(l)

\* Where no callback and no command fails a policy is executed to its end: no
\* PolicyOR, PolicyAuthorize or PolicyAuthorizeNV is sent with a digest the session
\* does not have, and no flush with a handle that is not that of a key.
CanBeExecuted ==
    rc = "failed" /\ faults = 0 /\ ~SessionLost =>
        \E list \in Lists[policy] : ~Passes(list)

=============================================================================
