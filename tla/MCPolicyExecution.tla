------------------------- MODULE MCPolicyExecution --------------------------
(***************************************************************************)
(* PolicyExecution on every element alone, on pairs of those whose         *)
(* execution has more than one step or depends on the digest, and on       *)
(* policies within policies.                                               *)
(***************************************************************************)
EXTENDS PolicyAgreement

Pcr == [type |-> "POLICYPCR", selection |-> "pcr16", values |-> "values"]
AuthValue == [type |-> "POLICYAUTHVALUE"]
Cp == [type |-> "POLICYCPHASH", cpHash |-> "cpHash"]
Action == [type |-> "POLICYACTION"]
Or == [type |-> "POLICYOR", branches |-> <<<<Pcr>>, <<AuthValue, Action>>>>]
OrInOr == [type |-> "POLICYOR", branches |-> <<<<Or, Cp>>, <<Pcr>>>>]
Duplicate(include) == [type |-> "POLICYDUPLICATIONSELECT", object |-> "key", parent |-> "parent", include |-> include]

Hierarchy == [kind |-> "hierarchy", policy |-> <<>>]
Key(p) == [kind |-> "key", policy |-> p]
Nv(p) == [kind |-> "nv", policy |-> p]
NvOwner == [kind |-> "nvOwner", policy |-> <<>>]

Secret(o) == [type |-> "POLICYSECRET", name |-> o.kind, ref |-> "ref", object |-> o]
SignedBy(o, keyedhash) == [type |-> "POLICYSIGNED", key |-> "name", ref |-> "ref", keyedhash |-> keyedhash, object |-> o]
Pem == SignedBy(Key(<<>>), FALSE)
NvEquals(o) == [type |-> "POLICYNV", name |-> "index", operand |-> "operand", object |-> o]
Authorize(sub) == [type |-> "POLICYAUTHORIZE", key |-> "name", ref |-> "ref", sub |-> sub]
AuthorizeNv(o, sub) == [type |-> "POLICYAUTHORIZENV", name |-> "index", object |-> o, sub |-> sub]

Alone ==
    {[type |-> "POLICYPASSWORD"], [type |-> "POLICYPHYSICALPRESENCE"],
     [type |-> "POLICYCOMMANDCODE", code |-> "Sign"], [type |-> "POLICYNAMEHASH", names |-> <<"name">>],
     [type |-> "POLICYLOCALITY", locality |-> "one"], [type |-> "POLICYNVWRITTEN", written |-> "YES"],
     [type |-> "POLICYCOUNTERTIMER", operand |-> "operand"], [type |-> "POLICYTEMPLATE", template |-> "template"],
     Duplicate(TRUE), AuthValue, OrInOr, NvEquals(NvOwner),
     Secret(Hierarchy), Secret(Nv(<<Pcr>>)), Secret(Key(<<Pcr>>)), Secret(Key(<<Or>>)), Secret(Key(<<Secret(Key(<<>>))>>)),
     SignedBy(Key(<<Pcr>>), TRUE), NvEquals(Nv(<<Secret(Key(<<>>))>>)),
     Authorize(<<Or>>), Authorize(<<Secret(Key(<<Pcr>>))>>), Authorize(<<Pem>>), Authorize(<<Pcr, Or>>),
     Authorize(<<AuthorizeNv(Nv(<<>>), <<Pcr>>)>>),
     AuthorizeNv(Nv(<<>>), <<Or>>), AuthorizeNv(Nv(<<AuthValue>>), <<Pem>>)}
Paired ==
    {Pcr, Cp, Action, Or, Duplicate(FALSE), Secret(Key(<<>>)), Secret(Nv(<<>>)), Secret(Hierarchy), Pem,
     Secret(Key(<<AuthValue>>)),
     SignedBy(Key(<<>>), TRUE), NvEquals(Nv(<<>>)), Authorize(<<Pcr>>), AuthorizeNv(NvOwner, <<AuthValue>>)}

AllPolicies == {<<e>> : e \in Alone \union Paired} \union {<<e, f>> : e, f \in Paired}
OnePolicy == {<<Pcr>>}

\* The policies that are executed when those of ps are.
RECURSIVE Within(_)
Within(ps) ==
    LET items == UNION {Range(l) : l \in UNION {compute_policy_list(p, Zero) : p \in ps}}
        inner == UNION {NestedPolicies(x.element) : x \in items}
    IN IF inner \subseteq ps THEN ps ELSE Within(ps \union inner)
ListsOf(ps) == [p \in Within(ps) |-> compute_policy_list(p, Zero)]
AllLists == ListsOf(AllPolicies)
OneList == ListsOf(OnePolicy)

=============================================================================
