--------------------------- MODULE PolicyElements ---------------------------
(***************************************************************************)
(* The elements of a FAPI policy: the digest FAPI calculates for each of   *)
(* them when the policy is created (ifapi_policy_calculate.c), the calls   *)
(* and the command with which it is executed in a policy session           *)
(* (ifapi_policy_execute.c).  PolicyTpm has the digest the TPM computes    *)
(* for that command.                                                       *)
(*                                                                         *)
(* An element has the fields its type needs; an object has a kind and the  *)
(* policy it was created with, <<>> for none.                              *)
(***************************************************************************)
EXTENDS PolicyTpm, SequencesExt

-----------------------------------------------------------------------------
(* Calculation.                                                            *)

\* The second hash takes the policy reference where there is one.
calculate_policy_key_param(d, cc, name, ref) == Hash(Hash(d, <<cc, name>>), <<ref>>)
ifapi_calculate_simple_policy(d, codes) == Hash(d, codes)
ifapi_calculate_policy_digest_hash(d, cc, digest) == Hash(d, <<cc, digest>>)

ifapi_compute_policy_pcr(d, e) == Hash(d, <<"PolicyPCR", e.selection, e.values>>)
ifapi_calculate_policy_signed(d, e) == calculate_policy_key_param(d, "PolicySigned", e.key, e.ref)
ifapi_calculate_policy_secret(d, e) == calculate_policy_key_param(d, "PolicySecret", e.name, e.ref)
ifapi_calculate_policy_authorize(d, e) == calculate_policy_key_param(d, "PolicyAuthorize", e.key, e.ref)
ifapi_calculate_policy_authorize_nv(d, e) == Hash(d, <<"PolicyAuthorizeNV", e.name>>)
\* The name of the object is left out, whether it is to be included or not.
ifapi_calculate_policy_duplicate(d, e) == Hash(d, <<"PolicyDuplicationSelect", e.parent, e.include>>)
ifapi_calculate_policy_counter_timer(d, e) == Hash(d, <<"PolicyCounterTimer", e.operand>>)
ifapi_calculate_policy_physical_presence(d) == ifapi_calculate_simple_policy(d, <<"PolicyPhysicalPresence">>)
ifapi_calculate_policy_auth_value(d) == ifapi_calculate_simple_policy(d, <<"PolicyAuthValue">>)
\* A bug: the command code of the command itself, where the TPM hashes that of PolicyAuthValue.
PasswordByItsCode(d) == ifapi_calculate_simple_policy(d, <<"PolicyPassword">>)
ifapi_calculate_policy_password(d) == ifapi_calculate_simple_policy(d, <<"PolicyAuthValue">>)
ifapi_calculate_policy_command_code(d, e) == ifapi_calculate_simple_policy(d, <<"PolicyCommandCode", e.code>>)
\* The loop has i <= count: the entry behind the names is hashed as well.  In a
\* policy that was read it is empty and adds nothing, as long as there is one.
ifapi_calculate_policy_name_hash(d, e) == ifapi_calculate_policy_digest_hash(d, "PolicyNameHash", Hash(Zero, e.names))
ifapi_calculate_policy_cp_hash(d, e) == ifapi_calculate_policy_digest_hash(d, "PolicyCpHash", e.cpHash)
ifapi_calculate_policy_locality(d, e) == Hash(d, <<"PolicyLocality", e.locality>>)
ifapi_calculate_policy_nv_written(d, e) == Hash(d, <<"PolicyNvWritten", e.written>>)
ifapi_calculate_policy_nv(d, e) == Hash(d, <<"PolicyNV", e.operand, e.name>>)
ifapi_calculate_policy_template(d, e) == Hash(d, <<"PolicyTemplate", e.template>>)

\* PolicyOR clears hash_size bytes from the algorithm in front of the digest, not
\* from the digest: its last two bytes stay.
Cleared(d) == IF d = Zero THEN Zero ELSE <<<<"last two bytes of", d>>>>

RECURSIVE ifapi_calculate_policy(_, _)
BranchDigests(e, d) == [b \in DOMAIN e.branches |-> ifapi_calculate_policy(e.branches[b], d)]
ifapi_calculate_policy_or(d, e) == Hash(Cleared(d), <<"PolicyOR", BranchDigests(e, d)>>)

Calculated(d, e) ==
    CASE e.type = "POLICYPCR" -> ifapi_compute_policy_pcr(d, e)
      [] e.type = "POLICYSIGNED" -> ifapi_calculate_policy_signed(d, e)
      [] e.type = "POLICYSECRET" -> ifapi_calculate_policy_secret(d, e)
      [] e.type = "POLICYAUTHORIZE" -> ifapi_calculate_policy_authorize(d, e)
      [] e.type = "POLICYAUTHORIZENV" -> ifapi_calculate_policy_authorize_nv(d, e)
      [] e.type = "POLICYDUPLICATIONSELECT" -> ifapi_calculate_policy_duplicate(d, e)
      [] e.type = "POLICYCOUNTERTIMER" -> ifapi_calculate_policy_counter_timer(d, e)
      [] e.type = "POLICYPHYSICALPRESENCE" -> ifapi_calculate_policy_physical_presence(d)
      [] e.type = "POLICYAUTHVALUE" -> ifapi_calculate_policy_auth_value(d)
      [] e.type = "POLICYPASSWORD" -> ifapi_calculate_policy_password(d)
      [] e.type = "POLICYCOMMANDCODE" -> ifapi_calculate_policy_command_code(d, e)
      [] e.type = "POLICYNAMEHASH" -> ifapi_calculate_policy_name_hash(d, e)
      [] e.type = "POLICYCPHASH" -> ifapi_calculate_policy_cp_hash(d, e)
      [] e.type = "POLICYLOCALITY" -> ifapi_calculate_policy_locality(d, e)
      [] e.type = "POLICYNVWRITTEN" -> ifapi_calculate_policy_nv_written(d, e)
      [] e.type = "POLICYNV" -> ifapi_calculate_policy_nv(d, e)
      [] e.type = "POLICYTEMPLATE" -> ifapi_calculate_policy_template(d, e)
      [] e.type = "POLICYOR" -> ifapi_calculate_policy_or(d, e)
      [] e.type = "POLICYACTION" -> d

\* Every element starts from the digest of the one before it.
ifapi_calculate_policy(p, d) == FoldLeft(Calculated, d, p)

\* ifapi_calculate_tree_ex starts with a zero digest.
Digest(p) == ifapi_calculate_policy(p, Zero)

-----------------------------------------------------------------------------
(* Execution.  steps are the calls an element makes, in their order: the   *)
(* callbacks of ifapi_policy_callbacks.c, and the commands, capitalised,   *)
(* which are sent and then finished.  cleanup are the steps whose failure  *)
(* flushes the handle named by owned; "sent" is a failing _Async,          *)
(* "finished" a failing _Finish, "called" a failing callback.  command is  *)
(* what "Policy" sends.                                                    *)

Plain(cc, args) ==
    [steps |-> <<"Policy">>, cleanup |-> {}, owned |-> "object", command |-> [cc |-> cc, args |-> args]]

execute_policy_pcr(e) == Plain("PolicyPCR", <<e.selection, e.values>>)
execute_policy_duplicate(e) == Plain("PolicyDuplicationSelect", <<e.object, e.parent, e.include>>)
execute_policy_counter_timer(e) == Plain("PolicyCounterTimer", <<e.operand>>)
execute_policy_physical_presence == Plain("PolicyPhysicalPresence", <<>>)
execute_policy_auth_value == Plain("PolicyAuthValue", <<>>)
execute_policy_password == Plain("PolicyPassword", <<>>)
execute_policy_command_code(e) == Plain("PolicyCommandCode", <<e.code>>)
execute_policy_name_hash(e) == Plain("PolicyNameHash", <<Hash(Zero, e.names)>>)
execute_policy_cp_hash(e) == Plain("PolicyCpHash", <<e.cpHash>>)
execute_policy_locality(e) == Plain("PolicyLocality", <<e.locality>>)
execute_policy_nv_written(e) == Plain("PolicyNvWritten", <<e.written>>)
execute_policy_template(e) == Plain("PolicyTemplate", <<e.template>>)

\* A bug: the branches are calculated as if nothing came before them.
OrOfBranchesAlone(e, d) == Plain("PolicyOR", <<BranchDigests(e, Zero)>>)
\* The digests stored with the branches when the policy was calculated, which
\* compute_or_digest_list puts together.
execute_policy_or(e, d) == Plain("PolicyOR", <<BranchDigests(e, d)>>)

execute_policy_action == [Plain("none", <<>>) EXCEPT !.steps = <<"action">>]

\* ifapi_policyeval_cbauth: the object is read and, if it is a key, loaded.
ifapi_policyeval_cbauth(o) ==
    IF o.kind = "key" THEN <<"read", "load_key", "authorize">> ELSE <<"read", "authorize">>

execute_policy_nv(e) ==
    [Plain("PolicyNV", <<e.operand, e.name>>) EXCEPT !.steps = ifapi_policyeval_cbauth(e.object) \o <<"Policy">>]

\* A keyed hash is loaded from the keystore, any other key from its public part.
execute_policy_signed(e) ==
    [steps |-> <<"build", "sign">> \o (IF e.keyedhash THEN ifapi_policyeval_cbauth(e.object) ELSE <<"LoadExternal">>)
               \o <<"Policy", "FlushContext">>,
     cleanup |-> {<<"sign", "called">>, <<"read", "called">>, <<"load_key", "called">>, <<"authorize", "called">>,
                  <<"LoadExternal", "sent">>, <<"Policy", "sent">>, <<"FlushContext", "sent">>},
     owned |-> "object",
     command |-> [cc |-> "PolicySigned", args |-> <<e.key, e.ref>>]]

\* The policy that was approved is the stored digest of the one that was executed.
execute_policy_authorize(e) ==
    [steps |-> <<"search", "sub", "LoadExternal", "VerifySignature", "Policy", "FlushContext">>,
     cleanup |-> {<<"search", "called">>, <<"sub", "called">>, <<"LoadExternal", "sent">>,
                  <<"VerifySignature", "sent">>, <<"Policy", "sent">>, <<"FlushContext", "sent">>},
     owned |-> "object",
     command |-> [cc |-> "PolicyAuthorize", args |-> <<e.key, e.ref, Digest(e.sub)>>]]

\* ifapi_exec_auth_nv_policy up to its sub-policy, then the authorization.
execute_policy_authorize_nv(e) ==
    [Plain("PolicyAuthorizeNV", <<e.name, Digest(e.sub)>>) EXCEPT
        !.steps = <<"read_nv", "authorize_nv", "NV_Read", "search", "sub">>
                  \o ifapi_policyeval_cbauth(e.object) \o <<"Policy">>]

execute_policy_secret(e) ==
    [steps |-> ifapi_policyeval_cbauth(e.object) \o <<"Policy", "FlushContext">>,
     cleanup |-> {<<"read", "called">>, <<"load_key", "called">>, <<"authorize", "called">>,
                  <<"Policy", "sent">>, <<"Policy", "finished">>, <<"FlushContext", "sent">>},
     owned |-> "auth",
     command |-> [cc |-> "PolicySecret", args |-> <<e.name, e.ref>>]]

\* d: the digest calculated for the elements before e.
execute_policy_element(e, d) ==
    CASE e.type = "POLICYPCR" -> execute_policy_pcr(e)
      [] e.type = "POLICYSIGNED" -> execute_policy_signed(e)
      [] e.type = "POLICYSECRET" -> execute_policy_secret(e)
      [] e.type = "POLICYAUTHORIZE" -> execute_policy_authorize(e)
      [] e.type = "POLICYAUTHORIZENV" -> execute_policy_authorize_nv(e)
      [] e.type = "POLICYDUPLICATIONSELECT" -> execute_policy_duplicate(e)
      [] e.type = "POLICYCOUNTERTIMER" -> execute_policy_counter_timer(e)
      [] e.type = "POLICYPHYSICALPRESENCE" -> execute_policy_physical_presence
      [] e.type = "POLICYAUTHVALUE" -> execute_policy_auth_value
      [] e.type = "POLICYPASSWORD" -> execute_policy_password
      [] e.type = "POLICYCOMMANDCODE" -> execute_policy_command_code(e)
      [] e.type = "POLICYNAMEHASH" -> execute_policy_name_hash(e)
      [] e.type = "POLICYCPHASH" -> execute_policy_cp_hash(e)
      [] e.type = "POLICYLOCALITY" -> execute_policy_locality(e)
      [] e.type = "POLICYNVWRITTEN" -> execute_policy_nv_written(e)
      [] e.type = "POLICYNV" -> execute_policy_nv(e)
      [] e.type = "POLICYTEMPLATE" -> execute_policy_template(e)
      [] e.type = "POLICYOR" -> execute_policy_or(e, d)
      [] e.type = "POLICYACTION" -> execute_policy_action

\* The lists compute_policy_list can make of a policy, one for every selection of
\* branches: the elements of the branch and then the PolicyOR.  Each element is
\* paired with what executes it.
RECURSIVE compute_policy_list(_, _)
compute_policy_list(p, d) ==
    IF p = <<>> THEN {<<>>}
    ELSE LET e == Head(p)
             own == <<[element |-> e, run |-> execute_policy_element(e, d)]>>
             branches == IF e.type # "POLICYOR" THEN {<<>>}
                         ELSE UNION {compute_policy_list(e.branches[b], d) : b \in DOMAIN e.branches}
         IN {b \o own \o rest : b \in branches, rest \in compute_policy_list(Tail(p), Calculated(d, e))}

=============================================================================
