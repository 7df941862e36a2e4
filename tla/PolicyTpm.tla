----------------------------- MODULE PolicyTpm ------------------------------
(***************************************************************************)
(* The policy sessions of the TPM: what a policy command does to the       *)
(* digest of its session, and whether it is accepted.  The TPM is external;*)
(* ifapi_policy_execute.c says which commands it is sent.                  *)
(*                                                                         *)
(* A digest is what was hashed: the sequence of the hash inputs that       *)
(* followed the zero digest.                                               *)
(***************************************************************************)
EXTENDS Integers, Sequences

Zero == <<>>
Hash(d, input) == Append(d, input)

TpmAccepts(c, d) ==
    CASE c.cc = "PolicyOR" -> \E b \in DOMAIN c.args[1] : d = c.args[1][b]
      [] c.cc = "PolicyAuthorize" -> d = c.args[3]
      [] c.cc = "PolicyAuthorizeNV" -> d = c.args[2]
      [] OTHER -> TRUE

TpmDigest(c, d) ==
    CASE c.cc \in {"PolicySigned", "PolicySecret"} -> Hash(Hash(d, <<c.cc, c.args[1]>>), <<c.args[2]>>)
      [] c.cc = "PolicyAuthorize" -> Hash(Hash(Zero, <<c.cc, c.args[1]>>), <<c.args[2]>>)
      [] c.cc = "PolicyAuthorizeNV" -> Hash(Zero, <<c.cc, c.args[1]>>)
      [] c.cc = "PolicyOR" -> Hash(Zero, <<c.cc, c.args[1]>>)
      [] c.cc \in {"PolicyAuthValue", "PolicyPassword"} -> Hash(d, <<"PolicyAuthValue">>)
      [] c.cc = "PolicyDuplicationSelect" /\ ~c.args[3] -> Hash(d, <<c.cc, c.args[2], FALSE>>)
      [] OTHER -> Hash(d, <<c.cc>> \o c.args)

=============================================================================
