----------------------------- MODULE JsonEntry ------------------------------
(***************************************************************************)
(* How the tables of the FAPI's JSON functions are written down            *)
(* (TpmJsonWriter, TpmJsonReader, FapiJsonWriter, FapiJsonReader).  There  *)
(* is one definition for each ifapi_json_X_serialize and for each          *)
(* ifapi_json_X_deserialize, under its own name; JsonStore says what the   *)
(* entries mean.                                                           *)
(*                                                                         *)
(* A constant of the TPM is its name without the prefix (TPM2_ALG_SHA256   *)
(* is "SHA256"): the spellings the writer uses and the prefixes the reader *)
(* strips are left out.                                                    *)
(***************************************************************************)
EXTENDS Integers, Sequences

\* An unsigned integer of so many bytes; a TPM handle; the index of an NV area.
Number(bytes) == [kind |-> "number", bytes |-> bytes]
Handle == [kind |-> "handle"]
NvIndex == [kind |-> "nvIndex"]

\* The constants a table lists.  Renamed: the reader knows further names for
\* some.  Prefixed: the first entry that begins with the name is taken;
\* Begins holds the names that another one begins with.
Renamed(tokens, as) == [kind |-> "names", tokens |-> tokens, as |-> as]
Names(tokens) == Renamed(tokens, << >>)
Begins == {<<"POLICYNV", "POLICYNVWRITTEN">>, <<"POLICYAUTHORIZE", "POLICYAUTHORIZENV">>,
           <<"IMA", "IMA_NG">>, <<"IMA", "IMA_SIG">>, <<"IPL", "IPL_PARTITION_DATA">>}
Prefixed(order) == [kind |-> "prefixed", order |-> order]

\* The values of another type that occur in a list.
In(of, tokens) == [kind |-> "in", of |-> of, tokens |-> tokens]

\* An object with a key for each bit or bit field.
Flags(tokens) == [kind |-> "flags", tokens |-> tokens]

\* Up to max bytes in hexadecimal; a string; no JSON at all.
Bytes(max) == [kind |-> "bytes", max |-> max]
Text == [kind |-> "text"]
Nothing == [kind |-> "nothing"]

\* Arrays: of up to max elements, and of PCR numbers below a limit.
List(of, max) == [kind |-> "list", of |-> of, max |-> max]
Unbounded == 100000
PcrSelect(pcrs, bytes) == [kind |-> "pcrs", pcrs |-> pcrs, bytes |-> bytes]

\* The same as another type; the types of a union by selector.
Alias(of) == [kind |-> "alias", of |-> of]
Arms(arms) == [kind |-> "arms", arms |-> arms]

\* An object, and how many of its counted fields may be there.
Object(fields, limit) == [kind |-> "object", fields |-> fields, limit |-> limit]
NoLimit == 0 .. 100
AtMostOne == {0, 1}
OneOf == {1}

\* A field of an object: always written, an error for the reader if missing.
F(name, t) ==
    [name |-> name, type |-> t, rule |-> "always", counted |-> FALSE, selector |-> "none",
     only |-> {}, arm |-> FALSE, inline |-> FALSE, unless |-> {}, with |-> "none",
     without |-> "none", like |-> "none", aka |-> name, also |-> t, alone |-> FALSE,
     blank |-> FALSE]

\* Written if set, cleared by the reader if missing; and the same, but counted.
Maybe(name, t) == [F(name, t) EXCEPT !.rule = "maybe"]
One(name, t) == [Maybe(name, t) EXCEPT !.counted = TRUE]
OneIfSet(name, t) == [Maybe(name, t) EXCEPT !.rule = "ifSet", !.counted = TRUE]

\* Reader only: a default that is not zero; a field that is always an error.
Or(name, t) == [F(name, t) EXCEPT !.rule = "or"]
Refused(name, t) == [F(name, t) EXCEPT !.rule = "refused"]

\* The selector of the unions of the object: a field, a field with only some
\* values, or a part of a field.
Sel(name, t) == [F(name, t) EXCEPT !.selector = t]
SelIs(name, t, only) == [Sel(name, t) EXCEPT !.only = only]
SelIn(name, t, selector) == [F(name, t) EXCEPT !.selector = selector]

\* A union: as a field, as a field that may be missing, and in place.
Arm(name, union) == [F(name, union) EXCEPT !.arm = TRUE]
MaybeArm(name, union) == [Arm(name, union) EXCEPT !.rule = "maybe"]
Inline(union) == [F("in place", union) EXCEPT !.inline = TRUE]

\* Conditions: not for these selectors; only with, or only without, a member
\* that is set; the default is whether a member is set; another key that is
\* read as well; another type that is read as well; if it is there, nothing
\* else is read or written; a text that is written, and counted, also when it
\* is empty, since only its pointer is tested.
Unless(selectors, f) == [f EXCEPT !.unless = selectors]
With(member, f) == [f EXCEPT !.with = member]
NotWith(member, f) == [f EXCEPT !.without = member]
Like(member, f) == [f EXCEPT !.like = member]
Aka(name, f) == [f EXCEPT !.aka = name]
Also(t, f) == [f EXCEPT !.also = t]
Alone(f) == [f EXCEPT !.alone = TRUE]
EvenBlank(f) == [f EXCEPT !.blank = TRUE]

\* Names both sides know.
Algorithms ==
    {"ERROR", "RSA", "SHA1", "HMAC", "AES", "MGF1", "KEYEDHASH", "XOR", "SHA256", "SHA384",
        "SHA512", "NULL", "SM3_256", "SM4", "RSASSA", "RSAES", "RSAPSS", "OAEP", "ECDSA",
        "ECDH", "ECDAA", "SM2", "ECSCHNORR", "ECMQV", "KDF1_SP800_56A", "KDF2",
        "KDF1_SP800_108", "ECC", "SYMCIPHER", "CAMELLIA", "CTR", "OFB", "CBC", "CFB", "ECB"}
Curves ==
    {"NONE", "NIST_P192", "NIST_P224", "NIST_P256", "NIST_P384", "NIST_P521", "BN_P256",
        "BN_P638", "SM2_P256"}
Commands ==
    {"NV_UndefineSpaceSpecial", "EvictControl", "HierarchyControl", "NV_UndefineSpace",
        "ChangeEPS", "ChangePPS", "Clear", "ClearControl", "ClockSet", "HierarchyChangeAuth",
        "NV_DefineSpace", "PCR_Allocate", "PCR_SetAuthPolicy", "PP_Commands",
        "SetPrimaryPolicy", "FieldUpgradeStart", "ClockRateAdjust", "CreatePrimary",
        "NV_GlobalWriteLock", "GetCommandAuditDigest", "NV_Increment", "NV_SetBits",
        "NV_Extend", "NV_Write", "NV_WriteLock", "DictionaryAttackLockReset",
        "DictionaryAttackParameters", "NV_ChangeAuth", "PCR_Event", "PCR_Reset",
        "SequenceComplete", "SetAlgorithmSet", "SetCommandCodeAuditStatus",
        "FieldUpgradeData", "IncrementalSelfTest", "SelfTest", "Startup", "Shutdown",
        "StirRandom", "ActivateCredential", "Certify", "PolicyNV", "CertifyCreation",
        "Duplicate", "GetTime", "GetSessionAuditDigest", "NV_Read", "NV_ReadLock",
        "ObjectChangeAuth", "PolicySecret", "Rewrap", "Create", "ECDH_ZGen", "HMAC",
        "Import", "Load", "Quote", "RSA_Decrypt", "HMAC_Start", "SequenceUpdate", "Sign",
        "Unseal", "PolicySigned", "ContextLoad", "ContextSave", "ECDH_KeyGen",
        "EncryptDecrypt", "FlushContext", "LoadExternal", "MakeCredential", "NV_ReadPublic",
        "PolicyAuthorize", "PolicyAuthValue", "PolicyCommandCode", "PolicyCounterTimer",
        "PolicyCpHash", "PolicyLocality", "PolicyNameHash", "PolicyOR", "PolicyTicket",
        "ReadPublic", "RSA_Encrypt", "StartAuthSession", "VerifySignature", "ECC_Parameters",
        "FirmwareRead", "GetCapability", "GetRandom", "GetTestResult", "Hash", "PCR_Read",
        "PolicyPCR", "PolicyRestart", "ReadClock", "PCR_Extend", "PCR_SetAuthValue",
        "NV_Certify", "EventSequenceComplete", "HashSequenceStart", "PolicyPhysicalPresence",
        "PolicyDuplicationSelect", "PolicyGetDigest", "TestParms", "Commit",
        "PolicyPassword", "ZGen_2Phase", "EC_Ephemeral", "PolicyNvWritten", "PolicyTemplate",
        "CreateLoaded", "PolicyAuthorizeNV", "EncryptDecrypt2", "Vendor_TCG_Test"}
Operations ==
    {"EQ", "NEQ", "SIGNED_GT", "UNSIGNED_GT", "SIGNED_LT", "UNSIGNED_LT", "SIGNED_GE",
        "UNSIGNED_GE", "SIGNED_LE", "UNSIGNED_LE", "BITSET", "BITCLEAR"}
Tags ==
    {"RSP_COMMAND", "NULL", "NO_SESSIONS", "SESSIONS", "ATTEST_NV", "ATTEST_COMMAND_AUDIT",
        "ATTEST_SESSION_AUDIT", "ATTEST_CERTIFY", "ATTEST_QUOTE", "ATTEST_TIME",
        "ATTEST_CREATION", "CREATION", "VERIFIED", "AUTH_SECRET", "HASHCHECK", "AUTH_SIGNED",
        "FU_MANIFEST"}
PcrProperties ==
    {"SAVE", "EXTEND_L0", "RESET_L0", "EXTEND_L1", "RESET_L1", "EXTEND_L2", "RESET_L2",
        "EXTEND_L3", "RESET_L3", "EXTEND_L4", "RESET_L4", "NO_INCREMENT", "DRTM_RESET",
        "POLICY", "AUTH"}
ObjectAttributes ==
    {"FIXEDTPM", "STCLEAR", "FIXEDPARENT", "SENSITIVEDATAORIGIN", "USERWITHAUTH",
        "ADMINWITHPOLICY", "NODA", "ENCRYPTEDDUPLICATION", "RESTRICTED", "DECRYPT",
        "SIGN_ENCRYPT"}
Localities ==
    {"TPM2_LOC_ZERO", "TPM2_LOC_ONE", "TPM2_LOC_TWO", "TPM2_LOC_THREE", "TPM2_LOC_FOUR"}
NvTypes == {"ORDINARY", "COUNTER", "BITS", "EXTEND", "PIN_FAIL", "PIN_PASS"}
NvAttributes ==
    {"PPWRITE", "OWNERWRITE", "AUTHWRITE", "POLICYWRITE", "POLICY_DELETE", "WRITELOCKED",
        "WRITEALL", "WRITEDEFINE", "WRITE_STCLEAR", "GLOBALLOCK", "PPREAD", "OWNERREAD",
        "AUTHREAD", "POLICYREAD", "NO_DA", "ORDERLY", "CLEAR_STCLEAR", "READLOCKED",
        "WRITTEN", "PLATFORMCREATE", "READ_STCLEAR"}
PolicyTypes ==
    {"POLICYOR", "POLICYSIGNED", "POLICYSECRET", "POLICYPCR", "POLICYLOCALITY", "POLICYNV",
        "POLICYCOUNTERTIMER", "POLICYCOMMANDCODE", "POLICYPHYSICALPRESENCE", "POLICYCPHASH",
        "POLICYNAMEHASH", "POLICYDUPLICATIONSELECT", "POLICYAUTHORIZE", "POLICYAUTHVALUE",
        "POLICYPASSWORD", "POLICYNVWRITTEN", "POLICYTEMPLATE", "POLICYAUTHORIZENV",
        "POLICYACTION"}
KeyTypes == {"RSA", "ECC", "KEYEDHASH", "SYMCIPHER", "MLDSA", "MLKEM", "NULL"}
=============================================================================
