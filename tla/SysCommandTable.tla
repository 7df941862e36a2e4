-------------------------- MODULE SysCommandTable ---------------------------
(***************************************************************************)
(* The commands of the SAPI (src/tss2-sys/api): what Tss2_Sys_X_Prepare    *)
(* writes behind the header of a command, what Tss2_Sys_X_Complete reads   *)
(* from a response, and what the one-call function Tss2_Sys_X checks and   *)
(* passes on.  The bytes of a parameter are left out; its place, and what  *)
(* the code does with a NULL pointer, are kept.                            *)
(*                                                                         *)
(* The default build is described: without DISABLE_WEAK_CRYPTO the checks  *)
(* for weak algorithms are macros that always succeed.  MAC and MAC_Start  *)
(* have the command codes of HMAC and HMAC_Start.                          *)
(***************************************************************************)
EXTENDS Integers, Sequences

\* A field of a command or a response.  refuses: a NULL pointer is an error;
\* sized: a TPM2B, whose contents a session can encrypt; null: does a NULL
\* pointer set decryptNull?
Field(p, refuses, sized, null) == [name |-> p, refuses |-> refuses, sized |-> sized, null |-> null]
V(p) == Field(p, FALSE, FALSE, FALSE)  \* a value, or any field of a response
R(p) == Field(p, TRUE, FALSE, FALSE)   \* a pointer to a structure
S(p) == Field(p, TRUE, TRUE, FALSE)    \* a TPM2B that has to be there
E(p) == Field(p, TRUE, TRUE, FALSE)    \* a TPM2B that has to be there and empty
B(p) == Field(p, FALSE, TRUE, TRUE)    \* NULL is sent as an empty TPM2B, and noted
Z(p) == Field(p, FALSE, TRUE, FALSE)   \* NULL is sent as an empty TPM2B

\* Tss2_Sys_X_Prepare: command code, pointers checked first, the fields in the
\* order they are marshalled, and the flags set (decryptAllowed, ...).
Prepare(code, needs, fields, allowed) ==
    [code |-> code, needs |-> needs, fields |-> fields, allowed |-> allowed]

\* Tss2_Sys_X_Complete: the fields read before CommonComplete skips to the
\* response parameters, and those read after it.
Complete(before, after) == [before |-> before, after |-> after]

\* Tss2_Sys_X: Prepare, CommonOneCall, Complete; the pointers it checks itself,
\* and whether it passes the authorizations on to CommonOneCall.
OneCall(prepare, complete, needs, auths) ==
    [prepare |-> prepare, complete |-> complete, needs |-> needs, auths |-> auths]

\* The handles of a command and of its response.
GetNumHandles(code) ==
    CASE code \in {"LoadExternal", "HashSequenceStart", "ContextLoad"}
         -> <<0, 1>>
      [] code \in {"PolicyRestart", "Create", "ReadPublic", "MakeCredential", "Unseal", "Import",
             "RSA_Encrypt", "RSA_Decrypt", "ECDH_KeyGen", "ECDH_ZGen", "ZGen_2Phase",
             "EncryptDecrypt", "EncryptDecrypt2", "HMAC", "SequenceUpdate", "SequenceComplete",
             "Quote", "Commit", "VerifySignature", "Sign", "SetCommandCodeAuditStatus",
             "PCR_Extend", "PCR_Event", "PCR_Allocate", "PCR_SetAuthPolicy", "PCR_SetAuthValue",
             "PCR_Reset", "PolicyTicket", "PolicyOR", "PolicyPCR", "PolicyLocality",
             "PolicyNvWritten", "PolicyCounterTimer", "PolicyCommandCode",
             "PolicyPhysicalPresence", "PolicyCpHash", "PolicyNameHash",
             "PolicyDuplicationSelect", "PolicyAuthorize", "PolicyAuthValue", "PolicyPassword",
             "PolicyGetDigest", "PolicyTemplate", "HierarchyControl", "SetPrimaryPolicy",
             "ChangePPS", "ChangeEPS", "Clear", "ClearControl", "HierarchyChangeAuth",
             "DictionaryAttackLockReset", "DictionaryAttackParameters", "PP_Commands",
             "SetAlgorithmSet", "ContextSave", "ClockSet", "ClockRateAdjust", "NV_DefineSpace",
             "NV_ReadPublic", "NV_GlobalWriteLock", "NV_ChangeAuth", "AC_GetCapability",
             "Policy_AC_SendSelect", "ACT_SetTimeout", "ECC_Encrypt", "ECC_Decrypt",
             "Encapsulate", "Decapsulate", "SignDigest", "VerifyDigestSignature",
             "SignSequenceComplete", "VerifySequenceComplete"}
         -> <<1, 0>>
      [] code \in {"Load", "HMAC_Start", "CreatePrimary", "CreateLoaded", "SignSequenceStart",
             "VerifySequenceStart"}
         -> <<1, 1>>
      [] code \in {"ActivateCredential", "ObjectChangeAuth", "Duplicate", "Rewrap",
             "EventSequenceComplete", "Certify", "CertifyCreation", "GetCommandAuditDigest",
             "GetTime", "PolicySigned", "PolicySecret", "FieldUpgradeStart", "EvictControl",
             "NV_UndefineSpace", "NV_UndefineSpaceSpecial", "NV_Write", "NV_Increment",
             "NV_Extend", "NV_SetBits", "NV_WriteLock", "NV_Read", "NV_ReadLock", "CertifyX509"}
         -> <<2, 0>>
      [] code \in {"StartAuthSession"}
         -> <<2, 1>>
      [] code \in {"GetSessionAuditDigest", "PolicyNV", "NV_Certify", "PolicyAuthorizeNV", "AC_Send"}
         -> <<3, 0>>
      [] OTHER -> <<0, 0>>

-----------------------------------------------------------------------------

Tss2_Sys_ACT_SetTimeout ==
    OneCall(Prepare("ACT_SetTimeout", {}, <<V("actHandle"), V("startTimeout")>>, {"auth"}),
        Complete(<<>>, <<>>), {}, TRUE)
Tss2_Sys_AC_GetCapability ==
    OneCall(Prepare("AC_GetCapability", {}, <<V("ac"), V("capability"), V("count")>>, {"auth"}),
        Complete(<<>>, <<V("moreData"), V("capabilityData")>>), {}, TRUE)
Tss2_Sys_AC_Send ==
    OneCall(Prepare("AC_Send", {}, <<V("sendObject"), V("authHandle"), V("ac"), B("acDataIn")>>,
            {"decrypt", "auth"}),
        Complete(<<>>, <<V("acDataOut")>>), {}, TRUE)
Tss2_Sys_ActivateCredential ==
    OneCall(Prepare("ActivateCredential", {}, <<V("activateHandle"), V("keyHandle"),
            B("credentialBlob"), Z("secret")>>, {"decrypt", "encrypt", "auth"}),
        Complete(<<>>, <<B("certInfo")>>), {}, TRUE)
Tss2_Sys_Certify ==
    OneCall(Prepare("Certify", {"inScheme"}, <<V("objectHandle"), V("signHandle"),
            B("qualifyingData"), R("inScheme")>>, {"decrypt", "encrypt", "auth"}),
        Complete(<<>>, <<B("certifyInfo"), V("signature")>>), {"inScheme"}, TRUE)
Tss2_Sys_CertifyCreation ==
    OneCall(Prepare("CertifyCreation", {"inScheme", "creationTicket"}, <<V("signHandle"),
            V("objectHandle"), B("qualifyingData"), S("creationHash"), R("inScheme"),
            R("creationTicket")>>, {"decrypt", "encrypt", "auth"}),
        Complete(<<>>, <<B("certifyInfo"), V("signature")>>), {"inScheme", "creationTicket"}, TRUE)
Tss2_Sys_CertifyX509 ==
    OneCall(Prepare("CertifyX509", {"reserved", "inScheme", "partialCertificate"},
            <<V("objectHandle"), V("signHandle"), E("reserved"), R("inScheme"),
            S("partialCertificate")>>, {"decrypt", "encrypt", "auth"}),
        Complete(<<>>, <<B("addedToCertificate"), B("tbsDigest"), V("signature")>>), {}, TRUE)
Tss2_Sys_ChangeEPS ==
    OneCall(Prepare("ChangeEPS", {}, <<V("authHandle")>>, {"auth"}),
        Complete(<<>>, <<>>), {}, TRUE)
Tss2_Sys_ChangePPS ==
    OneCall(Prepare("ChangePPS", {}, <<V("authHandle")>>, {"auth"}),
        Complete(<<>>, <<>>), {}, TRUE)
Tss2_Sys_Clear ==
    OneCall(Prepare("Clear", {}, <<V("authHandle")>>, {"auth"}),
        Complete(<<>>, <<>>), {}, TRUE)
Tss2_Sys_ClearControl ==
    OneCall(Prepare("ClearControl", {}, <<V("auth"), V("disable")>>, {"auth"}),
        Complete(<<>>, <<>>), {}, TRUE)
Tss2_Sys_ClockRateAdjust ==
    OneCall(Prepare("ClockRateAdjust", {}, <<V("auth"), V("rateAdjust")>>, {"auth"}),
        Complete(<<>>, <<>>), {}, TRUE)
Tss2_Sys_ClockSet ==
    OneCall(Prepare("ClockSet", {}, <<V("auth"), V("newTime")>>, {"auth"}),
        Complete(<<>>, <<>>), {}, TRUE)
Tss2_Sys_Commit ==
    OneCall(Prepare("Commit", {}, <<V("signHandle"), B("P1"), Z("s2"), Z("y2")>>, {"decrypt",
            "encrypt", "auth"}),
        Complete(<<>>, <<B("K"), B("L"), B("E"), V("counter")>>), {}, TRUE)
Tss2_Sys_ContextLoad ==
    OneCall(Prepare("ContextLoad", {"context"}, <<R("context")>>, {}),
        Complete(<<V("loadedHandle")>>, <<>>), {"context"}, FALSE)
Tss2_Sys_ContextSave ==
    OneCall(Prepare("ContextSave", {}, <<V("saveHandle")>>, {}),
        Complete(<<>>, <<V("context")>>), {}, FALSE)
Tss2_Sys_Create ==
    OneCall(Prepare("Create", {"creationPCR"}, <<V("parentHandle"), B("inSensitive"),
            Z("inPublic"), Z("outsideInfo"), R("creationPCR")>>, {"decrypt", "encrypt", "auth"}),
        Complete(<<>>, <<B("outPrivate"), B("outPublic"), B("creationData"), B("creationHash"),
            V("creationTicket")>>), {"creationPCR"}, TRUE)
Tss2_Sys_CreateLoaded ==
    OneCall(Prepare("CreateLoaded", {"inPublic"}, <<V("parentHandle"), B("inSensitive"),
            S("inPublic")>>, {"decrypt", "encrypt", "auth"}),
        Complete(<<V("objectHandle")>>, <<B("outPrivate"), B("outPublic"), B("name")>>),
            {"objectHandle", "outPrivate", "outPublic", "name"}, TRUE)
Tss2_Sys_CreatePrimary ==
    OneCall(Prepare("CreatePrimary", {"creationPCR"}, <<V("primaryHandle"), B("inSensitive"),
            Z("inPublic"), Z("outsideInfo"), R("creationPCR")>>, {"decrypt", "encrypt", "auth"}),
        Complete(<<V("objectHandle")>>, <<B("outPublic"), B("creationData"), B("creationHash"),
            V("creationTicket"), B("name")>>), {"creationPCR"}, TRUE)
Tss2_Sys_Decapsulate ==
    OneCall(Prepare("Decapsulate", {}, <<V("keyHandle"), Z("cipherText"), Z("label")>>, {"decrypt",
            "encrypt", "auth"}),
        Complete(<<>>, <<B("outSymSeed")>>), {}, TRUE)
Tss2_Sys_DictionaryAttackLockReset ==
    OneCall(Prepare("DictionaryAttackLockReset", {}, <<V("lockHandle")>>, {"auth"}),
        Complete(<<>>, <<>>), {}, TRUE)
Tss2_Sys_DictionaryAttackParameters ==
    OneCall(Prepare("DictionaryAttackParameters", {}, <<V("lockHandle"), V("newMaxTries"),
            V("newRecoveryTime"), V("lockoutRecovery")>>, {"auth"}),
        Complete(<<>>, <<>>), {}, TRUE)
Tss2_Sys_Duplicate ==
    OneCall(Prepare("Duplicate", {"symmetricAlg"}, <<V("objectHandle"), V("newParentHandle"),
            B("encryptionKeyIn"), R("symmetricAlg")>>, {"decrypt", "encrypt", "auth"}),
        Complete(<<>>, <<B("encryptionKeyOut"), B("duplicate"), B("outSymSeed")>>),
            {"symmetricAlg"}, TRUE)
Tss2_Sys_ECC_Decrypt ==
    OneCall(Prepare("ECC_Decrypt", {"inScheme"}, <<V("keyHandle"), Z("c1"), Z("c2"), Z("c3"),
            R("inScheme")>>, {"decrypt", "encrypt", "auth"}),
        Complete(<<>>, <<B("plaintText")>>), {"inScheme"}, TRUE)
Tss2_Sys_ECC_Encrypt ==
    OneCall(Prepare("ECC_Encrypt", {"inScheme"}, <<V("keyHandle"), B("platinText"),
            R("inScheme")>>, {"decrypt", "encrypt", "auth"}),
        Complete(<<>>, <<B("c1"), B("c2"), B("c3")>>), {"inScheme"}, TRUE)
Tss2_Sys_ECC_Parameters ==
    OneCall(Prepare("ECC_Parameters", {}, <<V("curveID")>>, {"auth"}),
        Complete(<<>>, <<V("parameters")>>), {}, TRUE)
Tss2_Sys_ECDH_KeyGen ==
    OneCall(Prepare("ECDH_KeyGen", {}, <<V("keyHandle")>>, {"encrypt", "auth"}),
        Complete(<<>>, <<B("zPoint"), B("pubPoint")>>), {}, TRUE)
Tss2_Sys_ECDH_ZGen ==
    OneCall(Prepare("ECDH_ZGen", {}, <<V("keyHandle"), Z("inPoint")>>, {"decrypt", "encrypt",
            "auth"}),
        Complete(<<>>, <<B("outPoint")>>), {}, TRUE)
Tss2_Sys_EC_Ephemeral ==
    OneCall(Prepare("EC_Ephemeral", {}, <<V("curveID")>>, {"encrypt", "auth"}),
        Complete(<<>>, <<B("Q"), V("counter")>>), {}, TRUE)
Tss2_Sys_Encapsulate ==
    OneCall(Prepare("Encapsulate", {}, <<V("keyHandle"), Z("label")>>, {"decrypt", "encrypt",
            "auth"}),
        Complete(<<>>, <<B("outSymSeed"), B("cipherText")>>), {}, TRUE)
Tss2_Sys_EncryptDecrypt ==
    OneCall(Prepare("EncryptDecrypt", {}, <<V("keyHandle"), V("decrypt"), V("mode"), Z("ivIn"),
            Z("inData")>>, {"encrypt", "auth"}),
        Complete(<<>>, <<B("outData"), B("ivOut")>>), {}, TRUE)
Tss2_Sys_EncryptDecrypt2 ==
    OneCall(Prepare("EncryptDecrypt2", {}, <<V("keyHandle"), Z("inData"), V("decrypt"), V("mode"),
            Z("ivIn")>>, {"decrypt", "encrypt", "auth"}),
        Complete(<<>>, <<B("outData"), B("ivOut")>>), {}, TRUE)
Tss2_Sys_EventSequenceComplete ==
    OneCall(Prepare("EventSequenceComplete", {}, <<V("pcrHandle"), V("sequenceHandle"),
            Z("buffer")>>, {"decrypt", "auth"}),
        Complete(<<>>, <<V("results")>>), {}, TRUE)
Tss2_Sys_EvictControl ==
    OneCall(Prepare("EvictControl", {}, <<V("auth"), V("objectHandle"), V("persistentHandle")>>,
            {"auth"}),
        Complete(<<>>, <<>>), {}, TRUE)
Tss2_Sys_FieldUpgradeData ==
    OneCall(Prepare("FieldUpgradeData", {}, <<Z("fuData")>>, {"decrypt", "auth"}),
        Complete(<<>>, <<V("nextDigest"), V("firstDigest")>>), {}, TRUE)
Tss2_Sys_FieldUpgradeStart ==
    OneCall(Prepare("FieldUpgradeStart", {"manifestSignature"}, <<V("authorization"),
            V("keyHandle"), B("fuDigest"), R("manifestSignature")>>, {"decrypt", "auth"}),
        Complete(<<>>, <<>>), {"manifestSignature"}, TRUE)
Tss2_Sys_FirmwareRead ==
    OneCall(Prepare("FirmwareRead", {}, <<V("sequenceNumber")>>, {"encrypt", "auth"}),
        Complete(<<>>, <<B("fuData")>>), {}, TRUE)
Tss2_Sys_FlushContext ==
    OneCall(Prepare("FlushContext", {}, <<V("flushHandle")>>, {}),
        Complete(<<>>, <<>>), {}, FALSE)
Tss2_Sys_GetCapability ==
    OneCall(Prepare("GetCapability", {}, <<V("capability"), V("property"), V("propertyCount")>>,
            {"auth"}),
        Complete(<<>>, <<V("moreData"), V("capabilityData")>>), {}, TRUE)
Tss2_Sys_GetCommandAuditDigest ==
    OneCall(Prepare("GetCommandAuditDigest", {"inScheme"}, <<V("privacyHandle"), V("signHandle"),
            B("qualifyingData"), R("inScheme")>>, {"decrypt", "encrypt", "auth"}),
        Complete(<<>>, <<B("auditInfo"), V("signature")>>), {"inScheme"}, TRUE)
\* A bug: the response cannot be encrypted.
GetRandomPlain ==
    OneCall(Prepare("GetRandom", {}, <<V("bytesRequested")>>, {"auth"}),
        Complete(<<>>, <<B("randomBytes")>>), {}, TRUE)
Tss2_Sys_GetRandom ==
    OneCall(Prepare("GetRandom", {}, <<V("bytesRequested")>>, {"encrypt", "auth"}),
        Complete(<<>>, <<B("randomBytes")>>), {}, TRUE)
Tss2_Sys_GetSessionAuditDigest ==
    OneCall(Prepare("GetSessionAuditDigest", {"inScheme"}, <<V("privacyAdminHandle"),
            V("signHandle"), V("sessionHandle"), B("qualifyingData"), R("inScheme")>>, {"decrypt",
            "encrypt", "auth"}),
        Complete(<<>>, <<B("auditInfo"), V("signature")>>), {"inScheme"}, TRUE)
Tss2_Sys_GetTestResult ==
    OneCall(Prepare("GetTestResult", {}, <<>>, {"encrypt", "auth"}),
        Complete(<<>>, <<B("outData"), V("testResult")>>), {}, TRUE)
Tss2_Sys_GetTime ==
    OneCall(Prepare("GetTime", {"inScheme"}, <<V("privacyAdminHandle"), V("signHandle"),
            B("qualifyingData"), R("inScheme")>>, {"decrypt", "encrypt", "auth"}),
        Complete(<<>>, <<B("timeInfo"), V("signature")>>), {"inScheme"}, TRUE)
Tss2_Sys_HMAC ==
    OneCall(Prepare("HMAC", {}, <<V("handle"), B("buffer"), V("hashAlg")>>, {"decrypt", "encrypt",
            "auth"}),
        Complete(<<>>, <<B("outHMAC")>>), {}, TRUE)
Tss2_Sys_HMAC_Start ==
    OneCall(Prepare("HMAC_Start", {}, <<V("handle"), B("auth"), V("hashAlg")>>, {"decrypt",
            "auth"}),
        Complete(<<V("sequenceHandle")>>, <<>>), {}, TRUE)
Tss2_Sys_Hash ==
    OneCall(Prepare("Hash", {}, <<B("data"), V("hashAlg"), V("hierarchy")>>, {"decrypt", "encrypt",
            "auth"}),
        Complete(<<>>, <<B("outHash"), V("validation")>>), {}, TRUE)
Tss2_Sys_HashSequenceStart ==
    OneCall(Prepare("HashSequenceStart", {}, <<B("auth"), V("hashAlg")>>, {"decrypt", "auth"}),
        Complete(<<V("sequenceHandle")>>, <<>>), {}, TRUE)
Tss2_Sys_HierarchyChangeAuth ==
    OneCall(Prepare("HierarchyChangeAuth", {}, <<V("authHandle"), Z("newAuth")>>, {"decrypt",
            "auth"}),
        Complete(<<>>, <<>>), {}, TRUE)
Tss2_Sys_HierarchyControl ==
    OneCall(Prepare("HierarchyControl", {}, <<V("authHandle"), V("enable"), V("state")>>,
            {"auth"}),
        Complete(<<>>, <<>>), {}, TRUE)
Tss2_Sys_Import ==
    OneCall(Prepare("Import", {"symmetricAlg"}, <<V("parentHandle"), B("encryptionKey"),
            Z("objectPublic"), Z("duplicate"), Z("inSymSeed"), R("symmetricAlg")>>, {"decrypt",
            "encrypt", "auth"}),
        Complete(<<>>, <<B("outPrivate")>>), {"symmetricAlg"}, TRUE)
Tss2_Sys_IncrementalSelfTest ==
    OneCall(Prepare("IncrementalSelfTest", {"toTest"}, <<R("toTest")>>, {"auth"}),
        Complete(<<>>, <<V("toDoList")>>), {"toTest"}, TRUE)
Tss2_Sys_Load ==
    OneCall(Prepare("Load", {}, <<V("parentHandle"), B("inPrivate"), Z("inPublic")>>, {"decrypt",
            "encrypt", "auth"}),
        Complete(<<V("objectHandle")>>, <<B("name")>>), {}, TRUE)
\* A bug: the handle is read behind the parameter size.
LoadExternalLate ==
    OneCall(Prepare("LoadExternal", {}, <<B("inPrivate"), Z("inPublic"), V("hierarchy")>>,
            {"decrypt", "encrypt", "auth"}),
        Complete(<<>>, <<V("objectHandle"), B("name")>>), {}, TRUE)
Tss2_Sys_LoadExternal ==
    OneCall(Prepare("LoadExternal", {}, <<B("inPrivate"), Z("inPublic"), V("hierarchy")>>,
            {"decrypt", "encrypt", "auth"}),
        Complete(<<V("objectHandle")>>, <<B("name")>>), {}, TRUE)
Tss2_Sys_MAC ==
    OneCall(Prepare("HMAC", {}, <<V("handle"), B("buffer"), V("inScheme")>>, {"decrypt", "encrypt",
            "auth"}),
        Complete(<<>>, <<B("outMAC")>>), {}, TRUE)
Tss2_Sys_MAC_Start ==
    OneCall(Prepare("HMAC_Start", {}, <<V("handle"), B("auth"), V("inScheme")>>, {"decrypt",
            "auth"}),
        Complete(<<V("sequenceHandle")>>, <<>>), {}, TRUE)
Tss2_Sys_MakeCredential ==
    OneCall(Prepare("MakeCredential", {}, <<V("handle"), B("credential"), Z("objectName")>>,
            {"decrypt", "encrypt", "auth"}),
        Complete(<<>>, <<B("credentialBlob"), B("secret")>>), {}, TRUE)
Tss2_Sys_NV_Certify ==
    OneCall(Prepare("NV_Certify", {"inScheme"}, <<V("signHandle"), V("authHandle"), V("nvIndex"),
            B("qualifyingData"), R("inScheme"), V("size"), V("offset")>>, {"decrypt", "encrypt",
            "auth"}),
        Complete(<<>>, <<B("certifyInfo"), V("signature")>>), {"inScheme"}, TRUE)
Tss2_Sys_NV_ChangeAuth ==
    OneCall(Prepare("NV_ChangeAuth", {}, <<V("nvIndex"), Z("newAuth")>>, {"decrypt", "auth"}),
        Complete(<<>>, <<>>), {}, TRUE)
Tss2_Sys_NV_DefineSpace ==
    OneCall(Prepare("NV_DefineSpace", {}, <<V("authHandle"), B("auth"), Z("publicInfo")>>,
            {"decrypt", "auth"}),
        Complete(<<>>, <<>>), {}, TRUE)
Tss2_Sys_NV_Extend ==
    OneCall(Prepare("NV_Extend", {}, <<V("authHandle"), V("nvIndex"), Z("data")>>, {"decrypt",
            "auth"}),
        Complete(<<>>, <<>>), {}, TRUE)
Tss2_Sys_NV_GlobalWriteLock ==
    OneCall(Prepare("NV_GlobalWriteLock", {}, <<V("authHandle")>>, {"auth"}),
        Complete(<<>>, <<>>), {}, TRUE)
Tss2_Sys_NV_Increment ==
    OneCall(Prepare("NV_Increment", {}, <<V("authHandle"), V("nvIndex")>>, {"auth"}),
        Complete(<<>>, <<>>), {}, TRUE)
Tss2_Sys_NV_Read ==
    OneCall(Prepare("NV_Read", {}, <<V("authHandle"), V("nvIndex"), V("size"), V("offset")>>,
            {"encrypt", "auth"}),
        Complete(<<>>, <<B("data")>>), {}, TRUE)
Tss2_Sys_NV_ReadLock ==
    OneCall(Prepare("NV_ReadLock", {}, <<V("authHandle"), V("nvIndex")>>, {"auth"}),
        Complete(<<>>, <<>>), {}, TRUE)
Tss2_Sys_NV_ReadPublic ==
    OneCall(Prepare("NV_ReadPublic", {}, <<V("nvIndex")>>, {"encrypt", "auth"}),
        Complete(<<>>, <<B("nvPublic"), B("nvName")>>), {}, TRUE)
Tss2_Sys_NV_SetBits ==
    OneCall(Prepare("NV_SetBits", {}, <<V("authHandle"), V("nvIndex"), V("bits")>>, {"auth"}),
        Complete(<<>>, <<>>), {}, TRUE)
Tss2_Sys_NV_UndefineSpace ==
    OneCall(Prepare("NV_UndefineSpace", {}, <<V("authHandle"), V("nvIndex")>>, {"auth"}),
        Complete(<<>>, <<>>), {}, TRUE)
Tss2_Sys_NV_UndefineSpaceSpecial ==
    OneCall(Prepare("NV_UndefineSpaceSpecial", {}, <<V("nvIndex"), V("platform")>>, {"auth"}),
        Complete(<<>>, <<>>), {}, TRUE)
Tss2_Sys_NV_Write ==
    OneCall(Prepare("NV_Write", {}, <<V("authHandle"), V("nvIndex"), B("data"), V("offset")>>,
            {"decrypt", "auth"}),
        Complete(<<>>, <<>>), {}, TRUE)
Tss2_Sys_NV_WriteLock ==
    OneCall(Prepare("NV_WriteLock", {}, <<V("authHandle"), V("nvIndex")>>, {"auth"}),
        Complete(<<>>, <<>>), {}, TRUE)
Tss2_Sys_ObjectChangeAuth ==
    OneCall(Prepare("ObjectChangeAuth", {}, <<V("objectHandle"), V("parentHandle"), Z("newAuth")>>,
            {"decrypt", "encrypt", "auth"}),
        Complete(<<>>, <<B("outPrivate")>>), {}, TRUE)
Tss2_Sys_PCR_Allocate ==
    OneCall(Prepare("PCR_Allocate", {"pcrAllocation"}, <<V("authHandle"), R("pcrAllocation")>>,
            {"auth"}),
        Complete(<<>>, <<V("allocationSuccess"), V("maxPCR"), V("sizeNeeded"),
            V("sizeAvailable")>>), {"pcrAllocation"}, TRUE)
Tss2_Sys_PCR_Event ==
    OneCall(Prepare("PCR_Event", {}, <<V("pcrHandle"), Z("eventData")>>, {"decrypt", "auth"}),
        Complete(<<>>, <<V("digests")>>), {}, TRUE)
Tss2_Sys_PCR_Extend ==
    OneCall(Prepare("PCR_Extend", {"digests"}, <<V("pcrHandle"), R("digests")>>, {"auth"}),
        Complete(<<>>, <<>>), {"digests"}, TRUE)
Tss2_Sys_PCR_Read ==
    OneCall(Prepare("PCR_Read", {"pcrSelectionIn"}, <<R("pcrSelectionIn")>>, {"auth"}),
        Complete(<<>>, <<V("pcrUpdateCounter"), V("pcrSelectionOut"), V("pcrValues")>>),
            {"pcrSelectionIn"}, TRUE)
Tss2_Sys_PCR_Reset ==
    OneCall(Prepare("PCR_Reset", {}, <<V("pcrHandle")>>, {"auth"}),
        Complete(<<>>, <<>>), {}, TRUE)
Tss2_Sys_PCR_SetAuthPolicy ==
    OneCall(Prepare("PCR_SetAuthPolicy", {}, <<V("authHandle"), B("authPolicy"), V("hashAlg"),
            V("pcrNum")>>, {"decrypt", "auth"}),
        Complete(<<>>, <<>>), {}, TRUE)
Tss2_Sys_PCR_SetAuthValue ==
    OneCall(Prepare("PCR_SetAuthValue", {}, <<V("pcrHandle"), Z("auth")>>, {"decrypt", "auth"}),
        Complete(<<>>, <<>>), {}, TRUE)
Tss2_Sys_PP_Commands ==
    OneCall(Prepare("PP_Commands", {"setList", "clearList"}, <<V("auth"), R("setList"),
            R("clearList")>>, {"auth"}),
        Complete(<<>>, <<>>), {"setList", "clearList"}, TRUE)
Tss2_Sys_PolicyAuthValue ==
    OneCall(Prepare("PolicyAuthValue", {}, <<V("policySession")>>, {"auth"}),
        Complete(<<>>, <<>>), {}, TRUE)
Tss2_Sys_PolicyAuthorize ==
    OneCall(Prepare("PolicyAuthorize", {"checkTicket"}, <<V("policySession"), B("approvedPolicy"),
            Z("policyRef"), Z("keySign"), R("checkTicket")>>, {"decrypt", "auth"}),
        Complete(<<>>, <<>>), {"checkTicket"}, TRUE)
Tss2_Sys_PolicyAuthorizeNV ==
    OneCall(Prepare("PolicyAuthorizeNV", {}, <<V("authHandle"), V("nvIndex"), V("policySession")>>,
            {"auth"}),
        Complete(<<>>, <<>>), {}, TRUE)
Tss2_Sys_PolicyCommandCode ==
    OneCall(Prepare("PolicyCommandCode", {}, <<V("policySession"), V("code")>>, {"auth"}),
        Complete(<<>>, <<>>), {}, TRUE)
Tss2_Sys_PolicyCounterTimer ==
    OneCall(Prepare("PolicyCounterTimer", {}, <<V("policySession"), B("operandB"), V("offset"),
            V("operation")>>, {"decrypt", "auth"}),
        Complete(<<>>, <<>>), {}, TRUE)
Tss2_Sys_PolicyCpHash ==
    OneCall(Prepare("PolicyCpHash", {}, <<V("policySession"), Z("cpHashA")>>, {"decrypt", "auth"}),
        Complete(<<>>, <<>>), {}, TRUE)
Tss2_Sys_PolicyDuplicationSelect ==
    OneCall(Prepare("PolicyDuplicationSelect", {}, <<V("policySession"), B("objectName"),
            Z("newParentName"), V("includeObject")>>, {"decrypt", "auth"}),
        Complete(<<>>, <<>>), {}, TRUE)
Tss2_Sys_PolicyGetDigest ==
    OneCall(Prepare("PolicyGetDigest", {}, <<V("policySession")>>, {"encrypt", "auth"}),
        Complete(<<>>, <<B("policyDigest")>>), {}, TRUE)
Tss2_Sys_PolicyLocality ==
    OneCall(Prepare("PolicyLocality", {}, <<V("policySession"), V("locality")>>, {"auth"}),
        Complete(<<>>, <<>>), {}, TRUE)
Tss2_Sys_PolicyNV ==
    OneCall(Prepare("PolicyNV", {}, <<V("authHandle"), V("nvIndex"), V("policySession"),
            B("operandB"), V("offset"), V("operation")>>, {"decrypt", "auth"}),
        Complete(<<>>, <<>>), {}, TRUE)
Tss2_Sys_PolicyNameHash ==
    OneCall(Prepare("PolicyNameHash", {}, <<V("policySession"), Z("nameHash")>>, {"decrypt",
            "auth"}),
        Complete(<<>>, <<>>), {}, TRUE)
Tss2_Sys_PolicyNvWritten ==
    OneCall(Prepare("PolicyNvWritten", {}, <<V("policySession"), V("writtenSet")>>, {"auth"}),
        Complete(<<>>, <<>>), {}, TRUE)
Tss2_Sys_PolicyOR ==
    OneCall(Prepare("PolicyOR", {"pHashList"}, <<V("policySession"), R("pHashList")>>, {"auth"}),
        Complete(<<>>, <<>>), {"pHashList"}, TRUE)
Tss2_Sys_PolicyPCR ==
    OneCall(Prepare("PolicyPCR", {"pcrs"}, <<V("policySession"), B("pcrDigest"), R("pcrs")>>,
            {"decrypt", "auth"}),
        Complete(<<>>, <<>>), {"pcrs"}, TRUE)
Tss2_Sys_PolicyPassword ==
    OneCall(Prepare("PolicyPassword", {}, <<V("policySession")>>, {"auth"}),
        Complete(<<>>, <<>>), {}, TRUE)
Tss2_Sys_PolicyPhysicalPresence ==
    OneCall(Prepare("PolicyPhysicalPresence", {}, <<V("policySession")>>, {"auth"}),
        Complete(<<>>, <<>>), {}, TRUE)
Tss2_Sys_PolicyRestart ==
    OneCall(Prepare("PolicyRestart", {}, <<V("sessionHandle")>>, {"auth"}),
        Complete(<<>>, <<>>), {}, TRUE)
Tss2_Sys_PolicySecret ==
    OneCall(Prepare("PolicySecret", {}, <<V("authHandle"), V("policySession"), B("nonceTPM"),
            Z("cpHashA"), Z("policyRef"), V("expiration")>>, {"decrypt", "encrypt", "auth"}),
        Complete(<<>>, <<B("timeout"), V("policyTicket")>>), {}, TRUE)
Tss2_Sys_PolicySigned ==
    OneCall(Prepare("PolicySigned", {"auth"}, <<V("authObject"), V("policySession"), B("nonceTPM"),
            Z("cpHashA"), Z("policyRef"), V("expiration"), R("auth")>>, {"decrypt", "encrypt",
            "auth"}),
        Complete(<<>>, <<B("timeout"), V("policyTicket")>>), {"auth"}, TRUE)
Tss2_Sys_PolicyTemplate ==
    OneCall(Prepare("PolicyTemplate", {}, <<V("policySession"), Z("templateHash")>>, {"decrypt",
            "auth"}),
        Complete(<<>>, <<>>), {}, TRUE)
Tss2_Sys_PolicyTicket ==
    OneCall(Prepare("PolicyTicket", {"ticket"}, <<V("policySession"), B("timeout"), Z("cpHashA"),
            Z("policyRef"), Z("authName"), R("ticket")>>, {"decrypt", "auth"}),
        Complete(<<>>, <<>>), {"ticket"}, TRUE)
Tss2_Sys_Policy_AC_SendSelect ==
    OneCall(Prepare("Policy_AC_SendSelect", {}, <<V("policySession"), B("objectName"),
            Z("authHandleName"), Z("acName"), V("includeObject")>>, {"decrypt", "auth"}),
        Complete(<<>>, <<>>), {}, TRUE)
Tss2_Sys_Quote ==
    OneCall(Prepare("Quote", {"inScheme", "PCRselect"}, <<V("signHandle"), B("qualifyingData"),
            R("inScheme"), R("PCRselect")>>, {"decrypt", "encrypt", "auth"}),
        Complete(<<>>, <<B("quoted"), V("signature")>>), {"inScheme", "PCRselect"}, TRUE)
Tss2_Sys_RSA_Decrypt ==
    OneCall(Prepare("RSA_Decrypt", {"inScheme"}, <<V("keyHandle"), B("cipherText"), R("inScheme"),
            Z("label")>>, {"decrypt", "encrypt", "auth"}),
        Complete(<<>>, <<B("message")>>), {"inScheme"}, TRUE)
Tss2_Sys_RSA_Encrypt ==
    OneCall(Prepare("RSA_Encrypt", {"inScheme"}, <<V("keyHandle"), B("message"), R("inScheme"),
            Z("label")>>, {"decrypt", "encrypt", "auth"}),
        Complete(<<>>, <<B("outData")>>), {"inScheme"}, TRUE)
Tss2_Sys_ReadClock ==
    OneCall(Prepare("ReadClock", {}, <<>>, {"auth"}),
        Complete(<<>>, <<V("currentTime")>>), {}, TRUE)
Tss2_Sys_ReadPublic ==
    OneCall(Prepare("ReadPublic", {}, <<V("objectHandle")>>, {"encrypt", "auth"}),
        Complete(<<>>, <<B("outPublic"), B("name"), B("qualifiedName")>>), {}, TRUE)
Tss2_Sys_Rewrap ==
    OneCall(Prepare("Rewrap", {}, <<V("oldParent"), V("newParent"), B("inDuplicate"), Z("name"),
            Z("inSymSeed")>>, {"decrypt", "encrypt", "auth"}),
        Complete(<<>>, <<B("outDuplicate"), B("outSymSeed")>>), {}, TRUE)
Tss2_Sys_SelfTest ==
    OneCall(Prepare("SelfTest", {}, <<V("fullTest")>>, {"auth"}),
        Complete(<<>>, <<>>), {}, TRUE)
Tss2_Sys_SequenceComplete ==
    OneCall(Prepare("SequenceComplete", {}, <<V("sequenceHandle"), B("buffer"), V("hierarchy")>>,
            {"decrypt", "encrypt", "auth"}),
        Complete(<<>>, <<B("result"), V("validation")>>), {}, TRUE)
Tss2_Sys_SequenceUpdate ==
    OneCall(Prepare("SequenceUpdate", {}, <<V("sequenceHandle"), Z("buffer")>>, {"decrypt",
            "auth"}),
        Complete(<<>>, <<>>), {}, TRUE)
Tss2_Sys_SetAlgorithmSet ==
    OneCall(Prepare("SetAlgorithmSet", {}, <<V("authHandle"), V("algorithmSet")>>, {"auth"}),
        Complete(<<>>, <<>>), {}, TRUE)
Tss2_Sys_SetCommandCodeAuditStatus ==
    OneCall(Prepare("SetCommandCodeAuditStatus", {"setList", "clearList"}, <<V("auth"),
            V("auditAlg"), R("setList"), R("clearList")>>, {"auth"}),
        Complete(<<>>, <<>>), {"setList", "clearList"}, TRUE)
Tss2_Sys_SetPrimaryPolicy ==
    OneCall(Prepare("SetPrimaryPolicy", {}, <<V("authHandle"), B("authPolicy"), V("hashAlg")>>,
            {"decrypt", "auth"}),
        Complete(<<>>, <<>>), {}, TRUE)
Tss2_Sys_Shutdown ==
    OneCall(Prepare("Shutdown", {}, <<V("shutdownType")>>, {"auth"}),
        Complete(<<>>, <<>>), {}, TRUE)
Tss2_Sys_Sign ==
    OneCall(Prepare("Sign", {"inScheme", "validation"}, <<V("keyHandle"), B("digest"),
            R("inScheme"), R("validation")>>, {"decrypt", "auth"}),
        Complete(<<>>, <<V("signature")>>), {"inScheme", "validation"}, TRUE)
Tss2_Sys_SignDigest ==
    OneCall(Prepare("SignDigest", {"inScheme", "validation"}, <<V("keyHandle"), B("digest"),
            R("inScheme"), R("validation")>>, {"decrypt", "auth"}),
        Complete(<<>>, <<V("signature")>>), {"inScheme", "validation"}, TRUE)
Tss2_Sys_SignSequenceComplete ==
    OneCall(Prepare("SignSequenceComplete", {}, <<V("sequenceHandle"), B("buffer")>>, {"decrypt",
            "auth"}),
        Complete(<<>>, <<V("signature")>>), {}, TRUE)
Tss2_Sys_SignSequenceStart ==
    OneCall(Prepare("SignSequenceStart", {"inScheme"}, <<V("keyHandle"), R("inScheme"),
            V("keyB")>>, {"auth"}),
        Complete(<<>>, <<V("sequenceHandle")>>), {}, TRUE)
Tss2_Sys_StartAuthSession ==
    OneCall(Prepare("StartAuthSession", {"symmetric"}, <<V("tpmKey"), V("bind"), B("nonceCaller"),
            Z("encryptedSalt"), V("sessionType"), R("symmetric"), V("authHash")>>, {"decrypt",
            "encrypt", "auth"}),
        Complete(<<V("sessionHandle")>>, <<B("nonceTPM")>>), {"symmetric"}, TRUE)
Tss2_Sys_Startup ==
    OneCall(Prepare("Startup", {}, <<V("startupType")>>, {}),
        Complete(<<>>, <<>>), {}, FALSE)
Tss2_Sys_StirRandom ==
    OneCall(Prepare("StirRandom", {}, <<Z("inData")>>, {"decrypt", "auth"}),
        Complete(<<>>, <<>>), {}, TRUE)
Tss2_Sys_TestParms ==
    OneCall(Prepare("TestParms", {"parameters"}, <<R("parameters")>>, {"auth"}),
        Complete(<<>>, <<>>), {"parameters"}, TRUE)
Tss2_Sys_Unseal ==
    OneCall(Prepare("Unseal", {}, <<V("itemHandle")>>, {"encrypt", "auth"}),
        Complete(<<>>, <<B("outData")>>), {}, TRUE)
Tss2_Sys_Vendor_TCG_Test ==
    OneCall(Prepare("Vendor_TCG_Test", {}, <<Z("inputData")>>, {"decrypt", "encrypt", "auth"}),
        Complete(<<>>, <<B("outputData")>>), {}, TRUE)
Tss2_Sys_VerifyDigestSignature ==
    OneCall(Prepare("VerifyDigestSignature", {"signature"}, <<V("keyHandle"), B("digest"),
            R("signature")>>, {"decrypt", "auth"}),
        Complete(<<>>, <<V("validation")>>), {"signature"}, TRUE)
Tss2_Sys_VerifySequenceComplete ==
    OneCall(Prepare("VerifySequenceComplete", {}, <<V("sequenceHandle"), B("buffer")>>, {"decrypt",
            "auth"}),
        Complete(<<>>, <<V("validation")>>), {}, TRUE)
Tss2_Sys_VerifySequenceStart ==
    OneCall(Prepare("VerifySequenceStart", {"signature"}, <<V("keyHandle"), R("signature")>>,
            {"auth"}),
        Complete(<<>>, <<V("sequenceHandle")>>), {}, TRUE)
Tss2_Sys_VerifySignature ==
    OneCall(Prepare("VerifySignature", {"signature"}, <<V("keyHandle"), B("digest"),
            R("signature")>>, {"decrypt", "auth"}),
        Complete(<<>>, <<V("validation")>>), {"signature"}, TRUE)
Tss2_Sys_ZGen_2Phase ==
    OneCall(Prepare("ZGen_2Phase", {}, <<V("keyA"), B("inQsB"), Z("inQeB"), V("inScheme"),
            V("counter")>>, {"decrypt", "encrypt", "auth"}),
        Complete(<<>>, <<B("outZ1"), B("outZ2")>>), {}, TRUE)

\* The SAPI commands by name.
SysCommands == [
    ACT_SetTimeout |-> Tss2_Sys_ACT_SetTimeout,
    AC_GetCapability |-> Tss2_Sys_AC_GetCapability,
    AC_Send |-> Tss2_Sys_AC_Send,
    ActivateCredential |-> Tss2_Sys_ActivateCredential,
    Certify |-> Tss2_Sys_Certify,
    CertifyCreation |-> Tss2_Sys_CertifyCreation,
    CertifyX509 |-> Tss2_Sys_CertifyX509,
    ChangeEPS |-> Tss2_Sys_ChangeEPS,
    ChangePPS |-> Tss2_Sys_ChangePPS,
    Clear |-> Tss2_Sys_Clear,
    ClearControl |-> Tss2_Sys_ClearControl,
    ClockRateAdjust |-> Tss2_Sys_ClockRateAdjust,
    ClockSet |-> Tss2_Sys_ClockSet,
    Commit |-> Tss2_Sys_Commit,
    ContextLoad |-> Tss2_Sys_ContextLoad,
    ContextSave |-> Tss2_Sys_ContextSave,
    Create |-> Tss2_Sys_Create,
    CreateLoaded |-> Tss2_Sys_CreateLoaded,
    CreatePrimary |-> Tss2_Sys_CreatePrimary,
    Decapsulate |-> Tss2_Sys_Decapsulate,
    DictionaryAttackLockReset |-> Tss2_Sys_DictionaryAttackLockReset,
    DictionaryAttackParameters |-> Tss2_Sys_DictionaryAttackParameters,
    Duplicate |-> Tss2_Sys_Duplicate,
    ECC_Decrypt |-> Tss2_Sys_ECC_Decrypt,
    ECC_Encrypt |-> Tss2_Sys_ECC_Encrypt,
    ECC_Parameters |-> Tss2_Sys_ECC_Parameters,
    ECDH_KeyGen |-> Tss2_Sys_ECDH_KeyGen,
    ECDH_ZGen |-> Tss2_Sys_ECDH_ZGen,
    EC_Ephemeral |-> Tss2_Sys_EC_Ephemeral,
    Encapsulate |-> Tss2_Sys_Encapsulate,
    EncryptDecrypt |-> Tss2_Sys_EncryptDecrypt,
    EncryptDecrypt2 |-> Tss2_Sys_EncryptDecrypt2,
    EventSequenceComplete |-> Tss2_Sys_EventSequenceComplete,
    EvictControl |-> Tss2_Sys_EvictControl,
    FieldUpgradeData |-> Tss2_Sys_FieldUpgradeData,
    FieldUpgradeStart |-> Tss2_Sys_FieldUpgradeStart,
    FirmwareRead |-> Tss2_Sys_FirmwareRead,
    FlushContext |-> Tss2_Sys_FlushContext,
    GetCapability |-> Tss2_Sys_GetCapability,
    GetCommandAuditDigest |-> Tss2_Sys_GetCommandAuditDigest,
    GetRandom |-> Tss2_Sys_GetRandom,
    GetSessionAuditDigest |-> Tss2_Sys_GetSessionAuditDigest,
    GetTestResult |-> Tss2_Sys_GetTestResult,
    GetTime |-> Tss2_Sys_GetTime,
    HMAC |-> Tss2_Sys_HMAC,
    HMAC_Start |-> Tss2_Sys_HMAC_Start,
    Hash |-> Tss2_Sys_Hash,
    HashSequenceStart |-> Tss2_Sys_HashSequenceStart,
    HierarchyChangeAuth |-> Tss2_Sys_HierarchyChangeAuth,
    HierarchyControl |-> Tss2_Sys_HierarchyControl,
    Import |-> Tss2_Sys_Import,
    IncrementalSelfTest |-> Tss2_Sys_IncrementalSelfTest,
    Load |-> Tss2_Sys_Load,
    LoadExternal |-> Tss2_Sys_LoadExternal,
    MAC |-> Tss2_Sys_MAC,
    MAC_Start |-> Tss2_Sys_MAC_Start,
    MakeCredential |-> Tss2_Sys_MakeCredential,
    NV_Certify |-> Tss2_Sys_NV_Certify,
    NV_ChangeAuth |-> Tss2_Sys_NV_ChangeAuth,
    NV_DefineSpace |-> Tss2_Sys_NV_DefineSpace,
    NV_Extend |-> Tss2_Sys_NV_Extend,
    NV_GlobalWriteLock |-> Tss2_Sys_NV_GlobalWriteLock,
    NV_Increment |-> Tss2_Sys_NV_Increment,
    NV_Read |-> Tss2_Sys_NV_Read,
    NV_ReadLock |-> Tss2_Sys_NV_ReadLock,
    NV_ReadPublic |-> Tss2_Sys_NV_ReadPublic,
    NV_SetBits |-> Tss2_Sys_NV_SetBits,
    NV_UndefineSpace |-> Tss2_Sys_NV_UndefineSpace,
    NV_UndefineSpaceSpecial |-> Tss2_Sys_NV_UndefineSpaceSpecial,
    NV_Write |-> Tss2_Sys_NV_Write,
    NV_WriteLock |-> Tss2_Sys_NV_WriteLock,
    ObjectChangeAuth |-> Tss2_Sys_ObjectChangeAuth,
    PCR_Allocate |-> Tss2_Sys_PCR_Allocate,
    PCR_Event |-> Tss2_Sys_PCR_Event,
    PCR_Extend |-> Tss2_Sys_PCR_Extend,
    PCR_Read |-> Tss2_Sys_PCR_Read,
    PCR_Reset |-> Tss2_Sys_PCR_Reset,
    PCR_SetAuthPolicy |-> Tss2_Sys_PCR_SetAuthPolicy,
    PCR_SetAuthValue |-> Tss2_Sys_PCR_SetAuthValue,
    PP_Commands |-> Tss2_Sys_PP_Commands,
    PolicyAuthValue |-> Tss2_Sys_PolicyAuthValue,
    PolicyAuthorize |-> Tss2_Sys_PolicyAuthorize,
    PolicyAuthorizeNV |-> Tss2_Sys_PolicyAuthorizeNV,
    PolicyCommandCode |-> Tss2_Sys_PolicyCommandCode,
    PolicyCounterTimer |-> Tss2_Sys_PolicyCounterTimer,
    PolicyCpHash |-> Tss2_Sys_PolicyCpHash,
    PolicyDuplicationSelect |-> Tss2_Sys_PolicyDuplicationSelect,
    PolicyGetDigest |-> Tss2_Sys_PolicyGetDigest,
    PolicyLocality |-> Tss2_Sys_PolicyLocality,
    PolicyNV |-> Tss2_Sys_PolicyNV,
    PolicyNameHash |-> Tss2_Sys_PolicyNameHash,
    PolicyNvWritten |-> Tss2_Sys_PolicyNvWritten,
    PolicyOR |-> Tss2_Sys_PolicyOR,
    PolicyPCR |-> Tss2_Sys_PolicyPCR,
    PolicyPassword |-> Tss2_Sys_PolicyPassword,
    PolicyPhysicalPresence |-> Tss2_Sys_PolicyPhysicalPresence,
    PolicyRestart |-> Tss2_Sys_PolicyRestart,
    PolicySecret |-> Tss2_Sys_PolicySecret,
    PolicySigned |-> Tss2_Sys_PolicySigned,
    PolicyTemplate |-> Tss2_Sys_PolicyTemplate,
    PolicyTicket |-> Tss2_Sys_PolicyTicket,
    Policy_AC_SendSelect |-> Tss2_Sys_Policy_AC_SendSelect,
    Quote |-> Tss2_Sys_Quote,
    RSA_Decrypt |-> Tss2_Sys_RSA_Decrypt,
    RSA_Encrypt |-> Tss2_Sys_RSA_Encrypt,
    ReadClock |-> Tss2_Sys_ReadClock,
    ReadPublic |-> Tss2_Sys_ReadPublic,
    Rewrap |-> Tss2_Sys_Rewrap,
    SelfTest |-> Tss2_Sys_SelfTest,
    SequenceComplete |-> Tss2_Sys_SequenceComplete,
    SequenceUpdate |-> Tss2_Sys_SequenceUpdate,
    SetAlgorithmSet |-> Tss2_Sys_SetAlgorithmSet,
    SetCommandCodeAuditStatus |-> Tss2_Sys_SetCommandCodeAuditStatus,
    SetPrimaryPolicy |-> Tss2_Sys_SetPrimaryPolicy,
    Shutdown |-> Tss2_Sys_Shutdown,
    Sign |-> Tss2_Sys_Sign,
    SignDigest |-> Tss2_Sys_SignDigest,
    SignSequenceComplete |-> Tss2_Sys_SignSequenceComplete,
    SignSequenceStart |-> Tss2_Sys_SignSequenceStart,
    StartAuthSession |-> Tss2_Sys_StartAuthSession,
    Startup |-> Tss2_Sys_Startup,
    StirRandom |-> Tss2_Sys_StirRandom,
    TestParms |-> Tss2_Sys_TestParms,
    Unseal |-> Tss2_Sys_Unseal,
    Vendor_TCG_Test |-> Tss2_Sys_Vendor_TCG_Test,
    VerifyDigestSignature |-> Tss2_Sys_VerifyDigestSignature,
    VerifySequenceComplete |-> Tss2_Sys_VerifySequenceComplete,
    VerifySequenceStart |-> Tss2_Sys_VerifySequenceStart,
    VerifySignature |-> Tss2_Sys_VerifySignature,
    ZGen_2Phase |-> Tss2_Sys_ZGen_2Phase]

=============================================================================
