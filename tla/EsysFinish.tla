----------------------------- MODULE EsysFinish -----------------------------
(***************************************************************************)
(* What each Esys_X_Finish (src/tss2-esys/api) acquires before it fetches  *)
(* the response, does with it, and releases when it fails.                 *)
(***************************************************************************)
EXTENDS Integers, Sequences, FiniteSets

\* A step of Esys_X_Finish on p.  fail: on an error the function jumps to its
\* error_cleanup, returns at once, or returns with the state INIT.
Step(op, p, fail) == [op |-> op, at |-> p, fail |-> fail]
Node(p) == Step("node", p, "return")   \* a new ESYS_TR
Out(p) == Step("out", p, "return")     \* an output that must not be NULL
Buf(p) == Step("buf", p, "cleanup")    \* memory for an output, if it is wanted
BufR(p) == Step("buf", p, "return")
Loc(p) == Step("local", p, "cleanup")  \* memory of the function, given away at the end
LocR(p) == Step("local", p, "return")
Execute == Step("execute", "response", "cleanup")  \* Tss2_Sys_ExecuteFinish
Check == Step("check", "response", "cleanup")      \* iesys_check_response
Complete == Step("complete", "response", "cleanup")
Convert == Step("convert", "context", "cleanup")   \* a context to or from its blob
Compare == Step("compare", "name", "cleanup")      \* iesys_compare_name
Derive == Step("derive", "sessionKey", "return")   \* the session key
Lookup(p, fail) == Step("lookup", p, fail)
Rename(p, fail) == Step("rename", p, fail)
Close(p, fail) == Step("close", p, fail)           \* Esys_TR_Close
SetAuth(p) == Step("setauth", p, "return")
Replace(p, q) == Step("replace", <<p, q>>, "return")
Responds == <<Check, Complete>>

\* Esys_X_Finish.
\* nulls     outputs set to NULL first
\* steps     what is done, in this order
\* frees     what error_cleanup frees or closes
\* flushes   does error_cleanup flush the TPM object?
\* resubmits state when the command is resubmitted
\* tolerates is TPM2_RC_INITIALIZE a success?
Finish(acquires, after, frees) ==
    [nulls |-> {}, steps |-> acquires \o <<Execute>> \o after, frees |-> frees, flushes |-> FALSE,
     resubmits |-> "RESUBMISSION", tolerates |-> FALSE]

\* The usual one: memory for the outputs, the first of which is allocated
\* before there is anything to clean up.
Gives(ps) ==
    Finish([i \in DOMAIN ps |-> IF i = 1 THEN BufR(ps[i]) ELSE Buf(ps[i])], Responds,
           {ps[i] : i \in DOMAIN ps})

-----------------------------------------------------------------------------

Esys_ACT_SetTimeout_Finish == Gives(<<>>)
Esys_AC_GetCapability_Finish == Gives(<<"capabilityData">>)
Esys_AC_Send_Finish == Gives(<<"acDataOut">>)
Esys_ActivateCredential_Finish == Gives(<<"certInfo">>)
\* A bug: one of the buffers is forgotten.
CertifyForgets == Finish(<<BufR("certifyInfo"), Buf("signature")>>, Responds, {"signature"})
Esys_Certify_Finish == Gives(<<"certifyInfo", "signature">>)
Esys_CertifyCreation_Finish == Gives(<<"certifyInfo", "signature">>)
Esys_CertifyX509_Finish == Gives(<<"addedToCertificate", "tbsDigest", "signature">>)
Esys_ChangeEPS_Finish == Gives(<<>>)
Esys_ChangePPS_Finish == Gives(<<>>)
Esys_Clear_Finish == Gives(<<>>)
Esys_ClearControl_Finish == Gives(<<>>)
Esys_ClockRateAdjust_Finish == Gives(<<>>)
Esys_ClockSet_Finish == Gives(<<>>)
Esys_Commit_Finish == [Gives(<<"K", "L", "E">>) EXCEPT !.nulls = {"E"}]
Esys_ContextLoad_Finish == Finish(<<Node("loadedHandle"), Convert>>, <<Complete>>, {"loadedHandle"})
\* Of a session; the ESYS_TR of another object stays, as the object does in the TPM.
Esys_ContextSave_Finish ==
    Finish(<<LocR("context")>>,
        <<Complete, Lookup("saveHandle", "cleanup"), Convert, Close("saveHandle", "cleanup")>>, {"context"})
\* A bug: the outputs are not set to NULL first.
CreateUnset == Gives(<<"outPrivate", "outPublic", "creationData", "creationHash", "creationTicket">>)
Esys_Create_Finish ==
    [Gives(<<"outPrivate", "outPublic", "creationData", "creationHash",
        "creationTicket">>) EXCEPT !.nulls = {"creationData", "creationHash", "creationTicket"}]
Esys_CreateLoaded_Finish ==
    Finish(<<Node("objectHandle"), Buf("outPrivate"), Loc("outPublic")>>,
        <<Check, Complete, Compare, SetAuth("objectHandle")>>, {"objectHandle", "outPrivate", "outPublic"})
Esys_CreatePrimary_Finish ==
    [Finish(<<Node("objectHandle"), Loc("outPublic"), Buf("creationData"), Buf("creationHash"),
              Buf("creationTicket")>>,
            <<Check, Complete, Compare, SetAuth("objectHandle")>>,
            {"objectHandle", "outPublic", "creationData", "creationHash", "creationTicket"})
        EXCEPT !.nulls = {"creationHash", "creationTicket"}]
Esys_Decapsulate_Finish == Gives(<<"outSymSeed">>)
Esys_DictionaryAttackLockReset_Finish == Gives(<<>>)
Esys_DictionaryAttackParameters_Finish == Gives(<<>>)
Esys_Duplicate_Finish ==
    [Gives(<<"encryptionKeyOut", "duplicate", "outSymSeed">>) EXCEPT !.nulls = {"outSymSeed"}]
Esys_ECC_Decrypt_Finish == Gives(<<"plainText">>)
Esys_ECC_Encrypt_Finish ==
    Finish(<<BufR("c1"), BufR("c2"), BufR("c3")>>, Responds, {"c1", "c2", "c3"})
Esys_ECC_Parameters_Finish == Gives(<<"parameters">>)
Esys_ECDH_KeyGen_Finish == Gives(<<"zPoint", "pubPoint">>)
Esys_ECDH_ZGen_Finish == Gives(<<"outPoint">>)
Esys_EC_Ephemeral_Finish == Gives(<<"Q">>)
Esys_Encapsulate_Finish == Gives(<<"outSymSeed", "cipherText">>)
Esys_EncryptDecrypt_Finish == Gives(<<"outData", "ivOut">>)
Esys_EncryptDecrypt2_Finish == Gives(<<"outData", "ivOut">>)
Esys_EventSequenceComplete_Finish == Gives(<<"results">>)
Esys_EvictControl_Finish ==
    Finish(<<Out("newObjectHandle")>>,
        <<Check, Complete, Lookup("objectHandle", "cleanup"), Replace("objectHandle", "newObjectHandle")>>,
        {"newObjectHandle"})
Esys_FieldUpgradeData_Finish == Gives(<<"nextDigest", "firstDigest">>)
Esys_FieldUpgradeStart_Finish == Gives(<<>>)
Esys_FirmwareRead_Finish == Gives(<<"fuData">>)
Esys_FlushContext_Finish ==
    Finish(<<>>, <<Complete, Lookup("flushHandle", "init"), Close("flushHandle", "return")>>, {})
Esys_GetCapability_Finish == Gives(<<"capabilityData">>)
Esys_GetCommandAuditDigest_Finish == Gives(<<"auditInfo", "signature">>)
Esys_GetRandom_Finish == Gives(<<"randomBytes">>)
Esys_GetSessionAuditDigest_Finish == Gives(<<"auditInfo", "signature">>)
Esys_GetTestResult_Finish == Gives(<<"outData">>)
Esys_GetTime_Finish == Gives(<<"timeInfo", "signature">>)
Esys_HMAC_Finish == Gives(<<"outHMAC">>)
Esys_HMAC_Start_Finish ==
    Finish(<<Node("sequenceHandle")>>, <<Check, Complete, SetAuth("sequenceHandle")>>,
        {"sequenceHandle"})
Esys_Hash_Finish == Gives(<<"outHash", "validation">>)
Esys_HashSequenceStart_Finish == Finish(<<Node("sequenceHandle")>>, Responds, {"sequenceHandle"})
\* A bug: the authorization value is changed before the response is there.
HierarchyChangeAuthEarly == Finish(<<SetAuth("authHandle")>>, Responds, {})
Esys_HierarchyChangeAuth_Finish ==
    Finish(<<>>, <<Lookup("authHandle", "return"), SetAuth("authHandle"), Check, Complete>>, {})
Esys_HierarchyControl_Finish == Gives(<<>>)
Esys_Import_Finish == Gives(<<"outPrivate">>)
Esys_IncrementalSelfTest_Finish == Gives(<<"toDoList">>)
Esys_Load_Finish == Finish(<<Node("objectHandle")>>, <<Check, Complete, Compare>>, {"objectHandle"})
Esys_LoadExternal_Finish ==
    Finish(<<Node("objectHandle")>>, <<Check, Complete, Compare>>, {"objectHandle"})
Esys_MAC_Finish == Gives(<<"outMAC">>)
Esys_MAC_Start_Finish ==
    Finish(<<Node("sequenceHandle")>>, <<Check, Complete, SetAuth("sequenceHandle")>>,
        {"sequenceHandle"})
Esys_MakeCredential_Finish == Gives(<<"credentialBlob", "secret">>)
Esys_NV_Certify_Finish == Gives(<<"certifyInfo", "signature">>)
Esys_NV_ChangeAuth_Finish ==
    Finish(<<>>, <<Lookup("nvIndex", "return"), SetAuth("nvIndex"), Check, Complete>>, {})
Esys_NV_DefineSpace_Finish ==
    Finish(<<Node("nvHandle")>>,
        <<Check, Complete, Rename("nvHandle", "cleanup"), SetAuth("nvHandle")>>, {"nvHandle"})
Esys_NV_Extend_Finish ==
    Finish(<<>>, <<Check, Complete, Lookup("nvIndex", "return"), Rename("nvIndex", "return")>>, {})
Esys_NV_GlobalWriteLock_Finish == Gives(<<>>)
Esys_NV_Increment_Finish ==
    Finish(<<>>, <<Check, Complete, Lookup("nvIndex", "return"), Rename("nvIndex", "return")>>, {})
Esys_NV_Read_Finish == Gives(<<"data">>)
Esys_NV_ReadLock_Finish ==
    Finish(<<>>, <<Check, Complete, Lookup("nvIndex", "return"), Rename("nvIndex", "return")>>, {})
Esys_NV_ReadPublic_Finish ==
    Finish(<<LocR("nvPublic"), Loc("nvName")>>, <<Check, Complete, Lookup("nvIndex", "cleanup")>>,
        {"nvPublic", "nvName"})
Esys_NV_SetBits_Finish ==
    Finish(<<>>, <<Check, Complete, Lookup("nvIndex", "return"), Rename("nvIndex", "return")>>, {})
\* A bug: the object stays open.
NV_UndefineSpaceOpen == Finish(<<>>, Responds, {})
Esys_NV_UndefineSpace_Finish == Finish(<<>>, <<Check, Complete, Close("nvIndex", "return")>>, {})
Esys_NV_UndefineSpaceSpecial_Finish ==
    Finish(<<>>,
        <<Lookup("nvIndex", "return"), Lookup("session", "return"), Close("nvIndex", "return"), Check, Complete>>,
        {})
Esys_NV_Write_Finish ==
    Finish(<<>>, <<Check, Complete, Lookup("nvIndex", "return"), Rename("nvIndex", "return")>>, {})
Esys_NV_WriteLock_Finish ==
    Finish(<<>>, <<Check, Complete, Lookup("nvIndex", "return"), Rename("nvIndex", "return")>>, {})
Esys_ObjectChangeAuth_Finish == Gives(<<"outPrivate">>)
Esys_PCR_Allocate_Finish == Gives(<<>>)
Esys_PCR_Event_Finish == Gives(<<"digests">>)
Esys_PCR_Extend_Finish == Gives(<<>>)
Esys_PCR_Read_Finish == Gives(<<"pcrSelectionOut", "pcrValues">>)
Esys_PCR_Reset_Finish == Gives(<<>>)
Esys_PCR_SetAuthPolicy_Finish == Gives(<<>>)
Esys_PCR_SetAuthValue_Finish ==
    Finish(<<>>, <<Lookup("pcrHandle", "return"), SetAuth("pcrHandle"), Check, Complete>>, {})
Esys_PP_Commands_Finish == Gives(<<>>)
Esys_PolicyAuthValue_Finish ==
    Finish(<<>>, <<Check, Complete, Lookup("policySession", "return")>>, {})
Esys_PolicyAuthorize_Finish == Gives(<<>>)
Esys_PolicyAuthorizeNV_Finish == Gives(<<>>)
Esys_PolicyCommandCode_Finish == Gives(<<>>)
Esys_PolicyCounterTimer_Finish == Gives(<<>>)
Esys_PolicyCpHash_Finish == Gives(<<>>)
Esys_PolicyDuplicationSelect_Finish == Gives(<<>>)
Esys_PolicyGetDigest_Finish == Gives(<<"policyDigest">>)
Esys_PolicyLocality_Finish == Gives(<<>>)
Esys_PolicyNV_Finish == Gives(<<>>)
Esys_PolicyNameHash_Finish == Gives(<<>>)
Esys_PolicyNvWritten_Finish == Gives(<<>>)
Esys_PolicyOR_Finish == Gives(<<>>)
Esys_PolicyPCR_Finish == Gives(<<>>)
Esys_PolicyPassword_Finish ==
    Finish(<<>>, <<Check, Complete, Lookup("policySession", "return")>>, {})
Esys_PolicyPhysicalPresence_Finish == Gives(<<>>)
Esys_PolicyRestart_Finish == Gives(<<>>)
Esys_PolicySecret_Finish == Gives(<<"timeout", "policyTicket">>)
Esys_PolicySigned_Finish == Gives(<<"timeout", "policyTicket">>)
Esys_PolicyTemplate_Finish == Gives(<<>>)
Esys_PolicyTicket_Finish == Gives(<<>>)
Esys_Policy_AC_SendSelect_Finish == Gives(<<>>)
Esys_Quote_Finish == Gives(<<"quoted", "signature">>)
Esys_RSA_Decrypt_Finish == Gives(<<"message">>)
Esys_RSA_Encrypt_Finish == Gives(<<"outData">>)
Esys_ReadClock_Finish == Gives(<<"currentTime">>)
Esys_ReadPublic_Finish ==
    [Gives(<<"outPublic", "name", "qualifiedName">>) EXCEPT !.nulls = {"qualifiedName"}]
Esys_Rewrap_Finish == Gives(<<"outDuplicate", "outSymSeed">>)
Esys_SelfTest_Finish == Gives(<<>>)
Esys_SequenceComplete_Finish ==
    Finish(<<BufR("result"), Buf("validation")>>,
        <<Check, Complete, Close("sequenceHandle", "cleanup")>>, {"result", "validation"})
Esys_SequenceUpdate_Finish == Gives(<<>>)
Esys_SetAlgorithmSet_Finish == Gives(<<>>)
Esys_SetCommandCodeAuditStatus_Finish == Gives(<<>>)
Esys_SetPrimaryPolicy_Finish == Gives(<<>>)
Esys_Shutdown_Finish == Gives(<<>>)
Esys_Sign_Finish == Gives(<<"signature">>)
Esys_SignDigest_Finish == Gives(<<"signature">>)
Esys_SignSequenceComplete_Finish == Gives(<<"signature">>)
Esys_SignSequenceStart_Finish == Finish(<<Node("sequenceHandle")>>, Responds, {"sequenceHandle"})
Esys_StartAuthSession_Finish ==
    [Finish(<<Node("sessionHandle")>>,
            <<Check, Complete, Lookup("bind", "cleanup"), Lookup("tpmKey", "cleanup"), Derive,
              Rename("sessionHandle", "cleanup")>>, {"sessionHandle"})
        EXCEPT !.flushes = TRUE]
Esys_Startup_Finish ==
    [Finish(<<>>, <<Complete>>, {}) EXCEPT !.resubmits = "SENT", !.tolerates = TRUE]
Esys_StirRandom_Finish == Gives(<<>>)
Esys_TestParms_Finish == Gives(<<>>)
Esys_Unseal_Finish == Gives(<<"outData">>)
Esys_Vendor_TCG_Test_Finish == Gives(<<"outputData">>)
Esys_VerifyDigestSignature_Finish == Gives(<<"validation">>)
Esys_VerifySequenceComplete_Finish == Gives(<<"validation">>)
Esys_VerifySequenceStart_Finish == Finish(<<Node("sequenceHandle")>>, Responds, {"sequenceHandle"})
Esys_VerifySignature_Finish == Gives(<<"validation">>)
Esys_ZGen_2Phase_Finish == Gives(<<"outZ1", "outZ2">>)

=============================================================================
