-------------------------- MODULE EsysCommandTable --------------------------
(***************************************************************************)
(* The commands of the ESAPI (src/tss2-esys/api): what Esys_X_Async puts   *)
(* into the pattern that CommandStack executes, the objects it looks up    *)
(* and the checks it makes, and Esys_X, which calls Esys_X_Async and then  *)
(* Esys_X_Finish until it does not return TRY_AGAIN.                       *)
(***************************************************************************)
EXTENDS EsysFinish

\* Esys_X_Async.
\* auths     sessions that check_session_feasibility demands
\* objects   ESYS_TRs looked up, in the order of the command's handles
\* named     those given to iesys_gen_auths, whose names enter the cpHash
\* bound     objects whose authorization value goes into the HMAC of session 1, 2
\* sessions  does the command take sessions?
\* keeps     are inputs stored for Esys_X_Finish?
\* nullnamed is ESYS_TR_NONE hashed as TPM2_RH_NULL?
\* early     inputs that are checked before the state of the context
\* latches   inputs for which an error is returned without resetting the state
\* rejects   inputs with a check of their own
\* derefs    inputs that are used although they may be NULL
Async(auths, objects, bound) ==
    [auths |-> auths, objects |-> objects, named |-> objects, bound |-> bound, sessions |-> TRUE,
     keeps |-> FALSE, nullnamed |-> FALSE, early |-> {}, latches |-> {}, rejects |-> {}, derefs |-> {}]
Sessionless(objects) == [Async(0, objects, <<>>) EXCEPT !.sessions = FALSE, !.named = <<>>]
Unnamed(a) == [a EXCEPT !.named = <<>>]
NullNamed(a) == [a EXCEPT !.nullnamed = TRUE]
Keeping(a) == [a EXCEPT !.keeps = TRUE]
CheckingFirst(a, ps) == [a EXCEPT !.early = ps]
Latching(a, ps) == [a EXCEPT !.latches = ps]
Rejecting(a, ps) == [a EXCEPT !.rejects = ps]
Dereferencing(a, ps) == [a EXCEPT !.derefs = ps]

\* Esys_X.
Command(async, finish) == [async |-> async, finish |-> finish]

-----------------------------------------------------------------------------

Esys_ACT_SetTimeout ==
    Command(Async(1, <<"actHandle">>, <<"actHandle">>), Esys_ACT_SetTimeout_Finish)
Esys_AC_GetCapability ==
    Command(Latching(Async(0, <<>>, <<>>), {"ac"}), Esys_AC_GetCapability_Finish)
Esys_AC_Send ==
    Command(Dereferencing(Latching(Unnamed(Async(0, <<"sendObject", "authHandle", "ac">>, <<>>)),
        {"sendObject", "authHandle", "ac"}), {"sendObject", "authHandle", "ac"}),
        Esys_AC_Send_Finish)
\* A bug: the authorization values of the two objects are exchanged.
ActivateCredentialExchanged ==
    Command(Async(1, <<"activateHandle", "keyHandle">>, <<"keyHandle", "activateHandle">>),
        Esys_ActivateCredential_Finish)
Esys_ActivateCredential ==
    Command(Async(1, <<"activateHandle", "keyHandle">>, <<"activateHandle", "keyHandle">>),
        Esys_ActivateCredential_Finish)
\* A bug: the object is used without a check.
CertifyUnchecked ==
    Command(Dereferencing(Async(1, <<"objectHandle", "signHandle">>, <<"objectHandle",
        "signHandle">>), {"signHandle"}), Esys_Certify_Finish)
Esys_Certify ==
    Command(Async(1, <<"objectHandle", "signHandle">>, <<"objectHandle", "signHandle">>),
        Esys_Certify_Finish)
Esys_CertifyCreation ==
    Command(Async(1, <<"signHandle", "objectHandle">>, <<"signHandle">>),
        Esys_CertifyCreation_Finish)
Esys_CertifyX509 ==
    Command(Async(1, <<"objectHandle", "signHandle">>, <<"objectHandle", "signHandle">>),
        Esys_CertifyX509_Finish)
Esys_ChangeEPS == Command(Async(1, <<"authHandle">>, <<"authHandle">>), Esys_ChangeEPS_Finish)
Esys_ChangePPS == Command(Async(1, <<"authHandle">>, <<"authHandle">>), Esys_ChangePPS_Finish)
Esys_Clear == Command(Async(1, <<"authHandle">>, <<"authHandle">>), Esys_Clear_Finish)
Esys_ClearControl == Command(Async(1, <<"auth">>, <<"auth">>), Esys_ClearControl_Finish)
Esys_ClockRateAdjust == Command(Async(1, <<"auth">>, <<"auth">>), Esys_ClockRateAdjust_Finish)
Esys_ClockSet == Command(Async(1, <<"auth">>, <<"auth">>), Esys_ClockSet_Finish)
Esys_Commit == Command(Async(1, <<"signHandle">>, <<"signHandle">>), Esys_Commit_Finish)
Esys_ContextLoad ==
    Command(Latching(Keeping(Sessionless(<<>>)), {"context"}), Esys_ContextLoad_Finish)
Esys_ContextSave == Command(Keeping(Sessionless(<<"saveHandle">>)), Esys_ContextSave_Finish)
Esys_Create ==
    Command(Dereferencing(Keeping(Async(1, <<"parentHandle">>, <<"parentHandle">>)),
        {"inSensitive"}), Esys_Create_Finish)
Esys_CreateLoaded ==
    Command(Latching(Dereferencing(Keeping(Async(1, <<"parentHandle">>, <<"parentHandle">>)),
        {"inSensitive"}), {"template"}), Esys_CreateLoaded_Finish)
Esys_CreatePrimary ==
    Command(Dereferencing(Keeping(Async(1, <<"primaryHandle">>, <<"primaryHandle">>)),
        {"inSensitive"}), Esys_CreatePrimary_Finish)
Esys_Decapsulate == Command(Async(0, <<"keyHandle">>, <<>>), Esys_Decapsulate_Finish)
Esys_DictionaryAttackLockReset ==
    Command(Async(1, <<"lockHandle">>, <<"lockHandle">>), Esys_DictionaryAttackLockReset_Finish)
Esys_DictionaryAttackParameters ==
    Command(Async(1, <<"lockHandle">>, <<"lockHandle">>), Esys_DictionaryAttackParameters_Finish)
Esys_Duplicate ==
    Command(Async(1, <<"objectHandle", "newParentHandle">>, <<"objectHandle">>),
        Esys_Duplicate_Finish)
Esys_ECC_Decrypt == Command(Async(1, <<"keyHandle">>, <<"keyHandle">>), Esys_ECC_Decrypt_Finish)
Esys_ECC_Encrypt == Command(Async(0, <<"keyHandle">>, <<>>), Esys_ECC_Encrypt_Finish)
Esys_ECC_Parameters == Command(Async(0, <<>>, <<>>), Esys_ECC_Parameters_Finish)
Esys_ECDH_KeyGen == Command(Async(0, <<"keyHandle">>, <<>>), Esys_ECDH_KeyGen_Finish)
Esys_ECDH_ZGen == Command(Async(1, <<"keyHandle">>, <<"keyHandle">>), Esys_ECDH_ZGen_Finish)
Esys_EC_Ephemeral == Command(Async(0, <<>>, <<>>), Esys_EC_Ephemeral_Finish)
Esys_Encapsulate == Command(Async(0, <<"keyHandle">>, <<>>), Esys_Encapsulate_Finish)
Esys_EncryptDecrypt ==
    Command(Async(1, <<"keyHandle">>, <<"keyHandle">>), Esys_EncryptDecrypt_Finish)
Esys_EncryptDecrypt2 ==
    Command(Async(1, <<"keyHandle">>, <<"keyHandle">>), Esys_EncryptDecrypt2_Finish)
Esys_EventSequenceComplete ==
    Command(Async(1, <<"pcrHandle", "sequenceHandle">>, <<"pcrHandle", "sequenceHandle">>),
        Esys_EventSequenceComplete_Finish)
Esys_EvictControl ==
    Command(Keeping(Async(1, <<"auth", "objectHandle">>, <<"auth">>)), Esys_EvictControl_Finish)
Esys_FieldUpgradeData == Command(Async(0, <<>>, <<>>), Esys_FieldUpgradeData_Finish)
Esys_FieldUpgradeStart ==
    Command(Async(1, <<"authorization", "keyHandle">>, <<"authorization">>),
        Esys_FieldUpgradeStart_Finish)
Esys_FirmwareRead == Command(Async(0, <<>>, <<>>), Esys_FirmwareRead_Finish)
Esys_FlushContext == Command(Keeping(Sessionless(<<"flushHandle">>)), Esys_FlushContext_Finish)
Esys_GetCapability == Command(Async(0, <<>>, <<>>), Esys_GetCapability_Finish)
Esys_GetCommandAuditDigest ==
    Command(Dereferencing(Async(1, <<"privacyHandle", "signHandle">>, <<"privacyHandle",
        "signHandle">>), {"signHandle"}), Esys_GetCommandAuditDigest_Finish)
Esys_GetRandom == Command(Async(0, <<>>, <<>>), Esys_GetRandom_Finish)
Esys_GetSessionAuditDigest ==
    Command(Dereferencing(Async(1, <<"privacyAdminHandle", "signHandle", "sessionHandle">>,
        <<"privacyAdminHandle", "signHandle">>), {"signHandle"}),
        Esys_GetSessionAuditDigest_Finish)
Esys_GetTestResult == Command(Async(0, <<>>, <<>>), Esys_GetTestResult_Finish)
Esys_GetTime ==
    Command(Dereferencing(Async(1, <<"privacyAdminHandle", "signHandle">>, <<"privacyAdminHandle",
        "signHandle">>), {"signHandle"}), Esys_GetTime_Finish)
Esys_HMAC == Command(Async(1, <<"handle">>, <<"handle">>), Esys_HMAC_Finish)
Esys_HMAC_Start == Command(Keeping(Async(1, <<"handle">>, <<"handle">>)), Esys_HMAC_Start_Finish)
Esys_Hash == Command(CheckingFirst(Async(0, <<>>, <<>>), {"hierarchy"}), Esys_Hash_Finish)
Esys_HashSequenceStart == Command(Async(0, <<>>, <<>>), Esys_HashSequenceStart_Finish)
Esys_HierarchyChangeAuth ==
    Command(Keeping(Async(1, <<"authHandle">>, <<"authHandle">>)), Esys_HierarchyChangeAuth_Finish)
Esys_HierarchyControl ==
    Command(CheckingFirst(Async(1, <<"authHandle">>, <<"authHandle">>), {"enable"}),
        Esys_HierarchyControl_Finish)
Esys_Import == Command(Async(1, <<"parentHandle">>, <<"parentHandle">>), Esys_Import_Finish)
Esys_IncrementalSelfTest == Command(Async(0, <<>>, <<>>), Esys_IncrementalSelfTest_Finish)
\* A bug: the public area is not stored.
LoadUnstored == Command(Async(1, <<"parentHandle">>, <<"parentHandle">>), Esys_Load_Finish)
Esys_Load == Command(Keeping(Async(1, <<"parentHandle">>, <<"parentHandle">>)), Esys_Load_Finish)
Esys_LoadExternal ==
    Command(CheckingFirst(Keeping(Async(0, <<>>, <<>>)), {"hierarchy"}), Esys_LoadExternal_Finish)
Esys_MAC == Command(Async(1, <<"handle">>, <<"handle">>), Esys_MAC_Finish)
Esys_MAC_Start == Command(Keeping(Async(1, <<"handle">>, <<"handle">>)), Esys_MAC_Start_Finish)
Esys_MakeCredential == Command(Async(0, <<"handle">>, <<>>), Esys_MakeCredential_Finish)
Esys_NV_Certify ==
    Command(Async(1, <<"signHandle", "authHandle", "nvIndex">>, <<"signHandle", "authHandle">>),
        Esys_NV_Certify_Finish)
Esys_NV_ChangeAuth ==
    Command(Rejecting(Keeping(Async(1, <<"nvIndex">>, <<"nvIndex">>)), {"nvIndex", "newAuth"}),
        Esys_NV_ChangeAuth_Finish)
Esys_NV_DefineSpace ==
    Command(Rejecting(Keeping(Async(1, <<"authHandle">>, <<"authHandle">>)), {"publicInfo",
        "auth"}), Esys_NV_DefineSpace_Finish)
Esys_NV_Extend ==
    Command(Keeping(Async(1, <<"authHandle", "nvIndex">>, <<"authHandle">>)),
        Esys_NV_Extend_Finish)
Esys_NV_GlobalWriteLock ==
    Command(Async(1, <<"authHandle">>, <<"authHandle">>), Esys_NV_GlobalWriteLock_Finish)
Esys_NV_Increment ==
    Command(Keeping(Async(1, <<"authHandle", "nvIndex">>, <<"authHandle">>)),
        Esys_NV_Increment_Finish)
Esys_NV_Read ==
    Command(Async(1, <<"authHandle", "nvIndex">>, <<"authHandle">>), Esys_NV_Read_Finish)
Esys_NV_ReadLock ==
    Command(Keeping(Async(1, <<"authHandle", "nvIndex">>, <<"authHandle">>)),
        Esys_NV_ReadLock_Finish)
Esys_NV_ReadPublic == Command(Keeping(Async(0, <<"nvIndex">>, <<>>)), Esys_NV_ReadPublic_Finish)
Esys_NV_SetBits ==
    Command(Keeping(Async(1, <<"authHandle", "nvIndex">>, <<"authHandle">>)),
        Esys_NV_SetBits_Finish)
Esys_NV_UndefineSpace ==
    Command(Keeping(Async(1, <<"authHandle", "nvIndex">>, <<"authHandle">>)),
        Esys_NV_UndefineSpace_Finish)
Esys_NV_UndefineSpaceSpecial ==
    Command(Keeping(Async(1, <<"nvIndex", "platform">>, <<"nvIndex", "platform">>)),
        Esys_NV_UndefineSpaceSpecial_Finish)
\* A bug: the objects are exchanged.
NV_WriteExchanged ==
    Command(Async(1, <<"nvIndex", "authHandle">>, <<"authHandle">>), Esys_NV_Write_Finish)
Esys_NV_Write ==
    Command(Keeping(Async(1, <<"authHandle", "nvIndex">>, <<"authHandle">>)), Esys_NV_Write_Finish)
Esys_NV_WriteLock ==
    Command(Keeping(Async(1, <<"authHandle", "nvIndex">>, <<"authHandle">>)),
        Esys_NV_WriteLock_Finish)
Esys_ObjectChangeAuth ==
    Command(Rejecting(Async(1, <<"objectHandle", "parentHandle">>, <<"objectHandle">>),
        {"objectHandle", "newAuth"}), Esys_ObjectChangeAuth_Finish)
Esys_PCR_Allocate ==
    Command(Async(1, <<"authHandle">>, <<"authHandle">>), Esys_PCR_Allocate_Finish)
Esys_PCR_Event == Command(Async(1, <<"pcrHandle">>, <<"pcrHandle">>), Esys_PCR_Event_Finish)
Esys_PCR_Extend == Command(Async(1, <<"pcrHandle">>, <<"pcrHandle">>), Esys_PCR_Extend_Finish)
Esys_PCR_Read == Command(Async(0, <<>>, <<>>), Esys_PCR_Read_Finish)
Esys_PCR_Reset == Command(Async(1, <<"pcrHandle">>, <<"pcrHandle">>), Esys_PCR_Reset_Finish)
Esys_PCR_SetAuthPolicy ==
    Command(Async(1, <<"authHandle">>, <<"authHandle">>), Esys_PCR_SetAuthPolicy_Finish)
Esys_PCR_SetAuthValue ==
    Command(Keeping(Async(1, <<"pcrHandle">>, <<"pcrHandle">>)), Esys_PCR_SetAuthValue_Finish)
Esys_PP_Commands == Command(Async(1, <<"auth">>, <<"auth">>), Esys_PP_Commands_Finish)
Esys_PolicyAuthValue ==
    Command(Keeping(Async(0, <<"policySession">>, <<>>)), Esys_PolicyAuthValue_Finish)
Esys_PolicyAuthorize == Command(Async(0, <<"policySession">>, <<>>), Esys_PolicyAuthorize_Finish)
Esys_PolicyAuthorizeNV ==
    Command(Async(1, <<"authHandle", "nvIndex", "policySession">>, <<"authHandle">>),
        Esys_PolicyAuthorizeNV_Finish)
Esys_PolicyCommandCode ==
    Command(Async(0, <<"policySession">>, <<>>), Esys_PolicyCommandCode_Finish)
Esys_PolicyCounterTimer ==
    Command(Async(0, <<"policySession">>, <<>>), Esys_PolicyCounterTimer_Finish)
Esys_PolicyCpHash == Command(Async(0, <<"policySession">>, <<>>), Esys_PolicyCpHash_Finish)
Esys_PolicyDuplicationSelect ==
    Command(Async(0, <<"policySession">>, <<>>), Esys_PolicyDuplicationSelect_Finish)
Esys_PolicyGetDigest == Command(Async(0, <<"policySession">>, <<>>), Esys_PolicyGetDigest_Finish)
Esys_PolicyLocality == Command(Async(0, <<"policySession">>, <<>>), Esys_PolicyLocality_Finish)
Esys_PolicyNV ==
    Command(Async(1, <<"authHandle", "nvIndex", "policySession">>, <<"authHandle">>),
        Esys_PolicyNV_Finish)
Esys_PolicyNameHash == Command(Async(0, <<"policySession">>, <<>>), Esys_PolicyNameHash_Finish)
Esys_PolicyNvWritten == Command(Async(0, <<"policySession">>, <<>>), Esys_PolicyNvWritten_Finish)
Esys_PolicyOR == Command(Async(0, <<"policySession">>, <<>>), Esys_PolicyOR_Finish)
Esys_PolicyPCR == Command(Async(0, <<"policySession">>, <<>>), Esys_PolicyPCR_Finish)
Esys_PolicyPassword ==
    Command(Keeping(Async(0, <<"policySession">>, <<>>)), Esys_PolicyPassword_Finish)
Esys_PolicyPhysicalPresence ==
    Command(Async(0, <<"policySession">>, <<>>), Esys_PolicyPhysicalPresence_Finish)
Esys_PolicyRestart == Command(Async(0, <<"sessionHandle">>, <<>>), Esys_PolicyRestart_Finish)
Esys_PolicySecret ==
    Command(Async(1, <<"authHandle", "policySession">>, <<"authHandle">>),
        Esys_PolicySecret_Finish)
Esys_PolicySigned ==
    Command(Async(0, <<"authObject", "policySession">>, <<>>), Esys_PolicySigned_Finish)
Esys_PolicyTemplate == Command(Async(0, <<"policySession">>, <<>>), Esys_PolicyTemplate_Finish)
Esys_PolicyTicket == Command(Async(0, <<"policySession">>, <<>>), Esys_PolicyTicket_Finish)
Esys_Policy_AC_SendSelect ==
    Command(Async(0, <<"policySession">>, <<>>), Esys_Policy_AC_SendSelect_Finish)
Esys_Quote == Command(Async(1, <<"signHandle">>, <<"signHandle">>), Esys_Quote_Finish)
Esys_RSA_Decrypt == Command(Async(1, <<"keyHandle">>, <<"keyHandle">>), Esys_RSA_Decrypt_Finish)
Esys_RSA_Encrypt == Command(Async(0, <<"keyHandle">>, <<>>), Esys_RSA_Encrypt_Finish)
Esys_ReadClock == Command(Async(0, <<>>, <<>>), Esys_ReadClock_Finish)
Esys_ReadPublic == Command(Async(0, <<"objectHandle">>, <<>>), Esys_ReadPublic_Finish)
Esys_Rewrap == Command(Async(1, <<"oldParent", "newParent">>, <<"oldParent">>), Esys_Rewrap_Finish)
Esys_SelfTest == Command(Async(0, <<>>, <<>>), Esys_SelfTest_Finish)
Esys_SequenceComplete ==
    Command(CheckingFirst(Keeping(Async(1, <<"sequenceHandle">>, <<"sequenceHandle">>)),
        {"hierarchy"}), Esys_SequenceComplete_Finish)
Esys_SequenceUpdate ==
    Command(Async(1, <<"sequenceHandle">>, <<"sequenceHandle">>), Esys_SequenceUpdate_Finish)
Esys_SetAlgorithmSet ==
    Command(Async(1, <<"authHandle">>, <<"authHandle">>), Esys_SetAlgorithmSet_Finish)
Esys_SetCommandCodeAuditStatus ==
    Command(Async(1, <<"auth">>, <<"auth">>), Esys_SetCommandCodeAuditStatus_Finish)
Esys_SetPrimaryPolicy ==
    Command(Async(1, <<"authHandle">>, <<"authHandle">>), Esys_SetPrimaryPolicy_Finish)
Esys_Shutdown == Command(Async(0, <<>>, <<>>), Esys_Shutdown_Finish)
Esys_Sign == Command(Async(1, <<"keyHandle">>, <<"keyHandle">>), Esys_Sign_Finish)
Esys_SignDigest == Command(Async(0, <<"keyHandle">>, <<>>), Esys_SignDigest_Finish)
Esys_SignSequenceComplete ==
    Command(Async(0, <<"sequenceHandle">>, <<>>), Esys_SignSequenceComplete_Finish)
Esys_SignSequenceStart ==
    Command(Async(0, <<"keyHandle", "keyB">>, <<>>), Esys_SignSequenceStart_Finish)
Esys_StartAuthSession ==
    Command(Rejecting(NullNamed(Keeping(Async(0, <<"tpmKey", "bind">>, <<>>))), {"tpmKeyType",
        "nonceSize"}), Esys_StartAuthSession_Finish)
Esys_Startup == Command(Sessionless(<<>>), Esys_Startup_Finish)
Esys_StirRandom == Command(Async(0, <<>>, <<>>), Esys_StirRandom_Finish)
Esys_TestParms == Command(Async(0, <<>>, <<>>), Esys_TestParms_Finish)
Esys_Unseal == Command(Async(1, <<"itemHandle">>, <<"itemHandle">>), Esys_Unseal_Finish)
Esys_Vendor_TCG_Test == Command(Async(0, <<>>, <<>>), Esys_Vendor_TCG_Test_Finish)
Esys_VerifyDigestSignature ==
    Command(Async(0, <<"keyHandle">>, <<>>), Esys_VerifyDigestSignature_Finish)
Esys_VerifySequenceComplete ==
    Command(Async(0, <<"sequenceHandle">>, <<>>), Esys_VerifySequenceComplete_Finish)
Esys_VerifySequenceStart ==
    Command(Async(0, <<"keyHandle">>, <<>>), Esys_VerifySequenceStart_Finish)
Esys_VerifySignature == Command(Async(0, <<"keyHandle">>, <<>>), Esys_VerifySignature_Finish)
Esys_ZGen_2Phase == Command(Async(1, <<"keyA">>, <<"keyA">>), Esys_ZGen_2Phase_Finish)

\* The ESAPI commands by name.
EsysCommands == [
    ACT_SetTimeout |-> Esys_ACT_SetTimeout,
    AC_GetCapability |-> Esys_AC_GetCapability,
    AC_Send |-> Esys_AC_Send,
    ActivateCredential |-> Esys_ActivateCredential,
    Certify |-> Esys_Certify,
    CertifyCreation |-> Esys_CertifyCreation,
    CertifyX509 |-> Esys_CertifyX509,
    ChangeEPS |-> Esys_ChangeEPS,
    ChangePPS |-> Esys_ChangePPS,
    Clear |-> Esys_Clear,
    ClearControl |-> Esys_ClearControl,
    ClockRateAdjust |-> Esys_ClockRateAdjust,
    ClockSet |-> Esys_ClockSet,
    Commit |-> Esys_Commit,
    ContextLoad |-> Esys_ContextLoad,
    ContextSave |-> Esys_ContextSave,
    Create |-> Esys_Create,
    CreateLoaded |-> Esys_CreateLoaded,
    CreatePrimary |-> Esys_CreatePrimary,
    Decapsulate |-> Esys_Decapsulate,
    DictionaryAttackLockReset |-> Esys_DictionaryAttackLockReset,
    DictionaryAttackParameters |-> Esys_DictionaryAttackParameters,
    Duplicate |-> Esys_Duplicate,
    ECC_Decrypt |-> Esys_ECC_Decrypt,
    ECC_Encrypt |-> Esys_ECC_Encrypt,
    ECC_Parameters |-> Esys_ECC_Parameters,
    ECDH_KeyGen |-> Esys_ECDH_KeyGen,
    ECDH_ZGen |-> Esys_ECDH_ZGen,
    EC_Ephemeral |-> Esys_EC_Ephemeral,
    Encapsulate |-> Esys_Encapsulate,
    EncryptDecrypt |-> Esys_EncryptDecrypt,
    EncryptDecrypt2 |-> Esys_EncryptDecrypt2,
    EventSequenceComplete |-> Esys_EventSequenceComplete,
    EvictControl |-> Esys_EvictControl,
    FieldUpgradeData |-> Esys_FieldUpgradeData,
    FieldUpgradeStart |-> Esys_FieldUpgradeStart,
    FirmwareRead |-> Esys_FirmwareRead,
    FlushContext |-> Esys_FlushContext,
    GetCapability |-> Esys_GetCapability,
    GetCommandAuditDigest |-> Esys_GetCommandAuditDigest,
    GetRandom |-> Esys_GetRandom,
    GetSessionAuditDigest |-> Esys_GetSessionAuditDigest,
    GetTestResult |-> Esys_GetTestResult,
    GetTime |-> Esys_GetTime,
    HMAC |-> Esys_HMAC,
    HMAC_Start |-> Esys_HMAC_Start,
    Hash |-> Esys_Hash,
    HashSequenceStart |-> Esys_HashSequenceStart,
    HierarchyChangeAuth |-> Esys_HierarchyChangeAuth,
    HierarchyControl |-> Esys_HierarchyControl,
    Import |-> Esys_Import,
    IncrementalSelfTest |-> Esys_IncrementalSelfTest,
    Load |-> Esys_Load,
    LoadExternal |-> Esys_LoadExternal,
    MAC |-> Esys_MAC,
    MAC_Start |-> Esys_MAC_Start,
    MakeCredential |-> Esys_MakeCredential,
    NV_Certify |-> Esys_NV_Certify,
    NV_ChangeAuth |-> Esys_NV_ChangeAuth,
    NV_DefineSpace |-> Esys_NV_DefineSpace,
    NV_Extend |-> Esys_NV_Extend,
    NV_GlobalWriteLock |-> Esys_NV_GlobalWriteLock,
    NV_Increment |-> Esys_NV_Increment,
    NV_Read |-> Esys_NV_Read,
    NV_ReadLock |-> Esys_NV_ReadLock,
    NV_ReadPublic |-> Esys_NV_ReadPublic,
    NV_SetBits |-> Esys_NV_SetBits,
    NV_UndefineSpace |-> Esys_NV_UndefineSpace,
    NV_UndefineSpaceSpecial |-> Esys_NV_UndefineSpaceSpecial,
    NV_Write |-> Esys_NV_Write,
    NV_WriteLock |-> Esys_NV_WriteLock,
    ObjectChangeAuth |-> Esys_ObjectChangeAuth,
    PCR_Allocate |-> Esys_PCR_Allocate,
    PCR_Event |-> Esys_PCR_Event,
    PCR_Extend |-> Esys_PCR_Extend,
    PCR_Read |-> Esys_PCR_Read,
    PCR_Reset |-> Esys_PCR_Reset,
    PCR_SetAuthPolicy |-> Esys_PCR_SetAuthPolicy,
    PCR_SetAuthValue |-> Esys_PCR_SetAuthValue,
    PP_Commands |-> Esys_PP_Commands,
    PolicyAuthValue |-> Esys_PolicyAuthValue,
    PolicyAuthorize |-> Esys_PolicyAuthorize,
    PolicyAuthorizeNV |-> Esys_PolicyAuthorizeNV,
    PolicyCommandCode |-> Esys_PolicyCommandCode,
    PolicyCounterTimer |-> Esys_PolicyCounterTimer,
    PolicyCpHash |-> Esys_PolicyCpHash,
    PolicyDuplicationSelect |-> Esys_PolicyDuplicationSelect,
    PolicyGetDigest |-> Esys_PolicyGetDigest,
    PolicyLocality |-> Esys_PolicyLocality,
    PolicyNV |-> Esys_PolicyNV,
    PolicyNameHash |-> Esys_PolicyNameHash,
    PolicyNvWritten |-> Esys_PolicyNvWritten,
    PolicyOR |-> Esys_PolicyOR,
    PolicyPCR |-> Esys_PolicyPCR,
    PolicyPassword |-> Esys_PolicyPassword,
    PolicyPhysicalPresence |-> Esys_PolicyPhysicalPresence,
    PolicyRestart |-> Esys_PolicyRestart,
    PolicySecret |-> Esys_PolicySecret,
    PolicySigned |-> Esys_PolicySigned,
    PolicyTemplate |-> Esys_PolicyTemplate,
    PolicyTicket |-> Esys_PolicyTicket,
    Policy_AC_SendSelect |-> Esys_Policy_AC_SendSelect,
    Quote |-> Esys_Quote,
    RSA_Decrypt |-> Esys_RSA_Decrypt,
    RSA_Encrypt |-> Esys_RSA_Encrypt,
    ReadClock |-> Esys_ReadClock,
    ReadPublic |-> Esys_ReadPublic,
    Rewrap |-> Esys_Rewrap,
    SelfTest |-> Esys_SelfTest,
    SequenceComplete |-> Esys_SequenceComplete,
    SequenceUpdate |-> Esys_SequenceUpdate,
    SetAlgorithmSet |-> Esys_SetAlgorithmSet,
    SetCommandCodeAuditStatus |-> Esys_SetCommandCodeAuditStatus,
    SetPrimaryPolicy |-> Esys_SetPrimaryPolicy,
    Shutdown |-> Esys_Shutdown,
    Sign |-> Esys_Sign,
    SignDigest |-> Esys_SignDigest,
    SignSequenceComplete |-> Esys_SignSequenceComplete,
    SignSequenceStart |-> Esys_SignSequenceStart,
    StartAuthSession |-> Esys_StartAuthSession,
    Startup |-> Esys_Startup,
    StirRandom |-> Esys_StirRandom,
    TestParms |-> Esys_TestParms,
    Unseal |-> Esys_Unseal,
    Vendor_TCG_Test |-> Esys_Vendor_TCG_Test,
    VerifyDigestSignature |-> Esys_VerifyDigestSignature,
    VerifySequenceComplete |-> Esys_VerifySequenceComplete,
    VerifySequenceStart |-> Esys_VerifySequenceStart,
    VerifySignature |-> Esys_VerifySignature,
    ZGen_2Phase |-> Esys_ZGen_2Phase]

=============================================================================
