------------------------------ MODULE FapiJsonWriter ------------------------------
(***************************************************************************)
(* The writers of the FAPI's own types: objects of the keystore, events,   *)
(* the configuration, and policies.                                        *)
(***************************************************************************)
EXTENDS JsonEntry

\* ifapi_json_serialize.c
ifapi_json_char_serialize == Text
ifapi_json_UINT8_ARY_serialize == Bytes(Unbounded)
ifapi_json_IFAPI_KEY_serialize ==
    Object(<<F("persistent_handle", "UINT32"), F("with_auth", "TPMI_YES_NO"), SelIn("public",
        "TPM2B_PUBLIC", "TPMI_ALG_PUBLIC"), F("serialization", "UINT8_ARY"), Maybe("private",
        "UINT8_ARY"), Maybe("appData", "UINT8_ARY"), F("policyInstance", "char"),
        Maybe("creationData", "TPM2B_CREATION_DATA"), Maybe("creationHash", "TPM2B_DIGEST"),
        Maybe("creationTicket", "TPMT_TK_CREATION"), F("description", "char"),
        F("certificate", "char"), Unless({"KEYEDHASH"}, F("signing_scheme",
        "TPMT_SIG_SCHEME")), F("name", "TPM2B_NAME"), Maybe("reset_count", "UINT32"),
        F("delete_prohibited", "TPMI_YES_NO"), F("ek_profile", "TPMI_YES_NO"), Maybe("nonce",
        "TPM2B_DIGEST"), Maybe("unique_init_set", "TPMI_YES_NO"), With("unique_init_set",
        Arm("unique_init", "TPMU_PUBLIC_ID"))>>, NoLimit)
ifapi_json_IFAPI_EXT_PUB_KEY_serialize ==
    Object(<<F("pem_ext_public", "char"), Maybe("certificate", "char"), Maybe("public",
        "TPM2B_PUBLIC")>>, NoLimit)
ifapi_json_IFAPI_NV_serialize ==
    Object(<<F("with_auth", "TPMI_YES_NO"), F("nv_object", "TPMI_YES_NO"), F("public",
        "TPM2B_NV_PUBLIC"), F("serialization", "UINT8_ARY"), F("hierarchy", "UINT32"),
        F("policyInstance", "char"), F("description", "char"), Maybe("appData", "UINT8_ARY"),
        Maybe("event_log", "char")>>, NoLimit)
ifapi_json_IFAPI_HIERARCHY_serialize ==
    Object(<<F("with_auth", "TPMI_YES_NO"), F("authPolicy", "TPM2B_DIGEST"), F("description",
        "char"), F("esysHandle", "UINT32")>>, NoLimit)
ifapi_json_FAPI_QUOTE_INFO_serialize ==
    Object(<<F("sig_scheme", "TPMT_SIG_SCHEME"), F("attest", "TPMS_ATTEST")>>, NoLimit)
ifapi_json_IFAPI_DUPLICATE_serialize ==
    Object(<<F("duplicate", "TPM2B_PRIVATE"), F("encrypted_seed", "TPM2B_ENCRYPTED_SECRET"),
        Maybe("certificate", "char"), F("public", "TPM2B_PUBLIC"), F("public_parent",
        "TPM2B_PUBLIC"), Maybe("policy", "TPMS_POLICY")>>, NoLimit)
ifapi_json_IFAPI_OBJECT_TYPE_CONSTANT_serialize == Number(4)
ifapi_json_IFAPI_OBJECT_serialize ==
    Object(<<Sel("objectType", "objectType"), F("system", "TPMI_YES_NO"),
        Inline("IFAPI_OBJECT_UNION"), Maybe("policy", "TPMS_POLICY")>>, NoLimit)
ifapi_json_IFAPI_CAP_INFO_serialize ==
    Object(<<F("description", "char"), F("info", "TPMS_CAPABILITY_DATA")>>, NoLimit)
ifapi_json_IFAPI_INFO_serialize ==
    Object(<<F("version", "char"), F("fapi_config", "IFAPI_CONFIG"), F("capabilities",
        "IFAPI_CAP_INFO")>>, NoLimit)
ifapi_json_IFAPI_EVENT_TYPE_serialize == Alias("IFAPI_EVENT_TYPE_txt")
ifapi_json_IFAPI_EVENT_TYPE_serialize_txt ==
    Names({"IMA_EVENT_TAG", "PC_CLIENT", "TSS_EVENT_TAG", "CEL_TAG"})
ifapi_json_IFAPI_TSS_EVENT_serialize ==
    Object(<<F("data", "TPM2B_EVENT"), Maybe("event", "char")>>, NoLimit)
ifapi_json_IFAPI_IMA_EVENT_serialize == Object(<<F("template_data", "UINT8_ARY")>>, NoLimit)
ifapi_json_IFAPI_EVENT_UNION_serialize ==
    Arms([TSS_EVENT_TAG |-> "IFAPI_TSS_EVENT", IMA_EVENT_TAG |-> "IFAPI_IMA_EVENT",
        CEL_TAG |-> "TPMS_EVENT_CELMGT"])
ifapi_json_IFAPI_EVENT_serialize ==
    Object(<<F("recnum", "UINT32"), F("pcr", "TPM2_HANDLE"), F("digests",
        "TPML_DIGEST_VALUES"), Sel("content_type", "IFAPI_EVENT_TYPE"), Arm("content",
        "IFAPI_EVENT_UNION")>>, NoLimit)
ifapi_json_IFAPI_CONFIG_serialize ==
    Object(<<F("profile_dir", "char"), F("user_dir", "char"), F("system_dir", "char"),
        F("log_dir", "char"), F("profile_name", "char"), F("tcti", "char"), F("system_pcrs",
        "TPML_PCR_SELECTION"), F("ek_cert_file", "char"), F("ek_cert_less", "TPMI_YES_NO"),
        Maybe("ek_fingerprint", "TPMT_HA"), F("web_cert_service", "char"),
        Maybe("firmware_log_file", "char"), Maybe("ima_log_file", "char")>>, NoLimit)
ifapi_json_TPMS_CEL_VERSION_serialize ==
    Object(<<F("major", "UINT16"), F("minor", "UINT16")>>, NoLimit)
ifapi_json_TPMU_CELMGT_serialize ==
    Arms([CEL_VERSION |-> "TPMS_CEL_VERSION", FIRMWARE_END |-> "TPMS_EMPTY",
        CEL_TIMESTAMP |-> "UINT64"])
ifapi_json_TPMI_CELMGTTYPE_serialize == In("UINT32", {"CEL_VERSION", "FIRMWARE_END"})
ifapi_json_TPMS_EVENT_CELMGT_serialize ==
    Object(<<Sel("type", "TPMI_CELMGTTYPE"), Arm("data", "TPMU_CELMGT")>>, NoLimit)
objectType_serialize ==
    In("IFAPI_OBJECT_TYPE_CONSTANT", {"HIERARCHY_OBJ", "NV_OBJ", "DUPLICATE_OBJ", "KEY_OBJ",
        "EXT_PUB_KEY_OBJ"})
IFAPI_OBJECT_UNION_serialize ==
    Arms([HIERARCHY_OBJ |-> "IFAPI_HIERARCHY", NV_OBJ |-> "IFAPI_NV",
        DUPLICATE_OBJ |-> "IFAPI_DUPLICATE", KEY_OBJ |-> "IFAPI_KEY",
        EXT_PUB_KEY_OBJ |-> "IFAPI_EXT_PUB_KEY"])

\* ifapi_policy_json_serialize.c
ifapi_json_TPMI_POLICYTYPE_serialize_txt == Names(PolicyTypes)
ifapi_json_TPMI_POLICYTYPE_serialize == Alias("TPMI_POLICYTYPE_txt")
ifapi_json_TPMS_POLICYSIGNED_serialize ==
    Object(<<Maybe("cpHashA", "TPM2B_DIGEST"), Maybe("policyRef", "TPM2B_NONCE"),
        One("keyPath", "char"), One("keyPublic", "TPMT_PUBLIC"), One("keyPEM", "char"),
        Maybe("publicKeyHint", "char"), Maybe("publicKey", "TPM2B_NAME"),
        Maybe("keyPEMhashAlg", "TPMI_ALG_HASH"), F("rsaScheme", "TPMT_RSA_SCHEME")>>, OneOf)
ifapi_json_TPMS_POLICYSECRET_serialize ==
    Object(<<F("nonceTPM", "TPM2B_NONCE"), F("cpHashA", "TPM2B_DIGEST"), Maybe("policyRef",
        "TPM2B_NONCE"), F("expiration", "INT32"), One("objectPath", "char"),
        One("objectName", "TPM2B_NAME")>>, OneOf)
ifapi_json_TPMS_POLICYLOCALITY_serialize ==
    Object(<<F("locality", "TPMA_LOCALITY")>>, NoLimit)
ifapi_json_TPMS_POLICYNV_serialize ==
    Object(<<One("nvPath", "char"), One("nvIndex", "TPMI_RH_NV_INDEX"), Maybe("nvPublic",
        "TPM2B_NV_PUBLIC"), F("operandB", "TPM2B_OPERAND"), Maybe("offset", "UINT16"),
        Maybe("operation", "TPM2_EO")>>, OneOf)
ifapi_json_TPMS_POLICYCOUNTERTIMER_serialize ==
    Object(<<F("operandB", "TPM2B_OPERAND"), Maybe("offset", "UINT16"), F("operation",
        "TPM2_EO")>>, NoLimit)
ifapi_json_TPMS_POLICYCOMMANDCODE_serialize == Object(<<F("code", "TPM2_CC")>>, NoLimit)
ifapi_json_TPMS_POLICYPHYSICALPRESENCE_serialize == Object(<< >>, NoLimit)
ifapi_json_TPMS_POLICYCPHASH_serialize == Object(<<F("cpHash", "TPM2B_DIGEST")>>, NoLimit)
ifapi_json_TPMS_POLICYNAMEHASH_serialize ==
    Object(<<Alone(One("nameHash", "TPM2B_DIGEST")), One("namePaths", "namePathArray"),
        NotWith("namePaths", F("objectNames", "TPM2B_NAME"))>>, OneOf)
ifapi_json_TPMS_POLICYDUPLICATIONSELECT_serialize ==
    Object(<<F("objectName", "TPM2B_NAME"), One("newParentName", "TPM2B_NAME"),
        F("includeObject", "TPMI_YES_NO"), EvenBlank(One("newParentPath", "char")),
        One("newParentPublic", "TPMT_PUBLIC")>>, OneOf)
ifapi_json_TPMS_POLICYAUTHORIZE_serialize ==
    Object(<<F("approvedPolicy", "TPM2B_DIGEST"), Maybe("policyRef", "TPM2B_NONCE"),
        F("keyName", "TPM2B_NAME"), EvenBlank(One("keyPath", "char")),
        One("keyPublic", "TPMT_PUBLIC"), Maybe("keyPEM", "char"), Maybe("keyPEMhashAlg", "TPMI_ALG_HASH"), F("rsaScheme",
        "TPMT_RSA_SCHEME")>>, AtMostOne)
ifapi_json_TPMS_POLICYAUTHVALUE_serialize == Object(<< >>, NoLimit)
ifapi_json_TPMS_POLICYPASSWORD_serialize == Object(<< >>, NoLimit)
ifapi_json_TPMS_POLICYNVWRITTEN_serialize ==
    Object(<<F("writtenSet", "TPMI_YES_NO")>>, NoLimit)
ifapi_json_TPMS_POLICYTEMPLATE_serialize ==
    Object(<<One("templateHash", "TPM2B_DIGEST"), One("templatePublic", "TPMT_PUBLIC")>>,
        OneOf)
ifapi_json_TPMS_POLICYAUTHORIZENV_serialize ==
    Object(<<EvenBlank(One("nvPath", "char")), One("nvPublic", "TPMS_NV_PUBLIC")>>, OneOf)
ifapi_json_TPMS_POLICYACTION_serialize == Object(<<F("action", "char")>>, NoLimit)
ifapi_json_TPMS_PCRVALUE_serialize ==
    Object(<<F("pcr", "UINT32"), Sel("hashAlg", "TPM2_ALG_ID"), Arm("digest", "TPMU_HA")>>,
        NoLimit)
ifapi_json_TPML_PCRVALUES_serialize == List("TPMS_PCRVALUE", Unbounded)
ifapi_json_TPMS_POLICYPCR_serialize ==
    Object(<<One("pcrs", "TPML_PCRVALUES"), One("currentPCRandBanks", "TPML_PCR_SELECTION"),
        One("currentPCRs", "TPMS_PCR_SELECT")>>, OneOf)
ifapi_json_TPMS_POLICYAUTHORIZATION_serialize ==
    Object(<<Sel("type", "authorizationType"), F("policyRef", "TPM2B_NONCE"), Unless({"pem"},
        F("key", "TPMT_PUBLIC")), Unless({"pem"}, F("signature", "TPMT_SIGNATURE")),
        Unless({"tpm"}, F("key", "char")), Unless({"tpm"}, F("signature", "UINT8_ARY")),
        Unless({"tpm"}, F("rsaScheme", "TPMT_RSA_SCHEME")), Unless({"tpm"}, F("hashAlg",
        "TPMI_ALG_HASH"))>>, NoLimit)
ifapi_json_TPML_POLICYAUTHORIZATIONS_serialize == List("TPMS_POLICYAUTHORIZATION", Unbounded)
ifapi_json_TPMS_POLICYBRANCH_serialize ==
    Object(<<F("name", "char"), F("description", "char"), F("policy", "TPML_POLICYELEMENTS"),
        Maybe("policyDigests", "TPML_DIGEST_VALUES")>>, NoLimit)
ifapi_json_TPML_POLICYBRANCHES_serialize == List("TPMS_POLICYBRANCH", Unbounded)
ifapi_json_TPMS_POLICYOR_serialize ==
    Object(<<F("branches", "TPML_POLICYBRANCHES")>>, NoLimit)
ifapi_json_TPMU_POLICYELEMENT_serialize ==
    Arms([POLICYOR |-> "TPMS_POLICYOR", POLICYSIGNED |-> "TPMS_POLICYSIGNED",
        POLICYSECRET |-> "TPMS_POLICYSECRET", POLICYPCR |-> "TPMS_POLICYPCR",
        POLICYLOCALITY |-> "TPMS_POLICYLOCALITY", POLICYNV |-> "TPMS_POLICYNV",
        POLICYCOUNTERTIMER |-> "TPMS_POLICYCOUNTERTIMER",
        POLICYCOMMANDCODE |-> "TPMS_POLICYCOMMANDCODE",
        POLICYPHYSICALPRESENCE |-> "TPMS_POLICYPHYSICALPRESENCE",
        POLICYCPHASH |-> "TPMS_POLICYCPHASH", POLICYNAMEHASH |-> "TPMS_POLICYNAMEHASH",
        POLICYDUPLICATIONSELECT |-> "TPMS_POLICYDUPLICATIONSELECT",
        POLICYAUTHORIZE |-> "TPMS_POLICYAUTHORIZE",
        POLICYAUTHVALUE |-> "TPMS_POLICYAUTHVALUE", POLICYPASSWORD |-> "TPMS_POLICYPASSWORD",
        POLICYNVWRITTEN |-> "TPMS_POLICYNVWRITTEN", POLICYTEMPLATE |-> "TPMS_POLICYTEMPLATE",
        POLICYAUTHORIZENV |-> "TPMS_POLICYAUTHORIZENV",
        POLICYACTION |-> "TPMS_POLICYACTION"])
ifapi_json_TPMT_POLICYELEMENT_serialize ==
    Object(<<Sel("type", "TPMI_POLICYTYPE"), Maybe("policyDigests", "TPML_DIGEST_VALUES"),
        Inline("TPMU_POLICYELEMENT")>>, NoLimit)
ifapi_json_TPML_POLICYELEMENTS_serialize == List("TPMT_POLICYELEMENT", Unbounded)
ifapi_json_TPMS_POLICY_serialize ==
    Object(<<F("description", "char"), F("policyDigests", "TPML_DIGEST_VALUES"),
        Maybe("policyAuthorizations", "TPML_POLICYAUTHORIZATIONS"), F("policy",
        "TPML_POLICYELEMENTS")>>, NoLimit)
authorizationType_serialize == Names({"tpm", "pem"})

\* By type.
FapiWriter ==
    [char |-> ifapi_json_char_serialize, UINT8_ARY |-> ifapi_json_UINT8_ARY_serialize,
     IFAPI_KEY |-> ifapi_json_IFAPI_KEY_serialize,
     IFAPI_EXT_PUB_KEY |-> ifapi_json_IFAPI_EXT_PUB_KEY_serialize,
     IFAPI_NV |-> ifapi_json_IFAPI_NV_serialize,
     IFAPI_HIERARCHY |-> ifapi_json_IFAPI_HIERARCHY_serialize,
     FAPI_QUOTE_INFO |-> ifapi_json_FAPI_QUOTE_INFO_serialize,
     IFAPI_DUPLICATE |-> ifapi_json_IFAPI_DUPLICATE_serialize,
     IFAPI_OBJECT_TYPE_CONSTANT |-> ifapi_json_IFAPI_OBJECT_TYPE_CONSTANT_serialize,
     IFAPI_OBJECT |-> ifapi_json_IFAPI_OBJECT_serialize,
     IFAPI_CAP_INFO |-> ifapi_json_IFAPI_CAP_INFO_serialize,
     IFAPI_INFO |-> ifapi_json_IFAPI_INFO_serialize,
     IFAPI_EVENT_TYPE |-> ifapi_json_IFAPI_EVENT_TYPE_serialize,
     IFAPI_EVENT_TYPE_txt |-> ifapi_json_IFAPI_EVENT_TYPE_serialize_txt,
     IFAPI_TSS_EVENT |-> ifapi_json_IFAPI_TSS_EVENT_serialize,
     IFAPI_IMA_EVENT |-> ifapi_json_IFAPI_IMA_EVENT_serialize,
     IFAPI_EVENT_UNION |-> ifapi_json_IFAPI_EVENT_UNION_serialize,
     IFAPI_EVENT |-> ifapi_json_IFAPI_EVENT_serialize,
     IFAPI_CONFIG |-> ifapi_json_IFAPI_CONFIG_serialize,
     TPMS_CEL_VERSION |-> ifapi_json_TPMS_CEL_VERSION_serialize,
     TPMU_CELMGT |-> ifapi_json_TPMU_CELMGT_serialize,
     TPMI_CELMGTTYPE |-> ifapi_json_TPMI_CELMGTTYPE_serialize,
     TPMS_EVENT_CELMGT |-> ifapi_json_TPMS_EVENT_CELMGT_serialize,
     objectType |-> objectType_serialize, IFAPI_OBJECT_UNION |-> IFAPI_OBJECT_UNION_serialize,
     TPMI_POLICYTYPE_txt |-> ifapi_json_TPMI_POLICYTYPE_serialize_txt,
     TPMI_POLICYTYPE |-> ifapi_json_TPMI_POLICYTYPE_serialize,
     TPMS_POLICYSIGNED |-> ifapi_json_TPMS_POLICYSIGNED_serialize,
     TPMS_POLICYSECRET |-> ifapi_json_TPMS_POLICYSECRET_serialize,
     TPMS_POLICYLOCALITY |-> ifapi_json_TPMS_POLICYLOCALITY_serialize,
     TPMS_POLICYNV |-> ifapi_json_TPMS_POLICYNV_serialize,
     TPMS_POLICYCOUNTERTIMER |-> ifapi_json_TPMS_POLICYCOUNTERTIMER_serialize,
     TPMS_POLICYCOMMANDCODE |-> ifapi_json_TPMS_POLICYCOMMANDCODE_serialize,
     TPMS_POLICYPHYSICALPRESENCE |-> ifapi_json_TPMS_POLICYPHYSICALPRESENCE_serialize,
     TPMS_POLICYCPHASH |-> ifapi_json_TPMS_POLICYCPHASH_serialize,
     TPMS_POLICYNAMEHASH |-> ifapi_json_TPMS_POLICYNAMEHASH_serialize,
     TPMS_POLICYDUPLICATIONSELECT |-> ifapi_json_TPMS_POLICYDUPLICATIONSELECT_serialize,
     TPMS_POLICYAUTHORIZE |-> ifapi_json_TPMS_POLICYAUTHORIZE_serialize,
     TPMS_POLICYAUTHVALUE |-> ifapi_json_TPMS_POLICYAUTHVALUE_serialize,
     TPMS_POLICYPASSWORD |-> ifapi_json_TPMS_POLICYPASSWORD_serialize,
     TPMS_POLICYNVWRITTEN |-> ifapi_json_TPMS_POLICYNVWRITTEN_serialize,
     TPMS_POLICYTEMPLATE |-> ifapi_json_TPMS_POLICYTEMPLATE_serialize,
     TPMS_POLICYAUTHORIZENV |-> ifapi_json_TPMS_POLICYAUTHORIZENV_serialize,
     TPMS_POLICYACTION |-> ifapi_json_TPMS_POLICYACTION_serialize,
     TPMS_PCRVALUE |-> ifapi_json_TPMS_PCRVALUE_serialize,
     TPML_PCRVALUES |-> ifapi_json_TPML_PCRVALUES_serialize,
     TPMS_POLICYPCR |-> ifapi_json_TPMS_POLICYPCR_serialize,
     TPMS_POLICYAUTHORIZATION |-> ifapi_json_TPMS_POLICYAUTHORIZATION_serialize,
     TPML_POLICYAUTHORIZATIONS |-> ifapi_json_TPML_POLICYAUTHORIZATIONS_serialize,
     TPMS_POLICYBRANCH |-> ifapi_json_TPMS_POLICYBRANCH_serialize,
     TPML_POLICYBRANCHES |-> ifapi_json_TPML_POLICYBRANCHES_serialize,
     TPMS_POLICYOR |-> ifapi_json_TPMS_POLICYOR_serialize,
     TPMU_POLICYELEMENT |-> ifapi_json_TPMU_POLICYELEMENT_serialize,
     TPMT_POLICYELEMENT |-> ifapi_json_TPMT_POLICYELEMENT_serialize,
     TPML_POLICYELEMENTS |-> ifapi_json_TPML_POLICYELEMENTS_serialize,
     TPMS_POLICY |-> ifapi_json_TPMS_POLICY_serialize,
     authorizationType |-> authorizationType_serialize]
=============================================================================
