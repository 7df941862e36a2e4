------------------------------ MODULE FapiJsonReader ------------------------------
(***************************************************************************)
(* The readers of the FAPI's own types: objects of the keystore, events,   *)
(* the configuration, profiles and policies.                               *)
(***************************************************************************)
EXTENDS JsonEntry

\* ifapi_json_deserialize.c
ifapi_json_char_deserialize == Text
ifapi_json_IFAPI_KEY_deserialize ==
    Object(<<F("persistent_handle", "UINT32"), Maybe("with_auth", "TPMI_YES_NO"),
        SelIn("public", "TPM2B_PUBLIC", "TPMI_ALG_PUBLIC"), F("serialization", "UINT8_ARY"),
        Maybe("private", "UINT8_ARY"), Maybe("appData", "UINT8_ARY"), F("policyInstance",
        "char"), Maybe("creationData", "TPM2B_CREATION_DATA"), Maybe("creationHash",
        "TPM2B_DIGEST"), Maybe("creationTicket", "TPMT_TK_CREATION"), F("description",
        "char"), F("certificate", "char"), Unless({"KEYEDHASH"}, F("signing_scheme",
        "TPMT_SIG_SCHEME")), F("name", "TPM2B_NAME"), Maybe("reset_count", "UINT32"),
        Maybe("delete_prohibited", "TPMI_YES_NO"), Maybe("ek_profile", "TPMI_YES_NO"),
        Maybe("nonce", "TPM2B_DIGEST"), Maybe("unique_init_set", "TPMI_YES_NO"),
        MaybeArm("unique_init", "TPMU_PUBLIC_ID")>>, NoLimit)
ifapi_json_import_IFAPI_KEY_deserialize ==
    Object(<<Or("noauth", "TPMI_YES_NO"), F("public", "UINT8_ARY"), Maybe("private",
        "UINT8_ARY")>>, NoLimit)

\* A bug: an optional key is required.
CertificateRequired ==
    Object(<<F("pem_ext_public", "char"), F("certificate", "char"), Maybe("public",
        "TPM2B_PUBLIC")>>, NoLimit)
ifapi_json_IFAPI_EXT_PUB_KEY_deserialize ==
    Object(<<F("pem_ext_public", "char"), Maybe("certificate", "char"), Maybe("public",
        "TPM2B_PUBLIC")>>, NoLimit)
ifapi_json_IFAPI_NV_deserialize ==
    Object(<<Maybe("appData", "UINT8_ARY"), Maybe("with_auth", "TPMI_YES_NO"), F("public",
        "TPM2B_NV_PUBLIC"), F("serialization", "UINT8_ARY"), F("hierarchy", "UINT32"),
        F("policyInstance", "char"), F("description", "char"), Maybe("event_log", "char")>>,
        NoLimit)
ifapi_json_IFAPI_HIERARCHY_deserialize ==
    Object(<<Maybe("with_auth", "TPMI_YES_NO"), F("authPolicy", "TPM2B_DIGEST"),
        F("description", "char"), Or("esysHandle", "UINT32")>>, NoLimit)
ifapi_json_FAPI_QUOTE_INFO_deserialize ==
    Object(<<F("sig_scheme", "TPMT_SIG_SCHEME"), F("attest", "TPMS_ATTEST")>>, NoLimit)
ifapi_json_IFAPI_DUPLICATE_deserialize ==
    Object(<<F("duplicate", "TPM2B_PRIVATE"), F("encrypted_seed", "TPM2B_ENCRYPTED_SECRET"),
        Maybe("certificate", "char"), F("public", "TPM2B_PUBLIC"), F("public_parent",
        "TPM2B_PUBLIC"), Maybe("policy", "TPMS_POLICY")>>, NoLimit)
ifapi_json_IFAPI_OBJECT_TYPE_CONSTANT_deserialize == Number(4)
ifapi_json_IFAPI_OBJECT_deserialize ==
    Object(<<Sel("objectType", "objectType"), Maybe("system", "TPMI_YES_NO"),
        Inline("IFAPI_OBJECT_UNION"), Maybe("policy", "TPMS_POLICY")>>, NoLimit)
ifapi_json_IFAPI_EVENT_TYPE_deserialize == Alias("IFAPI_EVENT_TYPE_txt")
ifapi_json_IFAPI_EVENT_TYPE_deserialize_txt ==
    Prefixed(<<"IMA_EVENT_TAG", "TSS_EVENT_TAG", "PC_CLIENT", "CEL_TAG">>)
ifapi_json_IFAPI_TSS_EVENT_deserialize ==
    Object(<<F("data", "TPM2B_EVENT"), Maybe("event", "char")>>, NoLimit)
ifapi_json_IFAPI_EVENT_UNION_deserialize ==
    Arms([TSS_EVENT_TAG |-> "IFAPI_TSS_EVENT", IMA_EVENT_TAG |-> "IFAPI_IMA_EVENT",
        PC_CLIENT |-> "IFAPI_FIRMWARE_EVENT", CEL_TAG |-> "TPMS_EVENT_CELMGT"])
ifapi_json_IFAPI_EVENT_deserialize ==
    Object(<<Maybe("recnum", "UINT32"), F("pcr", "TPM2_HANDLE"), F("digests",
        "TPML_DIGEST_VALUES"), Sel("content_type", "IFAPI_EVENT_TYPE"), Arm("content",
        "IFAPI_EVENT_UNION")>>, NoLimit)
ifapi_json_TPMS_CEL_VERSION_deserialize ==
    Object(<<F("major", "UINT16"), F("minor", "UINT16")>>, NoLimit)
ifapi_json_TPMU_CELMGT_deserialize ==
    Arms([CEL_VERSION |-> "TPMS_CEL_VERSION", FIRMWARE_END |-> "TPMS_EMPTY",
        CEL_TIMESTAMP |-> "UINT64"])
ifapi_json_TPMI_CELMGTTYPE_deserialize == In("UINT32", {"CEL_VERSION", "FIRMWARE_END"})
ifapi_json_TPMS_EVENT_CELMGT_deserialize ==
    Object(<<Sel("type", "TPMI_CELMGTTYPE"), Unless({"FIRMWARE_END"}, Arm("data",
        "TPMU_CELMGT"))>>, NoLimit)
objectType_deserialize ==
    In("IFAPI_OBJECT_TYPE_CONSTANT", {"HIERARCHY_OBJ", "NV_OBJ", "DUPLICATE_OBJ", "KEY_OBJ",
        "EXT_PUB_KEY_OBJ"})
IFAPI_OBJECT_UNION_deserialize ==
    Arms([HIERARCHY_OBJ |-> "IFAPI_HIERARCHY", NV_OBJ |-> "IFAPI_NV",
        DUPLICATE_OBJ |-> "IFAPI_DUPLICATE", KEY_OBJ |-> "IFAPI_KEY",
        EXT_PUB_KEY_OBJ |-> "IFAPI_EXT_PUB_KEY"])

\* ifapi_policy_json_deserialize.c
ifapi_json_TPMI_POLICYTYPE_deserialize == Alias("TPMI_POLICYTYPE_txt")

\* A bug: the table is sorted otherwise.
PolicyTypesSorted ==
    Prefixed(<<"POLICYACTION", "POLICYAUTHORIZENV", "POLICYAUTHORIZE", "POLICYAUTHVALUE",
        "POLICYCOMMANDCODE", "POLICYCOUNTERTIMER", "POLICYCPHASH", "POLICYDUPLICATIONSELECT",
        "POLICYLOCALITY", "POLICYNAMEHASH", "POLICYNV", "POLICYNVWRITTEN", "POLICYOR",
        "POLICYPASSWORD", "POLICYPCR", "POLICYPHYSICALPRESENCE", "POLICYSECRET",
        "POLICYSIGNED", "POLICYTEMPLATE">>)
ifapi_json_TPMI_POLICYTYPE_deserialize_txt ==
    Prefixed(<<"POLICYOR", "POLICYSIGNED", "POLICYSECRET", "POLICYPCR", "POLICYLOCALITY",
        "POLICYNV", "POLICYCOUNTERTIMER", "POLICYCOMMANDCODE", "POLICYPHYSICALPRESENCE",
        "POLICYCPHASH", "POLICYNAMEHASH", "POLICYDUPLICATIONSELECT", "POLICYAUTHORIZE",
        "POLICYAUTHVALUE", "POLICYPASSWORD", "POLICYNVWRITTEN", "POLICYTEMPLATE",
        "POLICYAUTHORIZENV", "POLICYACTION">>)
ifapi_json_TPMS_POLICYSIGNED_deserialize ==
    Object(<<Maybe("cpHashA", "TPM2B_DIGEST"), Maybe("policyRef", "TPM2B_NONCE"),
        One("keyPath", "char"), One("keyPublic", "TPMT_PUBLIC"), One("keyPEM", "char"),
        Maybe("publicKeyHint", "char"), Maybe("publicKey", "TPM2B_NAME"), Or("keyPEMhashAlg",
        "TPMI_ALG_HASH"), Or("rsaScheme", "TPMT_RSA_SCHEME")>>, OneOf)
ifapi_json_TPMS_POLICYSECRET_deserialize ==
    Object(<<Maybe("cpHashA", "TPM2B_DIGEST"), Maybe("policyRef", "TPM2B_NONCE"),
        One("objectPath", "char"), One("objectName", "TPM2B_NAME")>>, OneOf)
ifapi_json_TPMS_POLICYLOCALITY_deserialize ==
    Object(<<F("locality", "TPMA_LOCALITY")>>, NoLimit)
ifapi_json_TPMS_POLICYNV_deserialize ==
    Object(<<One("nvPath", "char"), One("nvIndex", "TPMI_RH_NV_INDEX"), Maybe("nvPublic",
        "TPM2B_NV_PUBLIC"), F("operandB", "TPM2B_OPERAND"), Maybe("offset", "UINT16"),
        Maybe("operation", "TPM2_EO")>>, OneOf)
ifapi_json_TPMS_POLICYCOUNTERTIMER_deserialize ==
    Object(<<F("operandB", "TPM2B_OPERAND"), Maybe("offset", "UINT16"), F("operation",
        "TPM2_EO")>>, NoLimit)
ifapi_json_TPMS_POLICYCOMMANDCODE_deserialize == Object(<<F("code", "TPM2_CC")>>, NoLimit)
ifapi_json_TPMS_POLICYPHYSICALPRESENCE_deserialize == Object(<< >>, NoLimit)
ifapi_json_TPMS_POLICYCPHASH_deserialize == Object(<<F("cpHash", "TPM2B_DIGEST")>>, NoLimit)
ifapi_json_TPMS_POLICYNAMEHASH_deserialize ==
    Object(<<Alone(One("nameHash", "TPM2B_DIGEST")), One("namePaths", "namePathArray"),
        Refused("objectNames", "TPM2B_NAME")>>, OneOf)
ifapi_json_TPMS_POLICYDUPLICATIONSELECT_deserialize ==
    Object(<<Maybe("objectName", "TPM2B_NAME"), OneIfSet("newParentName", "TPM2B_NAME"),
        Like("objectName", Maybe("includeObject", "TPMI_YES_NO")), Also("TPMT_PUBLIC",
        One("newParentPublic", "TPM2B_PUBLIC")), One("newParentPath", "char")>>, OneOf)
ifapi_json_TPMS_POLICYAUTHORIZE_deserialize ==
    Object(<<Maybe("approvedPolicy", "TPM2B_DIGEST"), Maybe("policyRef", "TPM2B_NONCE"),
        Maybe("keyName", "TPM2B_NAME"), One("keyPath", "char"), One("keyPublic",
        "TPMT_PUBLIC"), One("keyPEM", "char"), Or("keyPEMhashAlg", "TPMI_ALG_HASH"),
        Or("rsaScheme", "TPMT_RSA_SCHEME")>>, OneOf)
ifapi_json_TPMS_POLICYAUTHVALUE_deserialize == Object(<< >>, NoLimit)
ifapi_json_TPMS_POLICYPASSWORD_deserialize == Object(<< >>, NoLimit)
ifapi_json_TPMS_POLICYNVWRITTEN_deserialize ==
    Object(<<Or("writtenSet", "TPMI_YES_NO")>>, NoLimit)
ifapi_json_TPMS_POLICYTEMPLATE_deserialize ==
    Object(<<One("templateHash", "TPM2B_DIGEST"), One("templatePublic", "TPMT_PUBLIC")>>,
        OneOf)
ifapi_json_TPMS_POLICYAUTHORIZENV_deserialize ==
    Object(<<One("nvPath", "char"), Also("TPMS_NV_PUBLIC", One("nvPublic",
        "TPM2B_NV_PUBLIC"))>>, OneOf)
ifapi_json_TPMS_POLICYACTION_deserialize == Object(<<F("action", "char")>>, NoLimit)
ifapi_json_TPMS_PCRVALUE_deserialize ==
    Object(<<F("pcr", "UINT32"), Sel("hashAlg", "TPM2_ALG_ID"), Arm("digest", "TPMU_HA")>>,
        NoLimit)
ifapi_json_TPML_PCRVALUES_deserialize == List("TPMS_PCRVALUE", Unbounded)
ifapi_json_TPMS_POLICYPCR_deserialize ==
    Object(<<One("pcrs", "TPML_PCRVALUES"), One("currentPCRs", "TPMS_PCR_SELECT"),
        One("currentPCRandBanks", "TPML_PCR_SELECTION")>>, OneOf)
ifapi_json_TPMS_POLICYAUTHORIZATION_deserialize ==
    Object(<<Sel("type", "authorizationType"), Unless({"pem"}, F("key", "TPMT_PUBLIC")),
        Unless({"pem"}, F("signature", "TPMT_SIGNATURE")), Unless({"tpm"}, F("key", "char")),
        Unless({"tpm"}, Aka("keyPEMhashAlg", Or("hashAlg", "TPMI_ALG_HASH"))),
        Unless({"tpm"}, Or("rsaScheme", "TPMT_RSA_SCHEME")), Unless({"tpm"}, F("signature",
        "UINT8_ARY")), Maybe("policyRef", "TPM2B_NONCE")>>, NoLimit)
ifapi_json_TPML_POLICYAUTHORIZATIONS_deserialize ==
    List("TPMS_POLICYAUTHORIZATION", Unbounded)
ifapi_json_TPMS_POLICYBRANCH_deserialize ==
    Object(<<F("name", "char"), F("description", "char"), F("policy", "TPML_POLICYELEMENTS"),
        Maybe("policyDigests", "TPML_DIGEST_VALUES")>>, NoLimit)
ifapi_json_TPML_POLICYBRANCHES_deserialize == List("TPMS_POLICYBRANCH", Unbounded)
ifapi_json_TPMS_POLICYOR_deserialize ==
    Object(<<F("branches", "TPML_POLICYBRANCHES")>>, NoLimit)
ifapi_json_TPMU_POLICYELEMENT_deserialize ==
    Arms([POLICYOR |-> "TPMS_POLICYOR", POLICYSIGNED |-> "TPMS_POLICYSIGNED",
        POLICYSECRET |-> "TPMS_POLICYSECRET", POLICYPCR |-> "TPMS_POLICYPCR",
        POLICYLOCALITY |-> "TPMS_POLICYLOCALITY", POLICYNV |-> "TPMS_POLICYNV",
        POLICYCOUNTERTIMER |-> "TPMS_POLICYCOUNTERTIMER",
        POLICYCOMMANDCODE |-> "TPMS_POLICYCOMMANDCODE",
        POLICYPHYSICALPRESENCE |-> "TPMS_POLICYPHYSICALPRESENCE",
        POLICYCPHASH |-> "TPMS_POLICYCPHASH", POLICYNAMEHASH |-> "TPMS_POLICYNAMEHASH",
        POLICYDUPLICATIONSELECT |-> "TPMS_POLICYDUPLICATIONSELECT",
        POLICYAUTHORIZE |-> "TPMS_POLICYAUTHORIZE",
        POLICYAUTHVALUE |-> "TPMS_POLICYAUTHVALUE", POLICYPASSWORD |-> "TPMS_POLICYPASSWORD",
        POLICYNVWRITTEN |-> "TPMS_POLICYNVWRITTEN", POLICYTEMPLATE |-> "TPMS_POLICYTEMPLATE",
        POLICYAUTHORIZENV |-> "TPMS_POLICYAUTHORIZENV",
        POLICYACTION |-> "TPMS_POLICYACTION"])
ifapi_json_TPMT_POLICYELEMENT_deserialize ==
    Object(<<Sel("type", "TPMI_POLICYTYPE"), Maybe("policyDigests", "TPML_DIGEST_VALUES"),
        Inline("TPMU_POLICYELEMENT")>>, NoLimit)
ifapi_json_TPML_POLICYELEMENTS_deserialize == List("TPMT_POLICYELEMENT", Unbounded)
ifapi_json_TPMS_POLICY_deserialize ==
    Object(<<F("description", "char"), Maybe("policyDigests", "TPML_DIGEST_VALUES"),
        Maybe("policyAuthorizations", "TPML_POLICYAUTHORIZATIONS"), F("policy",
        "TPML_POLICYELEMENTS")>>, NoLimit)
authorizationType_deserialize == Names({"tpm", "pem"})

\* ifapi_ima_eventlog.c
ifapi_json_IFAPI_IMA_EVENT_TYPE_deserialize == Prefixed(<<"IMA", "IMA_NG", "IMA_SIG">>)
ifapi_json_IFAPI_IMA_EVENT_deserialize ==
    Object(<<F("template_name", "IFAPI_IMA_EVENT_TYPE"), Aka("template_value",
        F("template_data", "UINT8_ARY"))>>, NoLimit)

\* ifapi_eventlog_system.c
ifapi_json_TCG_EVENT_TYPE_deserialize ==
    Prefixed(<<"PREBOOT_CERT", "POST_CODE", "UNUSED", "NO_ACTION", "SEPARATOR", "ACTION",
        "EVENT_TAG", "S_CRTM_CONTENTS", "S_CRTM_VERSION", "CPU_MICROCODE",
        "PLATFORM_CONFIG_FLAGS", "TABLE_OF_DEVICES", "COMPACT_HASH", "IPL",
        "IPL_PARTITION_DATA", "NONHOST_CODE", "NONHOST_CONFIG", "NONHOST_INFO",
        "OMIT_BOOT_DEVICE_EVENTS", "EFI_VARIABLE_DRIVER_CONFIG", "EFI_VARIABLE_BOOT",
        "EFI_BOOT_SERVICES_APPLICATION", "EFI_BOOT_SERVICES_DRIVER",
        "EFI_RUNTIME_SERVICES_DRIVER", "EFI_GPT_EVENT", "EFI_ACTION",
        "EFI_PLATFORM_FIRMWARE_BLOB", "EFI_HANDOFF_TABLES", "EFI_HCRTM_EVENT",
        "EFI_VARIABLE_AUTHORITY">>)
ifapi_json_IFAPI_FIRMWARE_EVENT_deserialize ==
    Object(<<F("event_type", "TCG_EVENT_TYPE"), F("event_data", "UINT8_ARY")>>, NoLimit)

\* ifapi_config.c
ifapi_json_IFAPI_CONFIG_deserialize ==
    Object(<<Maybe("profile_dir", "char"), Maybe("user_dir", "char"), Maybe("system_dir",
        "char"), Or("log_dir", "char"), F("profile_name", "char"), F("tcti", "char"),
        F("system_pcrs", "TPML_PCR_SELECTION"), Maybe("ek_cert_file", "char"),
        Maybe("ek_cert_less", "TPMI_YES_NO"), Maybe("ek_fingerprint", "TPMT_HA"),
        Aka("intel_cert_service", Maybe("web_cert_service", "char")),
        Maybe("firmware_log_file", "char"), Maybe("ima_log_file", "char")>>, NoLimit)

\* ifapi_profiles.c
ifapi_profile_json_deserialize ==
    Object(<<Sel("type", "TPMI_ALG_PUBLIC"), F("srk_template", "char"),
        Maybe("srk_description", "char"), F("ek_template", "char"), Maybe("ek_description",
        "char"), Maybe("ecc_signing_scheme", "TPMT_SIG_SCHEME"), Maybe("rsa_signing_scheme",
        "TPMT_SIG_SCHEME"), Maybe("mldsa_signing_scheme", "TPMT_SIG_SCHEME"),
        Maybe("rsa_decrypt_scheme", "TPMT_RSA_DECRYPT"), F("sym_mode",
        "TPMI_ALG_CIPHER_MODE"), F("sym_parameters", "TPMT_SYM_DEF_OBJECT"),
        F("sym_block_size", "UINT16"), F("pcr_selection", "TPML_PCR_SELECTION"), F("nameAlg",
        "TPMI_ALG_HASH"), Unless(KeyTypes \ {"RSA"}, F("exponent", "UINT32")),
        Unless(KeyTypes \ {"RSA"}, F("keyBits", "TPMI_RSA_KEY_BITS")),
        Unless(KeyTypes \ {"ECC"}, F("curveID", "TPMI_ECC_CURVE")),
        Unless(KeyTypes \ {"MLDSA"}, Or("mldsaParameterSet", "UINT32")),
        Or("session_symmetric", "TPMT_SYM_DEF"), Maybe("eh_policy", "TPMS_POLICY"),
        Maybe("sh_policy", "TPMS_POLICY"), Maybe("ek_policy", "TPMS_POLICY"),
        Maybe("srk_policy", "TPMS_POLICY"), Maybe("lockout_policy", "TPMS_POLICY"),
        Or("newMaxTries", "UINT32"), Or("newRecoveryTime", "UINT32"), Or("lockoutRecovery",
        "UINT32"), Maybe("ignore_ek_template", "TPMI_YES_NO")>>, NoLimit)

\* By type.
FapiReader ==
    [char |-> ifapi_json_char_deserialize, IFAPI_KEY |-> ifapi_json_IFAPI_KEY_deserialize,
     import_IFAPI_KEY |-> ifapi_json_import_IFAPI_KEY_deserialize,
     IFAPI_EXT_PUB_KEY |-> ifapi_json_IFAPI_EXT_PUB_KEY_deserialize,
     IFAPI_NV |-> ifapi_json_IFAPI_NV_deserialize,
     IFAPI_HIERARCHY |-> ifapi_json_IFAPI_HIERARCHY_deserialize,
     FAPI_QUOTE_INFO |-> ifapi_json_FAPI_QUOTE_INFO_deserialize,
     IFAPI_DUPLICATE |-> ifapi_json_IFAPI_DUPLICATE_deserialize,
     IFAPI_OBJECT_TYPE_CONSTANT |-> ifapi_json_IFAPI_OBJECT_TYPE_CONSTANT_deserialize,
     IFAPI_OBJECT |-> ifapi_json_IFAPI_OBJECT_deserialize,
     IFAPI_EVENT_TYPE |-> ifapi_json_IFAPI_EVENT_TYPE_deserialize,
     IFAPI_EVENT_TYPE_txt |-> ifapi_json_IFAPI_EVENT_TYPE_deserialize_txt,
     IFAPI_TSS_EVENT |-> ifapi_json_IFAPI_TSS_EVENT_deserialize,
     IFAPI_EVENT_UNION |-> ifapi_json_IFAPI_EVENT_UNION_deserialize,
     IFAPI_EVENT |-> ifapi_json_IFAPI_EVENT_deserialize,
     TPMS_CEL_VERSION |-> ifapi_json_TPMS_CEL_VERSION_deserialize,
     TPMU_CELMGT |-> ifapi_json_TPMU_CELMGT_deserialize,
     TPMI_CELMGTTYPE |-> ifapi_json_TPMI_CELMGTTYPE_deserialize,
     TPMS_EVENT_CELMGT |-> ifapi_json_TPMS_EVENT_CELMGT_deserialize,
     objectType |-> objectType_deserialize,
     IFAPI_OBJECT_UNION |-> IFAPI_OBJECT_UNION_deserialize,
     TPMI_POLICYTYPE |-> ifapi_json_TPMI_POLICYTYPE_deserialize,
     TPMI_POLICYTYPE_txt |-> ifapi_json_TPMI_POLICYTYPE_deserialize_txt,
     TPMS_POLICYSIGNED |-> ifapi_json_TPMS_POLICYSIGNED_deserialize,
     TPMS_POLICYSECRET |-> ifapi_json_TPMS_POLICYSECRET_deserialize,
     TPMS_POLICYLOCALITY |-> ifapi_json_TPMS_POLICYLOCALITY_deserialize,
     TPMS_POLICYNV |-> ifapi_json_TPMS_POLICYNV_deserialize,
     TPMS_POLICYCOUNTERTIMER |-> ifapi_json_TPMS_POLICYCOUNTERTIMER_deserialize,
     TPMS_POLICYCOMMANDCODE |-> ifapi_json_TPMS_POLICYCOMMANDCODE_deserialize,
     TPMS_POLICYPHYSICALPRESENCE |-> ifapi_json_TPMS_POLICYPHYSICALPRESENCE_deserialize,
     TPMS_POLICYCPHASH |-> ifapi_json_TPMS_POLICYCPHASH_deserialize,
     TPMS_POLICYNAMEHASH |-> ifapi_json_TPMS_POLICYNAMEHASH_deserialize,
     TPMS_POLICYDUPLICATIONSELECT |-> ifapi_json_TPMS_POLICYDUPLICATIONSELECT_deserialize,
     TPMS_POLICYAUTHORIZE |-> ifapi_json_TPMS_POLICYAUTHORIZE_deserialize,
     TPMS_POLICYAUTHVALUE |-> ifapi_json_TPMS_POLICYAUTHVALUE_deserialize,
     TPMS_POLICYPASSWORD |-> ifapi_json_TPMS_POLICYPASSWORD_deserialize,
     TPMS_POLICYNVWRITTEN |-> ifapi_json_TPMS_POLICYNVWRITTEN_deserialize,
     TPMS_POLICYTEMPLATE |-> ifapi_json_TPMS_POLICYTEMPLATE_deserialize,
     TPMS_POLICYAUTHORIZENV |-> ifapi_json_TPMS_POLICYAUTHORIZENV_deserialize,
     TPMS_POLICYACTION |-> ifapi_json_TPMS_POLICYACTION_deserialize,
     TPMS_PCRVALUE |-> ifapi_json_TPMS_PCRVALUE_deserialize,
     TPML_PCRVALUES |-> ifapi_json_TPML_PCRVALUES_deserialize,
     TPMS_POLICYPCR |-> ifapi_json_TPMS_POLICYPCR_deserialize,
     TPMS_POLICYAUTHORIZATION |-> ifapi_json_TPMS_POLICYAUTHORIZATION_deserialize,
     TPML_POLICYAUTHORIZATIONS |-> ifapi_json_TPML_POLICYAUTHORIZATIONS_deserialize,
     TPMS_POLICYBRANCH |-> ifapi_json_TPMS_POLICYBRANCH_deserialize,
     TPML_POLICYBRANCHES |-> ifapi_json_TPML_POLICYBRANCHES_deserialize,
     TPMS_POLICYOR |-> ifapi_json_TPMS_POLICYOR_deserialize,
     TPMU_POLICYELEMENT |-> ifapi_json_TPMU_POLICYELEMENT_deserialize,
     TPMT_POLICYELEMENT |-> ifapi_json_TPMT_POLICYELEMENT_deserialize,
     TPML_POLICYELEMENTS |-> ifapi_json_TPML_POLICYELEMENTS_deserialize,
     TPMS_POLICY |-> ifapi_json_TPMS_POLICY_deserialize,
     authorizationType |-> authorizationType_deserialize,
     IFAPI_IMA_EVENT_TYPE |-> ifapi_json_IFAPI_IMA_EVENT_TYPE_deserialize,
     IFAPI_IMA_EVENT |-> ifapi_json_IFAPI_IMA_EVENT_deserialize,
     TCG_EVENT_TYPE |-> ifapi_json_TCG_EVENT_TYPE_deserialize,
     IFAPI_FIRMWARE_EVENT |-> ifapi_json_IFAPI_FIRMWARE_EVENT_deserialize,
     IFAPI_CONFIG |-> ifapi_json_IFAPI_CONFIG_deserialize,
     IFAPI_PROFILE |-> ifapi_profile_json_deserialize]
=============================================================================
