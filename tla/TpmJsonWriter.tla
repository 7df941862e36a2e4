------------------------------- MODULE TpmJsonWriter -------------------------------
(***************************************************************************)
(* The writers of the TPM's types, tpm_json_serialize.c: what goes into the *)
(* JSON value, in the order the function puts it there.                    *)
(***************************************************************************)
EXTENDS JsonEntry

\* tpm_json_serialize.c
ifapi_json_TPMS_EMPTY_serialize == Nothing
ifapi_json_pcr_select_serialize == PcrSelect(31, 4)
ifapi_json_TPMS_PCR_SELECT_serialize == Alias("pcr_select")
ifapi_json_TPMS_PCR_SELECTION_serialize ==
    Object(<<F("hash", "TPMI_ALG_HASH"), F("pcrSelect", "pcr_select")>>, NoLimit)
ifapi_json_TPMS_TAGGED_PCR_SELECT_serialize ==
    Object(<<F("tag", "TPM2_PT_PCR"), F("pcrSelect", "pcr_select")>>, NoLimit)
ifapi_json_TPMS_TAGGED_POLICY_serialize ==
    Object(<<F("handle", "TPM2_HANDLE"), F("policyHash", "TPMT_HA")>>, NoLimit)
ifapi_json_TPMS_ACT_DATA_serialize ==
    Object(<<F("handle", "TPM2_HANDLE"), F("timeout", "UINT32"), F("attributes",
        "TPMA_ACT")>>, NoLimit)
ifapi_json_UINT16_serialize == Number(2)
ifapi_json_UINT32_serialize == Number(4)
ifapi_json_INT32_serialize == Number(4)
ifapi_json_UINT64_serialize == Number(8)
ifapi_json_TPM2_GENERATED_serialize == Names({"VALUE"})
ifapi_json_TPM2_ALG_ID_serialize == Names(Algorithms \cup {"TDES", "CMAC"})
ifapi_json_TPM2_ECC_CURVE_serialize == Names(Curves)
ifapi_json_TPM2_CC_serialize == Names(Commands)
ifapi_json_TPM2_EO_serialize == Names(Operations)
ifapi_json_TPM2_ST_serialize == Names(Tags)
ifapi_json_TPM2_CAP_serialize ==
    Names({"ALGS", "HANDLES", "COMMANDS", "PP_COMMANDS", "AUDIT_COMMANDS", "PCRS",
        "TPM_PROPERTIES", "PCR_PROPERTIES", "ECC_CURVES", "AUTH_POLICIES", "ACT", "LAST",
        "VENDOR_PROPERTY"})
ifapi_json_TPM2_PT_serialize ==
    Names({"NONE", "GROUP", "FAMILY_INDICATOR", "LEVEL", "REVISION", "DAY_OF_YEAR", "YEAR",
        "MANUFACTURER", "VENDOR_STRING_1", "VENDOR_STRING_2", "VENDOR_STRING_3",
        "VENDOR_STRING_4", "VENDOR_TPM_TYPE", "FIRMWARE_VERSION_1", "FIRMWARE_VERSION_2",
        "INPUT_BUFFER", "HR_TRANSIENT_MIN", "HR_PERSISTENT_MIN", "HR_LOADED_MIN",
        "ACTIVE_SESSIONS_MAX", "COUNT", "SELECT_MIN", "CONTEXT_GAP_MAX", "NV_COUNTERS_MAX",
        "NV_INDEX_MAX", "MEMORY", "CLOCK_UPDATE", "CONTEXT_HASH", "CONTEXT_SYM",
        "CONTEXT_SYM_SIZE", "ORDERLY_COUNT", "MAX_COMMAND_SIZE", "MAX_RESPONSE_SIZE",
        "MAX_DIGEST", "MAX_OBJECT_CONTEXT", "MAX_SESSION_CONTEXT", "PS_FAMILY_INDICATOR",
        "PS_LEVEL", "PS_REVISION", "PS_DAY_OF_YEAR", "PS_YEAR", "SPLIT_MAX",
        "TOTAL_COMMANDS", "LIBRARY_COMMANDS", "VENDOR_COMMANDS", "NV_BUFFER_MAX", "MODES",
        "MAX_CAP_BUFFER", "PERMANENT", "STARTUP_CLEAR", "HR_NV_INDEX", "HR_LOADED",
        "HR_LOADED_AVAIL", "HR_ACTIVE", "HR_ACTIVE_AVAIL", "HR_TRANSIENT_AVAIL",
        "HR_PERSISTENT", "HR_PERSISTENT_AVAIL", "NV_COUNTERS", "NV_COUNTERS_AVAIL",
        "ALGORITHM_SET", "LOADED_CURVES", "LOCKOUT_COUNTER", "MAX_AUTH_FAIL",
        "LOCKOUT_INTERVAL", "LOCKOUT_RECOVERY", "NV_WRITE_RECOVERY", "AUDIT_COUNTER_0",
        "AUDIT_COUNTER_1"})
ifapi_json_TPM2_PT_PCR_serialize == Names(PcrProperties)
ifapi_json_TPM2_HANDLE_serialize == Handle
ifapi_json_TPMA_ALGORITHM_serialize ==
    Flags({"ASYMMETRIC", "SYMMETRIC", "HASH", "OBJECT", "SIGNING", "ENCRYPTING", "METHOD"})
ifapi_json_TPMA_OBJECT_serialize == Flags(ObjectAttributes)
ifapi_json_TPMA_LOCALITY_serialize == Flags(Localities \cup {"Extended"})
ifapi_json_TPMA_CC_serialize ==
    Flags({"NV", "EXTENSIVE", "FLUSHED", "RHANDLE", "V", "commandIndex", "cHandles", "Res"})
ifapi_json_TPMA_ACT_serialize == Flags({"SIGNALED", "PRESERVESIGNALED"})
ifapi_json_TPMI_YES_NO_serialize == Names({"YES", "NO"})
ifapi_json_TPMI_RH_HIERARCHY_serialize == Names({"OWNER", "PLATFORM", "ENDORSEMENT", "NULL"})
ifapi_json_TPMI_RH_NV_INDEX_serialize == NvIndex

\* A bug: the list of the writer lacks an algorithm.
HashesWithoutSm3 == In("TPM2_ALG_ID", {"SHA1", "SHA256", "SHA384", "SHA512", "NULL"})
ifapi_json_TPMI_ALG_HASH_serialize ==
    In("TPM2_ALG_ID", {"SHA1", "SHA256", "SHA384", "SHA512", "SM3_256", "NULL"})
ifapi_json_TPMI_ALG_SYM_OBJECT_serialize ==
    In("TPM2_ALG_ID", {"AES", "CAMELLIA", "SM4", "NULL"})
ifapi_json_TPMI_ALG_SYM_MODE_serialize ==
    In("TPM2_ALG_ID", {"CTR", "OFB", "CBC", "CFB", "ECB", "NULL"})
ifapi_json_TPMI_ALG_CIPHER_MODE_serialize ==
    In("TPM2_ALG_ID", {"CTR", "OFB", "CBC", "CFB", "ECB", "NULL"})
ifapi_json_TPMI_ALG_KDF_serialize ==
    In("TPM2_ALG_ID", {"MGF1", "KDF1_SP800_56A", "KDF1_SP800_108", "NULL"})
ifapi_json_TPMI_ALG_SIG_SCHEME_serialize ==
    In("TPM2_ALG_ID", {"RSASSA", "RSAPSS", "ECDSA", "ECDAA", "SM2", "ECSCHNORR", "HMAC",
        "NULL"})
ifapi_json_TPMU_HA_serialize ==
    Arms([SHA1 |-> "Digest", SHA256 |-> "Digest", SHA384 |-> "Digest", SHA512 |-> "Digest",
        SM3_256 |-> "Digest"])
ifapi_json_TPMT_HA_serialize ==
    Object(<<Sel("hashAlg", "TPMI_ALG_HASH"), Unless({"NULL"}, Arm("digest", "TPMU_HA"))>>,
        NoLimit)
ifapi_json_TPM2B_DIGEST_serialize == Bytes(64)
ifapi_json_TPM2B_DATA_serialize == Bytes(64)
ifapi_json_TPM2B_NONCE_serialize == Alias("TPM2B_DIGEST")
ifapi_json_TPM2B_OPERAND_serialize == Alias("TPM2B_DIGEST")
ifapi_json_TPM2B_EVENT_serialize == Bytes(1024)
ifapi_json_TPM2B_MAX_NV_BUFFER_serialize == Bytes(2048)
ifapi_json_TPM2B_NAME_serialize == Bytes(68)
ifapi_json_TPMT_TK_CREATION_serialize ==
    Object(<<SelIs("tag", "TPM2_ST", {"CREATION"}), F("hierarchy", "TPMI_RH_HIERARCHY"),
        F("digest", "TPM2B_DIGEST")>>, NoLimit)
ifapi_json_TPMS_ALG_PROPERTY_serialize ==
    Object(<<Unless({"SHA3_256", "SHA3_384", "SHA3_512"}, Sel("alg", "TPM2_ALG_ID")),
        F("algProperties", "TPMA_ALGORITHM")>>, NoLimit)
ifapi_json_TPMS_TAGGED_PROPERTY_serialize ==
    Object(<<F("property", "TPM2_PT"), F("value", "UINT32")>>, NoLimit)
ifapi_json_TPML_CC_serialize == List("TPM2_CC", 256)
ifapi_json_TPML_CCA_serialize == List("TPMA_CC", 256)
ifapi_json_TPML_HANDLE_serialize == List("TPM2_HANDLE", 254)
ifapi_json_TPML_DIGEST_VALUES_serialize == List("TPMT_HA", 16)
ifapi_json_TPML_PCR_SELECTION_serialize == List("TPMS_PCR_SELECTION", 16)
ifapi_json_TPML_ALG_PROPERTY_serialize == List("TPMS_ALG_PROPERTY", 127)
ifapi_json_TPML_TAGGED_TPM_PROPERTY_serialize == List("TPMS_TAGGED_PROPERTY", 127)
ifapi_json_TPML_TAGGED_PCR_PROPERTY_serialize == List("TPMS_TAGGED_PCR_SELECT", 84)
ifapi_json_TPML_ECC_CURVE_serialize == List("TPM2_ECC_CURVE", 508)
ifapi_json_TPML_TAGGED_POLICY_serialize == List("TPMS_TAGGED_POLICY", 14)
ifapi_json_TPML_ACT_DATA_serialize == List("TPMS_ACT_DATA", 84)
ifapi_json_TPMU_CAPABILITIES_serialize ==
    Arms([ALGS |-> "TPML_ALG_PROPERTY", HANDLES |-> "TPML_HANDLE", COMMANDS |-> "TPML_CCA",
        PP_COMMANDS |-> "TPML_CC", AUDIT_COMMANDS |-> "TPML_CC",
        PCRS |-> "TPML_PCR_SELECTION", TPM_PROPERTIES |-> "TPML_TAGGED_TPM_PROPERTY",
        PCR_PROPERTIES |-> "TPML_TAGGED_PCR_PROPERTY", ECC_CURVES |-> "TPML_ECC_CURVE",
        AUTH_POLICIES |-> "TPML_TAGGED_POLICY", ACT |-> "TPML_ACT_DATA"])
ifapi_json_TPMS_CAPABILITY_DATA_serialize ==
    Object(<<Sel("capability", "TPM2_CAP"), Arm("data", "TPMU_CAPABILITIES")>>, NoLimit)
ifapi_json_TPMS_CLOCK_INFO_serialize ==
    Object(<<F("clock", "UINT64"), F("resetCount", "UINT32"), F("restartCount", "UINT32"),
        F("safe", "TPMI_YES_NO")>>, NoLimit)
ifapi_json_TPMS_TIME_INFO_serialize ==
    Object(<<F("time", "UINT64"), F("clockInfo", "TPMS_CLOCK_INFO")>>, NoLimit)
ifapi_json_TPMS_TIME_ATTEST_INFO_serialize ==
    Object(<<F("time", "TPMS_TIME_INFO"), F("firmwareVersion", "UINT64")>>, NoLimit)
ifapi_json_TPMS_CERTIFY_INFO_serialize ==
    Object(<<F("name", "TPM2B_NAME"), F("qualifiedName", "TPM2B_NAME")>>, NoLimit)
ifapi_json_TPMS_QUOTE_INFO_serialize ==
    Object(<<F("pcrSelect", "TPML_PCR_SELECTION"), F("pcrDigest", "TPM2B_DIGEST")>>, NoLimit)
ifapi_json_TPMS_COMMAND_AUDIT_INFO_serialize ==
    Object(<<F("auditCounter", "UINT64"), F("digestAlg", "TPM2_ALG_ID"), F("auditDigest",
        "TPM2B_DIGEST"), F("commandDigest", "TPM2B_DIGEST")>>, NoLimit)
ifapi_json_TPMS_SESSION_AUDIT_INFO_serialize ==
    Object(<<F("exclusiveSession", "TPMI_YES_NO"), F("sessionDigest", "TPM2B_DIGEST")>>,
        NoLimit)
ifapi_json_TPMS_CREATION_INFO_serialize ==
    Object(<<F("objectName", "TPM2B_NAME"), F("creationHash", "TPM2B_DIGEST")>>, NoLimit)
ifapi_json_TPMS_NV_CERTIFY_INFO_serialize ==
    Object(<<F("indexName", "TPM2B_NAME"), F("offset", "UINT16"), F("nvContents",
        "TPM2B_MAX_NV_BUFFER")>>, NoLimit)
ifapi_json_TPMI_ST_ATTEST_serialize ==
    In("TPM2_ST", {"ATTEST_CERTIFY", "ATTEST_QUOTE", "ATTEST_SESSION_AUDIT",
        "ATTEST_COMMAND_AUDIT", "ATTEST_TIME", "ATTEST_CREATION", "ATTEST_NV"})

\* A bug: a case of the union is missing.
AttestWithoutNv ==
    Arms([ATTEST_CERTIFY |-> "TPMS_CERTIFY_INFO", ATTEST_CREATION |-> "TPMS_CREATION_INFO",
        ATTEST_QUOTE |-> "TPMS_QUOTE_INFO",
        ATTEST_COMMAND_AUDIT |-> "TPMS_COMMAND_AUDIT_INFO",
        ATTEST_SESSION_AUDIT |-> "TPMS_SESSION_AUDIT_INFO",
        ATTEST_TIME |-> "TPMS_TIME_ATTEST_INFO"])
ifapi_json_TPMU_ATTEST_serialize ==
    Arms([ATTEST_CERTIFY |-> "TPMS_CERTIFY_INFO", ATTEST_CREATION |-> "TPMS_CREATION_INFO",
        ATTEST_QUOTE |-> "TPMS_QUOTE_INFO",
        ATTEST_COMMAND_AUDIT |-> "TPMS_COMMAND_AUDIT_INFO",
        ATTEST_SESSION_AUDIT |-> "TPMS_SESSION_AUDIT_INFO",
        ATTEST_TIME |-> "TPMS_TIME_ATTEST_INFO", ATTEST_NV |-> "TPMS_NV_CERTIFY_INFO"])
ifapi_json_TPMS_ATTEST_serialize ==
    Object(<<F("magic", "TPM2_GENERATED"), Sel("type", "TPMI_ST_ATTEST"),
        F("qualifiedSigner", "TPM2B_NAME"), F("extraData", "TPM2B_DATA"), F("clockInfo",
        "TPMS_CLOCK_INFO"), F("firmwareVersion", "UINT64"), Arm("attested", "TPMU_ATTEST")>>,
        NoLimit)
ifapi_json_TPMI_SM4_KEY_BITS_serialize == In("UINT16", {"128"})
ifapi_json_TPMI_CAMELLIA_KEY_BITS_serialize == In("UINT16", {"128", "192", "256"})
ifapi_json_TPMI_AES_KEY_BITS_serialize == In("UINT16", {"128", "192", "256"})
ifapi_json_TPMU_SYM_KEY_BITS_serialize ==
    Arms([AES |-> "TPMI_AES_KEY_BITS", SM4 |-> "TPMI_SM4_KEY_BITS",
        CAMELLIA |-> "TPMI_CAMELLIA_KEY_BITS", XOR |-> "TPMI_ALG_HASH"])
ifapi_json_TPMU_SYM_MODE_serialize ==
    Arms([CAMELLIA |-> "TPMI_ALG_SYM_MODE", SM4 |-> "TPMI_ALG_SYM_MODE",
        AES |-> "TPMI_ALG_SYM_MODE"])
ifapi_json_TPMT_SYM_DEF_OBJECT_serialize ==
    Object(<<Sel("algorithm", "TPMI_ALG_SYM_OBJECT"), Unless({"NULL"}, Arm("keyBits",
        "TPMU_SYM_KEY_BITS")), Unless({"NULL"}, Arm("mode", "TPMU_SYM_MODE"))>>, NoLimit)
ifapi_json_TPMS_SYMCIPHER_PARMS_serialize ==
    Object(<<F("sym", "TPMT_SYM_DEF_OBJECT")>>, NoLimit)
ifapi_json_TPMS_SCHEME_HASH_serialize == Object(<<F("hashAlg", "TPMI_ALG_HASH")>>, NoLimit)
ifapi_json_TPMS_SCHEME_ECDAA_serialize ==
    Object(<<F("hashAlg", "TPMI_ALG_HASH"), F("count", "UINT16")>>, NoLimit)
ifapi_json_TPMI_ALG_KEYEDHASH_SCHEME_serialize == In("TPM2_ALG_ID", {"HMAC", "XOR", "NULL"})
ifapi_json_TPMS_SCHEME_HMAC_serialize == Alias("TPMS_SCHEME_HASH")
ifapi_json_TPMS_SCHEME_XOR_serialize ==
    Object(<<F("hashAlg", "TPMI_ALG_HASH"), F("kdf", "TPMI_ALG_KDF")>>, NoLimit)
ifapi_json_TPMU_SCHEME_KEYEDHASH_serialize ==
    Arms([HMAC |-> "TPMS_SCHEME_HMAC", XOR |-> "TPMS_SCHEME_XOR"])
ifapi_json_TPMT_KEYEDHASH_SCHEME_serialize ==
    Object(<<Sel("scheme", "TPMI_ALG_KEYEDHASH_SCHEME"), Unless({"NULL"}, Arm("details",
        "TPMU_SCHEME_KEYEDHASH"))>>, NoLimit)
ifapi_json_TPMS_SIG_SCHEME_RSASSA_serialize == Alias("TPMS_SCHEME_HASH")
ifapi_json_TPMS_SIG_SCHEME_RSAPSS_serialize == Alias("TPMS_SCHEME_HASH")
ifapi_json_TPMS_SIG_SCHEME_ECDSA_serialize == Alias("TPMS_SCHEME_HASH")
ifapi_json_TPMS_SIG_SCHEME_SM2_serialize == Alias("TPMS_SCHEME_HASH")
ifapi_json_TPMS_SIG_SCHEME_ECSCHNORR_serialize == Alias("TPMS_SCHEME_HASH")
ifapi_json_TPMS_SIG_SCHEME_ECDAA_serialize == Alias("TPMS_SCHEME_ECDAA")
ifapi_json_TPMU_SIG_SCHEME_serialize ==
    Arms([RSASSA |-> "TPMS_SIG_SCHEME_RSASSA", RSAPSS |-> "TPMS_SIG_SCHEME_RSAPSS",
        ECDSA |-> "TPMS_SIG_SCHEME_ECDSA", ECDAA |-> "TPMS_SIG_SCHEME_ECDAA",
        SM2 |-> "TPMS_SIG_SCHEME_SM2", ECSCHNORR |-> "TPMS_SIG_SCHEME_ECSCHNORR",
        HMAC |-> "TPMS_SCHEME_HMAC"])
ifapi_json_TPMT_SIG_SCHEME_serialize ==
    Object(<<Sel("scheme", "TPMI_ALG_SIG_SCHEME"), Unless({"NULL"}, Arm("details",
        "TPMU_SIG_SCHEME"))>>, NoLimit)
ifapi_json_TPMS_ENC_SCHEME_OAEP_serialize == Alias("TPMS_SCHEME_HASH")
ifapi_json_TPMS_ENC_SCHEME_RSAES_serialize == Alias("TPMS_EMPTY")
ifapi_json_TPMS_KEY_SCHEME_ECDH_serialize == Alias("TPMS_SCHEME_HASH")
ifapi_json_TPMS_SCHEME_MGF1_serialize == Alias("TPMS_SCHEME_HASH")
ifapi_json_TPMS_SCHEME_KDF1_SP800_56A_serialize == Alias("TPMS_SCHEME_HASH")
ifapi_json_TPMS_SCHEME_KDF1_SP800_108_serialize == Alias("TPMS_SCHEME_HASH")
ifapi_json_TPMU_KDF_SCHEME_serialize ==
    Arms([MGF1 |-> "TPMS_SCHEME_MGF1", KDF1_SP800_56A |-> "TPMS_SCHEME_KDF1_SP800_56A",
        KDF1_SP800_108 |-> "TPMS_SCHEME_KDF1_SP800_108"])
ifapi_json_TPMT_KDF_SCHEME_serialize ==
    Object(<<Sel("scheme", "TPMI_ALG_KDF"), Unless({"NULL"}, Arm("details",
        "TPMU_KDF_SCHEME"))>>, NoLimit)
ifapi_json_TPMI_ALG_ASYM_SCHEME_serialize ==
    In("TPM2_ALG_ID", {"ECDH", "RSASSA", "RSAPSS", "ECDSA", "ECDAA", "SM2", "ECSCHNORR",
        "RSAES", "OAEP", "NULL"})
ifapi_json_TPMU_ASYM_SCHEME_serialize ==
    Arms([ECDH |-> "TPMS_KEY_SCHEME_ECDH", RSASSA |-> "TPMS_SIG_SCHEME_RSASSA",
        RSAPSS |-> "TPMS_SIG_SCHEME_RSAPSS", ECDSA |-> "TPMS_SIG_SCHEME_ECDSA",
        ECDAA |-> "TPMS_SIG_SCHEME_ECDAA", SM2 |-> "TPMS_SIG_SCHEME_SM2",
        ECSCHNORR |-> "TPMS_SIG_SCHEME_ECSCHNORR", RSAES |-> "TPMS_ENC_SCHEME_RSAES",
        OAEP |-> "TPMS_ENC_SCHEME_OAEP", MLDSA |-> "TPMS_SCHEME_HASH"])
ifapi_json_TPMI_ALG_RSA_SCHEME_serialize ==
    In("TPM2_ALG_ID", {"RSAES", "OAEP", "RSASSA", "RSAPSS", "NULL"})
ifapi_json_TPMT_RSA_SCHEME_serialize ==
    Object(<<Sel("scheme", "TPMI_ALG_RSA_SCHEME"), Unless({"NULL"}, Arm("details",
        "TPMU_ASYM_SCHEME"))>>, NoLimit)
ifapi_json_TPM2B_PUBLIC_KEY_RSA_serialize == Bytes(512)
ifapi_json_TPMI_RSA_KEY_BITS_serialize == In("UINT16", {"1024", "2048", "3072", "4096"})
ifapi_json_TPM2B_ECC_PARAMETER_serialize == Bytes(128)
ifapi_json_TPMS_ECC_POINT_serialize ==
    Object(<<F("x", "TPM2B_ECC_PARAMETER"), F("y", "TPM2B_ECC_PARAMETER")>>, NoLimit)
ifapi_json_TPMI_ALG_ECC_SCHEME_serialize ==
    In("TPM2_ALG_ID", {"ECDSA", "ECDAA", "SM2", "ECSCHNORR", "ECDH", "NULL"})
ifapi_json_TPMI_ECC_CURVE_serialize == Alias("TPM2_ECC_CURVE")
ifapi_json_TPMT_ECC_SCHEME_serialize ==
    Object(<<Sel("scheme", "TPMI_ALG_ECC_SCHEME"), Unless({"NULL"}, Arm("details",
        "TPMU_ASYM_SCHEME"))>>, NoLimit)
ifapi_json_TPMS_SIGNATURE_RSA_serialize ==
    Object(<<F("hash", "TPMI_ALG_HASH"), F("sig", "TPM2B_PUBLIC_KEY_RSA")>>, NoLimit)
ifapi_json_TPMS_SIGNATURE_RSASSA_serialize == Alias("TPMS_SIGNATURE_RSA")
ifapi_json_TPMS_SIGNATURE_RSAPSS_serialize == Alias("TPMS_SIGNATURE_RSA")
ifapi_json_TPMS_SIGNATURE_ECC_serialize ==
    Object(<<F("hash", "TPMI_ALG_HASH"), F("signatureR", "TPM2B_ECC_PARAMETER"),
        F("signatureS", "TPM2B_ECC_PARAMETER")>>, NoLimit)
ifapi_json_TPMS_SIGNATURE_ECDSA_serialize == Alias("TPMS_SIGNATURE_ECC")
ifapi_json_TPMS_SIGNATURE_ECDAA_serialize == Alias("TPMS_SIGNATURE_ECC")
ifapi_json_TPMS_SIGNATURE_SM2_serialize == Alias("TPMS_SIGNATURE_ECC")
ifapi_json_TPMS_SIGNATURE_ECSCHNORR_serialize == Alias("TPMS_SIGNATURE_ECC")
ifapi_json_TPM2B_MLDSA_SIGNATURE_serialize == Bytes(4627)
ifapi_json_TPMS_SIGNATURE_MLDSA_serialize ==
    Object(<<F("hash", "TPMI_ALG_HASH"), F("sig", "TPM2B_MLDSA_SIGNATURE")>>, NoLimit)
ifapi_json_TPM2B_MLDSA_PUBLIC_KEY_serialize == Bytes(2592)
ifapi_json_TPM2B_MLKEM_PUBLIC_KEY_serialize == Bytes(1568)
ifapi_json_TPMS_ML_PARAMETER_SET_serialize == Object(<<F("identifier", "UINT32")>>, NoLimit)
ifapi_json_TPMS_MLDSA_PARMS_serialize ==
    Object(<<F("nameAlg", "TPMI_ALG_HASH"), F("parameterSet", "TPMS_ML_PARAMETER_SET")>>,
        NoLimit)
ifapi_json_TPMS_MLKEM_PARMS_serialize ==
    Object(<<F("nameAlg", "TPMI_ALG_HASH"), F("parameterSet", "TPMS_ML_PARAMETER_SET")>>,
        NoLimit)
ifapi_json_TPMU_SIGNATURE_serialize ==
    Arms([RSASSA |-> "TPMS_SIGNATURE_RSASSA", RSAPSS |-> "TPMS_SIGNATURE_RSAPSS",
        ECDSA |-> "TPMS_SIGNATURE_ECDSA", ECDAA |-> "TPMS_SIGNATURE_ECDAA",
        SM2 |-> "TPMS_SIGNATURE_SM2", ECSCHNORR |-> "TPMS_SIGNATURE_ECSCHNORR",
        HMAC |-> "TPMT_HA", MLDSA |-> "TPMS_SIGNATURE_MLDSA"])
ifapi_json_TPMT_SIGNATURE_serialize ==
    Object(<<Sel("sigAlg", "TPMI_ALG_SIG_SCHEME"), Unless({"NULL"}, Arm("signature",
        "TPMU_SIGNATURE"))>>, NoLimit)
ifapi_json_TPM2B_ENCRYPTED_SECRET_serialize == Bytes(1568)
ifapi_json_TPMI_ALG_PUBLIC_serialize ==
    In("TPM2_ALG_ID", {"RSA", "KEYEDHASH", "ECC", "SYMCIPHER", "NULL"})
ifapi_json_TPMU_PUBLIC_ID_serialize ==
    Arms([KEYEDHASH |-> "TPM2B_DIGEST", SYMCIPHER |-> "TPM2B_DIGEST",
        RSA |-> "TPM2B_PUBLIC_KEY_RSA", ECC |-> "TPMS_ECC_POINT",
        MLDSA |-> "TPM2B_MLDSA_PUBLIC_KEY", MLKEM |-> "TPM2B_MLKEM_PUBLIC_KEY"])
ifapi_json_TPMS_KEYEDHASH_PARMS_serialize ==
    Object(<<F("scheme", "TPMT_KEYEDHASH_SCHEME")>>, NoLimit)
ifapi_json_TPMS_RSA_PARMS_serialize ==
    Object(<<F("symmetric", "TPMT_SYM_DEF_OBJECT"), F("scheme", "TPMT_RSA_SCHEME"),
        F("keyBits", "TPMI_RSA_KEY_BITS"), F("exponent", "UINT32")>>, NoLimit)
ifapi_json_TPMS_ECC_PARMS_serialize ==
    Object(<<F("symmetric", "TPMT_SYM_DEF_OBJECT"), F("scheme", "TPMT_ECC_SCHEME"),
        F("curveID", "TPMI_ECC_CURVE"), F("kdf", "TPMT_KDF_SCHEME")>>, NoLimit)
ifapi_json_TPMU_PUBLIC_PARMS_serialize ==
    Arms([KEYEDHASH |-> "TPMS_KEYEDHASH_PARMS", SYMCIPHER |-> "TPMS_SYMCIPHER_PARMS",
        RSA |-> "TPMS_RSA_PARMS", ECC |-> "TPMS_ECC_PARMS", MLDSA |-> "TPMS_MLDSA_PARMS",
        MLKEM |-> "TPMS_MLKEM_PARMS"])
ifapi_json_TPMT_PUBLIC_serialize ==
    Object(<<Sel("type", "TPMI_ALG_PUBLIC"), F("nameAlg", "TPMI_ALG_HASH"),
        F("objectAttributes", "TPMA_OBJECT"), F("authPolicy", "TPM2B_DIGEST"),
        Arm("parameters", "TPMU_PUBLIC_PARMS"), Arm("unique", "TPMU_PUBLIC_ID")>>, NoLimit)
ifapi_json_TPM2B_PUBLIC_serialize ==
    Object(<<F("size", "UINT16"), F("publicArea", "TPMT_PUBLIC")>>, NoLimit)
ifapi_json_TPM2B_PRIVATE_serialize == Bytes(1550)
ifapi_json_TPM2_NT_serialize == Names(NvTypes)
ifapi_json_TPMA_NV_serialize == Flags(NvAttributes \cup {"TPM2_NT"})
ifapi_json_TPMS_NV_PUBLIC_serialize ==
    Object(<<F("nvIndex", "TPMI_RH_NV_INDEX"), F("nameAlg", "TPMI_ALG_HASH"), F("attributes",
        "TPMA_NV"), F("authPolicy", "TPM2B_DIGEST"), F("dataSize", "UINT16")>>, NoLimit)
ifapi_json_TPM2B_NV_PUBLIC_serialize ==
    Object(<<F("size", "UINT16"), F("nvPublic", "TPMS_NV_PUBLIC")>>, NoLimit)
ifapi_json_TPMS_CREATION_DATA_serialize ==
    Object(<<F("pcrSelect", "TPML_PCR_SELECTION"), F("pcrDigest", "TPM2B_DIGEST"),
        F("locality", "TPMA_LOCALITY"), F("parentNameAlg", "TPM2_ALG_ID"), F("parentName",
        "TPM2B_NAME"), F("parentQualifiedName", "TPM2B_NAME"), F("outsideInfo",
        "TPM2B_DATA")>>, NoLimit)
ifapi_json_TPM2B_CREATION_DATA_serialize ==
    Object(<<F("size", "UINT16"), F("creationData", "TPMS_CREATION_DATA")>>, NoLimit)

\* By type.
TpmWriter ==
    [TPMS_EMPTY |-> ifapi_json_TPMS_EMPTY_serialize,
     pcr_select |-> ifapi_json_pcr_select_serialize,
     TPMS_PCR_SELECT |-> ifapi_json_TPMS_PCR_SELECT_serialize,
     TPMS_PCR_SELECTION |-> ifapi_json_TPMS_PCR_SELECTION_serialize,
     TPMS_TAGGED_PCR_SELECT |-> ifapi_json_TPMS_TAGGED_PCR_SELECT_serialize,
     TPMS_TAGGED_POLICY |-> ifapi_json_TPMS_TAGGED_POLICY_serialize,
     TPMS_ACT_DATA |-> ifapi_json_TPMS_ACT_DATA_serialize,
     UINT16 |-> ifapi_json_UINT16_serialize, UINT32 |-> ifapi_json_UINT32_serialize,
     INT32 |-> ifapi_json_INT32_serialize, UINT64 |-> ifapi_json_UINT64_serialize,
     TPM2_GENERATED |-> ifapi_json_TPM2_GENERATED_serialize,
     TPM2_ALG_ID |-> ifapi_json_TPM2_ALG_ID_serialize,
     TPM2_ECC_CURVE |-> ifapi_json_TPM2_ECC_CURVE_serialize,
     TPM2_CC |-> ifapi_json_TPM2_CC_serialize, TPM2_EO |-> ifapi_json_TPM2_EO_serialize,
     TPM2_ST |-> ifapi_json_TPM2_ST_serialize, TPM2_CAP |-> ifapi_json_TPM2_CAP_serialize,
     TPM2_PT |-> ifapi_json_TPM2_PT_serialize, TPM2_PT_PCR |-> ifapi_json_TPM2_PT_PCR_serialize,
     TPM2_HANDLE |-> ifapi_json_TPM2_HANDLE_serialize,
     TPMA_ALGORITHM |-> ifapi_json_TPMA_ALGORITHM_serialize,
     TPMA_OBJECT |-> ifapi_json_TPMA_OBJECT_serialize,
     TPMA_LOCALITY |-> ifapi_json_TPMA_LOCALITY_serialize,
     TPMA_CC |-> ifapi_json_TPMA_CC_serialize, TPMA_ACT |-> ifapi_json_TPMA_ACT_serialize,
     TPMI_YES_NO |-> ifapi_json_TPMI_YES_NO_serialize,
     TPMI_RH_HIERARCHY |-> ifapi_json_TPMI_RH_HIERARCHY_serialize,
     TPMI_RH_NV_INDEX |-> ifapi_json_TPMI_RH_NV_INDEX_serialize,
     TPMI_ALG_HASH |-> ifapi_json_TPMI_ALG_HASH_serialize,
     TPMI_ALG_SYM_OBJECT |-> ifapi_json_TPMI_ALG_SYM_OBJECT_serialize,
     TPMI_ALG_SYM_MODE |-> ifapi_json_TPMI_ALG_SYM_MODE_serialize,
     TPMI_ALG_CIPHER_MODE |-> ifapi_json_TPMI_ALG_CIPHER_MODE_serialize,
     TPMI_ALG_KDF |-> ifapi_json_TPMI_ALG_KDF_serialize,
     TPMI_ALG_SIG_SCHEME |-> ifapi_json_TPMI_ALG_SIG_SCHEME_serialize,
     TPMU_HA |-> ifapi_json_TPMU_HA_serialize, TPMT_HA |-> ifapi_json_TPMT_HA_serialize,
     TPM2B_DIGEST |-> ifapi_json_TPM2B_DIGEST_serialize,
     TPM2B_DATA |-> ifapi_json_TPM2B_DATA_serialize,
     TPM2B_NONCE |-> ifapi_json_TPM2B_NONCE_serialize,
     TPM2B_OPERAND |-> ifapi_json_TPM2B_OPERAND_serialize,
     TPM2B_EVENT |-> ifapi_json_TPM2B_EVENT_serialize,
     TPM2B_MAX_NV_BUFFER |-> ifapi_json_TPM2B_MAX_NV_BUFFER_serialize,
     TPM2B_NAME |-> ifapi_json_TPM2B_NAME_serialize,
     TPMT_TK_CREATION |-> ifapi_json_TPMT_TK_CREATION_serialize,
     TPMS_ALG_PROPERTY |-> ifapi_json_TPMS_ALG_PROPERTY_serialize,
     TPMS_TAGGED_PROPERTY |-> ifapi_json_TPMS_TAGGED_PROPERTY_serialize,
     TPML_CC |-> ifapi_json_TPML_CC_serialize, TPML_CCA |-> ifapi_json_TPML_CCA_serialize,
     TPML_HANDLE |-> ifapi_json_TPML_HANDLE_serialize,
     TPML_DIGEST_VALUES |-> ifapi_json_TPML_DIGEST_VALUES_serialize,
     TPML_PCR_SELECTION |-> ifapi_json_TPML_PCR_SELECTION_serialize,
     TPML_ALG_PROPERTY |-> ifapi_json_TPML_ALG_PROPERTY_serialize,
     TPML_TAGGED_TPM_PROPERTY |-> ifapi_json_TPML_TAGGED_TPM_PROPERTY_serialize,
     TPML_TAGGED_PCR_PROPERTY |-> ifapi_json_TPML_TAGGED_PCR_PROPERTY_serialize,
     TPML_ECC_CURVE |-> ifapi_json_TPML_ECC_CURVE_serialize,
     TPML_TAGGED_POLICY |-> ifapi_json_TPML_TAGGED_POLICY_serialize,
     TPML_ACT_DATA |-> ifapi_json_TPML_ACT_DATA_serialize,
     TPMU_CAPABILITIES |-> ifapi_json_TPMU_CAPABILITIES_serialize,
     TPMS_CAPABILITY_DATA |-> ifapi_json_TPMS_CAPABILITY_DATA_serialize,
     TPMS_CLOCK_INFO |-> ifapi_json_TPMS_CLOCK_INFO_serialize,
     TPMS_TIME_INFO |-> ifapi_json_TPMS_TIME_INFO_serialize,
     TPMS_TIME_ATTEST_INFO |-> ifapi_json_TPMS_TIME_ATTEST_INFO_serialize,
     TPMS_CERTIFY_INFO |-> ifapi_json_TPMS_CERTIFY_INFO_serialize,
     TPMS_QUOTE_INFO |-> ifapi_json_TPMS_QUOTE_INFO_serialize,
     TPMS_COMMAND_AUDIT_INFO |-> ifapi_json_TPMS_COMMAND_AUDIT_INFO_serialize,
     TPMS_SESSION_AUDIT_INFO |-> ifapi_json_TPMS_SESSION_AUDIT_INFO_serialize,
     TPMS_CREATION_INFO |-> ifapi_json_TPMS_CREATION_INFO_serialize,
     TPMS_NV_CERTIFY_INFO |-> ifapi_json_TPMS_NV_CERTIFY_INFO_serialize,
     TPMI_ST_ATTEST |-> ifapi_json_TPMI_ST_ATTEST_serialize,
     TPMU_ATTEST |-> ifapi_json_TPMU_ATTEST_serialize,
     TPMS_ATTEST |-> ifapi_json_TPMS_ATTEST_serialize,
     TPMI_SM4_KEY_BITS |-> ifapi_json_TPMI_SM4_KEY_BITS_serialize,
     TPMI_CAMELLIA_KEY_BITS |-> ifapi_json_TPMI_CAMELLIA_KEY_BITS_serialize,
     TPMI_AES_KEY_BITS |-> ifapi_json_TPMI_AES_KEY_BITS_serialize,
     TPMU_SYM_KEY_BITS |-> ifapi_json_TPMU_SYM_KEY_BITS_serialize,
     TPMU_SYM_MODE |-> ifapi_json_TPMU_SYM_MODE_serialize,
     TPMT_SYM_DEF_OBJECT |-> ifapi_json_TPMT_SYM_DEF_OBJECT_serialize,
     TPMS_SYMCIPHER_PARMS |-> ifapi_json_TPMS_SYMCIPHER_PARMS_serialize,
     TPMS_SCHEME_HASH |-> ifapi_json_TPMS_SCHEME_HASH_serialize,
     TPMS_SCHEME_ECDAA |-> ifapi_json_TPMS_SCHEME_ECDAA_serialize,
     TPMI_ALG_KEYEDHASH_SCHEME |-> ifapi_json_TPMI_ALG_KEYEDHASH_SCHEME_serialize,
     TPMS_SCHEME_HMAC |-> ifapi_json_TPMS_SCHEME_HMAC_serialize,
     TPMS_SCHEME_XOR |-> ifapi_json_TPMS_SCHEME_XOR_serialize,
     TPMU_SCHEME_KEYEDHASH |-> ifapi_json_TPMU_SCHEME_KEYEDHASH_serialize,
     TPMT_KEYEDHASH_SCHEME |-> ifapi_json_TPMT_KEYEDHASH_SCHEME_serialize,
     TPMS_SIG_SCHEME_RSASSA |-> ifapi_json_TPMS_SIG_SCHEME_RSASSA_serialize,
     TPMS_SIG_SCHEME_RSAPSS |-> ifapi_json_TPMS_SIG_SCHEME_RSAPSS_serialize,
     TPMS_SIG_SCHEME_ECDSA |-> ifapi_json_TPMS_SIG_SCHEME_ECDSA_serialize,
     TPMS_SIG_SCHEME_SM2 |-> ifapi_json_TPMS_SIG_SCHEME_SM2_serialize,
     TPMS_SIG_SCHEME_ECSCHNORR |-> ifapi_json_TPMS_SIG_SCHEME_ECSCHNORR_serialize,
     TPMS_SIG_SCHEME_ECDAA |-> ifapi_json_TPMS_SIG_SCHEME_ECDAA_serialize,
     TPMU_SIG_SCHEME |-> ifapi_json_TPMU_SIG_SCHEME_serialize,
     TPMT_SIG_SCHEME |-> ifapi_json_TPMT_SIG_SCHEME_serialize,
     TPMS_ENC_SCHEME_OAEP |-> ifapi_json_TPMS_ENC_SCHEME_OAEP_serialize,
     TPMS_ENC_SCHEME_RSAES |-> ifapi_json_TPMS_ENC_SCHEME_RSAES_serialize,
     TPMS_KEY_SCHEME_ECDH |-> ifapi_json_TPMS_KEY_SCHEME_ECDH_serialize,
     TPMS_SCHEME_MGF1 |-> ifapi_json_TPMS_SCHEME_MGF1_serialize,
     TPMS_SCHEME_KDF1_SP800_56A |-> ifapi_json_TPMS_SCHEME_KDF1_SP800_56A_serialize,
     TPMS_SCHEME_KDF1_SP800_108 |-> ifapi_json_TPMS_SCHEME_KDF1_SP800_108_serialize,
     TPMU_KDF_SCHEME |-> ifapi_json_TPMU_KDF_SCHEME_serialize,
     TPMT_KDF_SCHEME |-> ifapi_json_TPMT_KDF_SCHEME_serialize,
     TPMI_ALG_ASYM_SCHEME |-> ifapi_json_TPMI_ALG_ASYM_SCHEME_serialize,
     TPMU_ASYM_SCHEME |-> ifapi_json_TPMU_ASYM_SCHEME_serialize,
     TPMI_ALG_RSA_SCHEME |-> ifapi_json_TPMI_ALG_RSA_SCHEME_serialize,
     TPMT_RSA_SCHEME |-> ifapi_json_TPMT_RSA_SCHEME_serialize,
     TPM2B_PUBLIC_KEY_RSA |-> ifapi_json_TPM2B_PUBLIC_KEY_RSA_serialize,
     TPMI_RSA_KEY_BITS |-> ifapi_json_TPMI_RSA_KEY_BITS_serialize,
     TPM2B_ECC_PARAMETER |-> ifapi_json_TPM2B_ECC_PARAMETER_serialize,
     TPMS_ECC_POINT |-> ifapi_json_TPMS_ECC_POINT_serialize,
     TPMI_ALG_ECC_SCHEME |-> ifapi_json_TPMI_ALG_ECC_SCHEME_serialize,
     TPMI_ECC_CURVE |-> ifapi_json_TPMI_ECC_CURVE_serialize,
     TPMT_ECC_SCHEME |-> ifapi_json_TPMT_ECC_SCHEME_serialize,
     TPMS_SIGNATURE_RSA |-> ifapi_json_TPMS_SIGNATURE_RSA_serialize,
     TPMS_SIGNATURE_RSASSA |-> ifapi_json_TPMS_SIGNATURE_RSASSA_serialize,
     TPMS_SIGNATURE_RSAPSS |-> ifapi_json_TPMS_SIGNATURE_RSAPSS_serialize,
     TPMS_SIGNATURE_ECC |-> ifapi_json_TPMS_SIGNATURE_ECC_serialize,
     TPMS_SIGNATURE_ECDSA |-> ifapi_json_TPMS_SIGNATURE_ECDSA_serialize,
     TPMS_SIGNATURE_ECDAA |-> ifapi_json_TPMS_SIGNATURE_ECDAA_serialize,
     TPMS_SIGNATURE_SM2 |-> ifapi_json_TPMS_SIGNATURE_SM2_serialize,
     TPMS_SIGNATURE_ECSCHNORR |-> ifapi_json_TPMS_SIGNATURE_ECSCHNORR_serialize,
     TPM2B_MLDSA_SIGNATURE |-> ifapi_json_TPM2B_MLDSA_SIGNATURE_serialize,
     TPMS_SIGNATURE_MLDSA |-> ifapi_json_TPMS_SIGNATURE_MLDSA_serialize,
     TPM2B_MLDSA_PUBLIC_KEY |-> ifapi_json_TPM2B_MLDSA_PUBLIC_KEY_serialize,
     TPM2B_MLKEM_PUBLIC_KEY |-> ifapi_json_TPM2B_MLKEM_PUBLIC_KEY_serialize,
     TPMS_ML_PARAMETER_SET |-> ifapi_json_TPMS_ML_PARAMETER_SET_serialize,
     TPMS_MLDSA_PARMS |-> ifapi_json_TPMS_MLDSA_PARMS_serialize,
     TPMS_MLKEM_PARMS |-> ifapi_json_TPMS_MLKEM_PARMS_serialize,
     TPMU_SIGNATURE |-> ifapi_json_TPMU_SIGNATURE_serialize,
     TPMT_SIGNATURE |-> ifapi_json_TPMT_SIGNATURE_serialize,
     TPM2B_ENCRYPTED_SECRET |-> ifapi_json_TPM2B_ENCRYPTED_SECRET_serialize,
     TPMI_ALG_PUBLIC |-> ifapi_json_TPMI_ALG_PUBLIC_serialize,
     TPMU_PUBLIC_ID |-> ifapi_json_TPMU_PUBLIC_ID_serialize,
     TPMS_KEYEDHASH_PARMS |-> ifapi_json_TPMS_KEYEDHASH_PARMS_serialize,
     TPMS_RSA_PARMS |-> ifapi_json_TPMS_RSA_PARMS_serialize,
     TPMS_ECC_PARMS |-> ifapi_json_TPMS_ECC_PARMS_serialize,
     TPMU_PUBLIC_PARMS |-> ifapi_json_TPMU_PUBLIC_PARMS_serialize,
     TPMT_PUBLIC |-> ifapi_json_TPMT_PUBLIC_serialize,
     TPM2B_PUBLIC |-> ifapi_json_TPM2B_PUBLIC_serialize,
     TPM2B_PRIVATE |-> ifapi_json_TPM2B_PRIVATE_serialize,
     TPM2_NT |-> ifapi_json_TPM2_NT_serialize, TPMA_NV |-> ifapi_json_TPMA_NV_serialize,
     TPMS_NV_PUBLIC |-> ifapi_json_TPMS_NV_PUBLIC_serialize,
     TPM2B_NV_PUBLIC |-> ifapi_json_TPM2B_NV_PUBLIC_serialize,
     TPMS_CREATION_DATA |-> ifapi_json_TPMS_CREATION_DATA_serialize,
     TPM2B_CREATION_DATA |-> ifapi_json_TPM2B_CREATION_DATA_serialize]
=============================================================================
