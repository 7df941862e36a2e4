------------------------------- MODULE TpmJsonReader -------------------------------
(***************************************************************************)
(* The readers of the TPM's types, tpm_json_deserialize.c: what is taken from *)
(* the JSON value, and what is an error.                                   *)
(***************************************************************************)
EXTENDS JsonEntry

\* tpm_json_deserialize.c
ifapi_json_TPMS_EMPTY_deserialize == Nothing
ifapi_json_pcr_selection_deserialize == PcrSelect(32, 3)
ifapi_json_UINT8_ARY_deserialize == Bytes(Unbounded)
ifapi_json_TPMS_PCR_SELECT_deserialize == Alias("pcr_select")
ifapi_json_TPMS_PCR_SELECTION_deserialize ==
    Object(<<F("hash", "TPMI_ALG_HASH"), F("pcrSelect", "pcr_select")>>, NoLimit)
ifapi_json_TPMS_TAGGED_POLICY_deserialize ==
    Object(<<F("handle", "TPM2_HANDLE"), F("policyHash", "TPMT_HA")>>, NoLimit)
ifapi_json_TPMS_ACT_DATA_deserialize ==
    Object(<<F("handle", "TPM2_HANDLE"), F("timeout", "UINT32"), F("attributes",
        "TPMA_ACT")>>, NoLimit)
ifapi_json_BYTE_deserialize == Number(1)
ifapi_json_UINT8_deserialize == Number(1)
ifapi_json_UINT16_deserialize == Number(2)
ifapi_json_UINT32_deserialize == Number(4)
ifapi_json_UINT64_deserialize == Number(8)
ifapi_json_TPM2_GENERATED_deserialize == Names({"VALUE"})
ifapi_json_TPM2_ALG_ID_deserialize == Renamed(Algorithms, [SHA |-> "SHA1"])
ifapi_json_TPM2_ECC_CURVE_deserialize == Names(Curves)
ifapi_json_TPM2_CC_deserialize ==
    Renamed(Commands, [FIRST |-> "NV_UndefineSpaceSpecial", LAST |-> "SignSequenceStart"])
ifapi_json_TPM2_EO_deserialize == Names(Operations)
ifapi_json_TPM2_ST_deserialize == Names(Tags)
ifapi_json_TPM2_PT_PCR_deserialize ==
    Renamed(PcrProperties, [FIRST |-> "SAVE", LAST |-> "AUTH"])
ifapi_json_TPM2_HANDLE_deserialize == Handle
ifapi_json_TPMA_OBJECT_deserialize == Flags(ObjectAttributes)
ifapi_json_TPMA_LOCALITY_deserialize == Flags(Localities \cup {"Extended"})
ifapi_json_TPMA_ACT_deserialize == Flags({"SIGNALED", "PRESERVESIGNALED"})
ifapi_json_TPMI_YES_NO_deserialize == Names({"YES", "NO"})
ifapi_json_TPMI_RH_HIERARCHY_deserialize ==
    Names({"OWNER", "PLATFORM", "ENDORSEMENT", "NULL"})
ifapi_json_TPMI_RH_NV_INDEX_deserialize == Alias("TPM2_HANDLE")
ifapi_json_TPMI_ALG_HASH_deserialize ==
    In("TPM2_ALG_ID", {"SHA1", "SHA256", "SHA384", "SHA512", "SM3_256", "NULL"})
ifapi_json_TPMI_ALG_SYM_deserialize ==
    In("TPM2_ALG_ID", {"AES", "CAMELLIA", "SM4", "XOR", "NULL"})
ifapi_json_TPMI_ALG_SYM_OBJECT_deserialize ==
    In("TPM2_ALG_ID", {"AES", "CAMELLIA", "SM4", "NULL"})
ifapi_json_TPMI_ALG_SYM_MODE_deserialize ==
    In("TPM2_ALG_ID", {"CTR", "OFB", "CBC", "CFB", "ECB", "NULL"})
ifapi_json_TPMI_ALG_CIPHER_MODE_deserialize ==
    In("TPM2_ALG_ID", {"CTR", "OFB", "CBC", "CFB", "ECB", "NULL"})
ifapi_json_TPMI_ALG_KDF_deserialize ==
    In("TPM2_ALG_ID", {"MGF1", "KDF1_SP800_56A", "KDF1_SP800_108", "NULL"})
ifapi_json_TPMI_ALG_SIG_SCHEME_deserialize ==
    In("TPM2_ALG_ID", {"RSASSA", "RSAPSS", "ECDSA", "ECDAA", "SM2", "ECSCHNORR", "HMAC",
        "NULL"})
ifapi_json_TPMU_HA_deserialize ==
    Arms([SHA1 |-> "Digest", SHA256 |-> "Digest", SHA384 |-> "Digest", SHA512 |-> "Digest",
        SM3_256 |-> "Digest", NULL |-> "TPMS_EMPTY"])
ifapi_json_TPMT_HA_deserialize ==
    Object(<<Sel("hashAlg", "TPMI_ALG_HASH"), Unless({"NULL"}, Arm("digest", "TPMU_HA"))>>,
        NoLimit)
ifapi_json_TPM2B_DIGEST_deserialize == Bytes(64)
ifapi_json_TPM2B_DATA_deserialize == Bytes(66)
ifapi_json_TPM2B_NONCE_deserialize == Alias("TPM2B_DIGEST")
ifapi_json_TPM2B_OPERAND_deserialize == Alias("TPM2B_DIGEST")
ifapi_json_TPM2B_EVENT_deserialize == Bytes(1024)
ifapi_json_TPM2B_MAX_NV_BUFFER_deserialize == Bytes(2048)
ifapi_json_TPM2B_NAME_deserialize == Bytes(68)
ifapi_json_TPMT_TK_CREATION_deserialize ==
    Object(<<Sel("tag", "TPM2_ST"), F("hierarchy", "TPMI_RH_HIERARCHY"), F("digest",
        "TPM2B_DIGEST")>>, NoLimit)
ifapi_json_TPML_DIGEST_VALUES_deserialize == List("TPMT_HA", 16)
ifapi_json_TPML_PCR_SELECTION_deserialize == List("TPMS_PCR_SELECTION", 16)
ifapi_json_TPMS_CLOCK_INFO_deserialize ==
    Object(<<F("clock", "UINT64"), F("resetCount", "UINT32"), F("restartCount", "UINT32"),
        F("safe", "TPMI_YES_NO")>>, NoLimit)
ifapi_json_TPMS_TIME_INFO_deserialize ==
    Object(<<F("time", "UINT64"), F("clockInfo", "TPMS_CLOCK_INFO")>>, NoLimit)
ifapi_json_TPMS_TIME_ATTEST_INFO_deserialize ==
    Object(<<F("time", "TPMS_TIME_INFO"), F("firmwareVersion", "UINT64")>>, NoLimit)
ifapi_json_TPMS_CERTIFY_INFO_deserialize ==
    Object(<<F("name", "TPM2B_NAME"), F("qualifiedName", "TPM2B_NAME")>>, NoLimit)
ifapi_json_TPMS_QUOTE_INFO_deserialize ==
    Object(<<F("pcrSelect", "TPML_PCR_SELECTION"), F("pcrDigest", "TPM2B_DIGEST")>>, NoLimit)
ifapi_json_TPMS_COMMAND_AUDIT_INFO_deserialize ==
    Object(<<F("auditCounter", "UINT64"), F("digestAlg", "TPM2_ALG_ID"), F("auditDigest",
        "TPM2B_DIGEST"), F("commandDigest", "TPM2B_DIGEST")>>, NoLimit)
ifapi_json_TPMS_SESSION_AUDIT_INFO_deserialize ==
    Object(<<F("exclusiveSession", "TPMI_YES_NO"), F("sessionDigest", "TPM2B_DIGEST")>>,
        NoLimit)
ifapi_json_TPMS_CREATION_INFO_deserialize ==
    Object(<<F("objectName", "TPM2B_NAME"), F("creationHash", "TPM2B_DIGEST")>>, NoLimit)
ifapi_json_TPMS_NV_CERTIFY_INFO_deserialize ==
    Object(<<F("indexName", "TPM2B_NAME"), F("offset", "UINT16"), F("nvContents",
        "TPM2B_MAX_NV_BUFFER")>>, NoLimit)
ifapi_json_TPMI_ST_ATTEST_deserialize ==
    In("TPM2_ST", {"ATTEST_CERTIFY", "ATTEST_QUOTE", "ATTEST_SESSION_AUDIT",
        "ATTEST_COMMAND_AUDIT", "ATTEST_TIME", "ATTEST_CREATION", "ATTEST_NV"})
ifapi_json_TPMU_ATTEST_deserialize ==
    Arms([ATTEST_CERTIFY |-> "TPMS_CERTIFY_INFO", ATTEST_CREATION |-> "TPMS_CREATION_INFO",
        ATTEST_QUOTE |-> "TPMS_QUOTE_INFO",
        ATTEST_COMMAND_AUDIT |-> "TPMS_COMMAND_AUDIT_INFO",
        ATTEST_SESSION_AUDIT |-> "TPMS_SESSION_AUDIT_INFO",
        ATTEST_TIME |-> "TPMS_TIME_ATTEST_INFO", ATTEST_NV |-> "TPMS_NV_CERTIFY_INFO"])
ifapi_json_TPMS_ATTEST_deserialize ==
    Object(<<F("magic", "TPM2_GENERATED"), Sel("type", "TPMI_ST_ATTEST"),
        F("qualifiedSigner", "TPM2B_NAME"), F("extraData", "TPM2B_DATA"), F("clockInfo",
        "TPMS_CLOCK_INFO"), F("firmwareVersion", "UINT64"), Arm("attested", "TPMU_ATTEST")>>,
        NoLimit)
ifapi_json_TPMI_AES_KEY_BITS_deserialize == In("UINT16", {"128", "192", "256"})
ifapi_json_TPMI_CAMELLIA_KEY_BITS_deserialize == In("UINT16", {"128", "192", "256"})
ifapi_json_TPMI_SM4_KEY_BITS_deserialize == In("UINT16", {"128"})
ifapi_json_TPMU_SYM_KEY_BITS_deserialize ==
    Arms([AES |-> "TPMI_AES_KEY_BITS", XOR |-> "TPMI_ALG_HASH", SM4 |-> "TPMI_SM4_KEY_BITS",
        CAMELLIA |-> "TPMI_CAMELLIA_KEY_BITS", NULL |-> "TPMS_EMPTY"])
ifapi_json_TPMU_SYM_MODE_deserialize ==
    Arms([SM4 |-> "TPMI_ALG_SYM_MODE", AES |-> "TPMI_ALG_SYM_MODE",
        CAMELLIA |-> "TPMI_ALG_SYM_MODE", NULL |-> "TPMS_EMPTY"])
ifapi_json_TPMT_SYM_DEF_deserialize ==
    Object(<<Sel("algorithm", "TPMI_ALG_SYM"), Unless({"NULL"}, Arm("keyBits",
        "TPMU_SYM_KEY_BITS")), Unless({"NULL"}, Arm("mode", "TPMU_SYM_MODE"))>>, NoLimit)
ifapi_json_TPMT_SYM_DEF_OBJECT_deserialize ==
    Object(<<Sel("algorithm", "TPMI_ALG_SYM_OBJECT"), Unless({"NULL"}, Arm("keyBits",
        "TPMU_SYM_KEY_BITS")), Unless({"NULL"}, Arm("mode", "TPMU_SYM_MODE"))>>, NoLimit)
ifapi_json_TPMS_SYMCIPHER_PARMS_deserialize ==
    Object(<<F("sym", "TPMT_SYM_DEF_OBJECT")>>, NoLimit)
ifapi_json_TPMS_SCHEME_HASH_deserialize == Object(<<F("hashAlg", "TPMI_ALG_HASH")>>, NoLimit)
ifapi_json_TPMS_SCHEME_ECDAA_deserialize ==
    Object(<<F("hashAlg", "TPMI_ALG_HASH"), F("count", "UINT16")>>, NoLimit)
ifapi_json_TPMI_ALG_KEYEDHASH_SCHEME_deserialize == In("TPM2_ALG_ID", {"HMAC", "XOR", "NULL"})
ifapi_json_TPMS_SCHEME_HMAC_deserialize == Alias("TPMS_SCHEME_HASH")
ifapi_json_TPMS_SCHEME_XOR_deserialize ==
    Object(<<F("hashAlg", "TPMI_ALG_HASH"), F("kdf", "TPMI_ALG_KDF")>>, NoLimit)
ifapi_json_TPMU_SCHEME_KEYEDHASH_deserialize ==
    Arms([HMAC |-> "TPMS_SCHEME_HMAC", XOR |-> "TPMS_SCHEME_XOR", NULL |-> "TPMS_EMPTY"])
ifapi_json_TPMT_KEYEDHASH_SCHEME_deserialize ==
    Object(<<Sel("scheme", "TPMI_ALG_KEYEDHASH_SCHEME"), Unless({"NULL"}, Arm("details",
        "TPMU_SCHEME_KEYEDHASH"))>>, NoLimit)
ifapi_json_TPMS_SIG_SCHEME_RSASSA_deserialize == Alias("TPMS_SCHEME_HASH")
ifapi_json_TPMS_SIG_SCHEME_RSAPSS_deserialize == Alias("TPMS_SCHEME_HASH")
ifapi_json_TPMS_SIG_SCHEME_ECDSA_deserialize == Alias("TPMS_SCHEME_HASH")
ifapi_json_TPMS_SIG_SCHEME_SM2_deserialize == Alias("TPMS_SCHEME_HASH")
ifapi_json_TPMS_SIG_SCHEME_ECSCHNORR_deserialize == Alias("TPMS_SCHEME_HASH")
ifapi_json_TPMS_SIG_SCHEME_ECDAA_deserialize == Alias("TPMS_SCHEME_ECDAA")
ifapi_json_TPMU_SIG_SCHEME_deserialize ==
    Arms([RSASSA |-> "TPMS_SIG_SCHEME_RSASSA", RSAPSS |-> "TPMS_SIG_SCHEME_RSAPSS",
        ECDSA |-> "TPMS_SIG_SCHEME_ECDSA", ECDAA |-> "TPMS_SIG_SCHEME_ECDAA",
        SM2 |-> "TPMS_SIG_SCHEME_SM2", ECSCHNORR |-> "TPMS_SIG_SCHEME_ECSCHNORR",
        HMAC |-> "TPMS_SCHEME_HMAC", NULL |-> "TPMS_EMPTY"])
ifapi_json_TPMT_SIG_SCHEME_deserialize ==
    Object(<<Sel("scheme", "TPMI_ALG_SIG_SCHEME"), Unless({"NULL"}, Arm("details",
        "TPMU_SIG_SCHEME"))>>, NoLimit)
ifapi_json_TPMS_ENC_SCHEME_OAEP_deserialize == Alias("TPMS_SCHEME_HASH")
ifapi_json_TPMS_ENC_SCHEME_RSAES_deserialize == Alias("TPMS_EMPTY")
ifapi_json_TPMS_KEY_SCHEME_ECDH_deserialize == Alias("TPMS_SCHEME_HASH")
ifapi_json_TPMS_SCHEME_MGF1_deserialize == Alias("TPMS_SCHEME_HASH")
ifapi_json_TPMS_SCHEME_KDF1_SP800_56A_deserialize == Alias("TPMS_SCHEME_HASH")
ifapi_json_TPMS_SCHEME_KDF1_SP800_108_deserialize == Alias("TPMS_SCHEME_HASH")
ifapi_json_TPMU_KDF_SCHEME_deserialize ==
    Arms([MGF1 |-> "TPMS_SCHEME_MGF1", KDF1_SP800_56A |-> "TPMS_SCHEME_KDF1_SP800_56A",
        KDF1_SP800_108 |-> "TPMS_SCHEME_KDF1_SP800_108", NULL |-> "TPMS_EMPTY"])
ifapi_json_TPMT_KDF_SCHEME_deserialize ==
    Object(<<Sel("scheme", "TPMI_ALG_KDF"), Unless({"NULL"}, Arm("details",
        "TPMU_KDF_SCHEME"))>>, NoLimit)
ifapi_json_TPMU_ASYM_SCHEME_deserialize ==
    Arms([ECDH |-> "TPMS_KEY_SCHEME_ECDH", RSASSA |-> "TPMS_SIG_SCHEME_RSASSA",
        RSAPSS |-> "TPMS_SIG_SCHEME_RSAPSS", ECDSA |-> "TPMS_SIG_SCHEME_ECDSA",
        ECDAA |-> "TPMS_SIG_SCHEME_ECDAA", SM2 |-> "TPMS_SIG_SCHEME_SM2",
        ECSCHNORR |-> "TPMS_SIG_SCHEME_ECSCHNORR", RSAES |-> "TPMS_ENC_SCHEME_RSAES",
        OAEP |-> "TPMS_ENC_SCHEME_OAEP", MLDSA |-> "TPMS_SCHEME_HASH",
        NULL |-> "TPMS_EMPTY"])
ifapi_json_TPMI_ALG_RSA_SCHEME_deserialize ==
    In("TPM2_ALG_ID", {"RSAES", "OAEP", "RSASSA", "RSAPSS", "NULL"})
ifapi_json_TPMT_RSA_SCHEME_deserialize ==
    Object(<<Sel("scheme", "TPMI_ALG_RSA_SCHEME"), Unless({"NULL"}, Arm("details",
        "TPMU_ASYM_SCHEME"))>>, NoLimit)
ifapi_json_TPMI_ALG_RSA_DECRYPT_deserialize == In("TPM2_ALG_ID", {"RSAES", "OAEP", "NULL"})
ifapi_json_TPMT_RSA_DECRYPT_deserialize ==
    Object(<<Sel("scheme", "TPMI_ALG_RSA_DECRYPT"), Unless({"NULL"}, Arm("details",
        "TPMU_ASYM_SCHEME"))>>, NoLimit)
ifapi_json_TPM2B_PUBLIC_KEY_RSA_deserialize == Bytes(512)
ifapi_json_TPMI_RSA_KEY_BITS_deserialize == In("UINT16", {"1024", "2048", "3072", "4096"})
ifapi_json_TPM2B_ECC_PARAMETER_deserialize == Bytes(128)
ifapi_json_TPMS_ECC_POINT_deserialize ==
    Object(<<F("x", "TPM2B_ECC_PARAMETER"), F("y", "TPM2B_ECC_PARAMETER")>>, NoLimit)
ifapi_json_TPMI_ALG_ECC_SCHEME_deserialize ==
    In("TPM2_ALG_ID", {"ECDSA", "ECDAA", "SM2", "ECSCHNORR", "ECDH", "NULL"})
ifapi_json_TPMI_ECC_CURVE_deserialize ==
    In("TPM2_ECC_CURVE", {"NONE", "NIST_P192", "NIST_P224", "NIST_P256", "NIST_P384",
        "NIST_P521", "BN_P256", "BN_P638", "SM2_P256"})
ifapi_json_TPMT_ECC_SCHEME_deserialize ==
    Object(<<Sel("scheme", "TPMI_ALG_ECC_SCHEME"), Unless({"NULL"}, Arm("details",
        "TPMU_ASYM_SCHEME"))>>, NoLimit)
ifapi_json_TPMS_SIGNATURE_RSA_deserialize ==
    Object(<<F("hash", "TPMI_ALG_HASH"), F("sig", "TPM2B_PUBLIC_KEY_RSA")>>, NoLimit)
ifapi_json_TPMS_SIGNATURE_RSASSA_deserialize == Alias("TPMS_SIGNATURE_RSA")
ifapi_json_TPMS_SIGNATURE_RSAPSS_deserialize == Alias("TPMS_SIGNATURE_RSA")
ifapi_json_TPMS_SIGNATURE_ECC_deserialize ==
    Object(<<F("hash", "TPMI_ALG_HASH"), F("signatureR", "TPM2B_ECC_PARAMETER"),
        F("signatureS", "TPM2B_ECC_PARAMETER")>>, NoLimit)
ifapi_json_TPMS_SIGNATURE_ECDSA_deserialize == Alias("TPMS_SIGNATURE_ECC")
ifapi_json_TPMS_SIGNATURE_ECDAA_deserialize == Alias("TPMS_SIGNATURE_ECC")
ifapi_json_TPMS_SIGNATURE_SM2_deserialize == Alias("TPMS_SIGNATURE_ECC")
ifapi_json_TPMS_SIGNATURE_ECSCHNORR_deserialize == Alias("TPMS_SIGNATURE_ECC")
ifapi_json_TPM2B_MLDSA_SIGNATURE_deserialize == Bytes(4627)
ifapi_json_TPMS_SIGNATURE_MLDSA_deserialize ==
    Object(<<F("hash", "TPMI_ALG_HASH"), F("sig", "TPM2B_MLDSA_SIGNATURE")>>, NoLimit)
ifapi_json_TPM2B_MLDSA_PUBLIC_KEY_deserialize == Bytes(2592)
ifapi_json_TPM2B_MLKEM_PUBLIC_KEY_deserialize == Bytes(1568)
ifapi_json_TPMS_ML_PARAMETER_SET_deserialize == Object(<<F("identifier", "UINT32")>>, NoLimit)
ifapi_json_TPMS_MLDSA_PARMS_deserialize ==
    Object(<<F("nameAlg", "TPMI_ALG_HASH"), F("parameterSet", "TPMS_ML_PARAMETER_SET")>>,
        NoLimit)
ifapi_json_TPMS_MLKEM_PARMS_deserialize ==
    Object(<<F("nameAlg", "TPMI_ALG_HASH"), F("parameterSet", "TPMS_ML_PARAMETER_SET")>>,
        NoLimit)
ifapi_json_TPMU_SIGNATURE_deserialize ==
    Arms([RSASSA |-> "TPMS_SIGNATURE_RSASSA", RSAPSS |-> "TPMS_SIGNATURE_RSAPSS",
        ECDSA |-> "TPMS_SIGNATURE_ECDSA", ECDAA |-> "TPMS_SIGNATURE_ECDAA",
        SM2 |-> "TPMS_SIGNATURE_SM2", ECSCHNORR |-> "TPMS_SIGNATURE_ECSCHNORR",
        HMAC |-> "TPMT_HA", MLDSA |-> "TPMS_SIGNATURE_MLDSA", NULL |-> "TPMS_EMPTY"])
ifapi_json_TPMT_SIGNATURE_deserialize ==
    Object(<<Sel("sigAlg", "TPMI_ALG_SIG_SCHEME"), Unless({"NULL"}, Arm("signature",
        "TPMU_SIGNATURE"))>>, NoLimit)
ifapi_json_TPM2B_ENCRYPTED_SECRET_deserialize == Bytes(1568)
ifapi_json_TPMI_ALG_PUBLIC_deserialize ==
    In("TPM2_ALG_ID", {"RSA", "KEYEDHASH", "ECC", "SYMCIPHER", "NULL"})
ifapi_json_TPMU_PUBLIC_ID_deserialize ==
    Arms([KEYEDHASH |-> "TPM2B_DIGEST", SYMCIPHER |-> "TPM2B_DIGEST",
        RSA |-> "TPM2B_PUBLIC_KEY_RSA", ECC |-> "TPMS_ECC_POINT",
        MLDSA |-> "TPM2B_MLDSA_PUBLIC_KEY", MLKEM |-> "TPM2B_MLKEM_PUBLIC_KEY"])
ifapi_json_TPMS_KEYEDHASH_PARMS_deserialize ==
    Object(<<F("scheme", "TPMT_KEYEDHASH_SCHEME")>>, NoLimit)
ifapi_json_TPMS_RSA_PARMS_deserialize ==
    Object(<<F("symmetric", "TPMT_SYM_DEF_OBJECT"), F("scheme", "TPMT_RSA_SCHEME"),
        F("keyBits", "TPMI_RSA_KEY_BITS"), F("exponent", "UINT32")>>, NoLimit)
ifapi_json_TPMS_ECC_PARMS_deserialize ==
    Object(<<F("symmetric", "TPMT_SYM_DEF_OBJECT"), F("scheme", "TPMT_ECC_SCHEME"),
        F("curveID", "TPMI_ECC_CURVE"), F("kdf", "TPMT_KDF_SCHEME")>>, NoLimit)
ifapi_json_TPMU_PUBLIC_PARMS_deserialize ==
    Arms([KEYEDHASH |-> "TPMS_KEYEDHASH_PARMS", SYMCIPHER |-> "TPMS_SYMCIPHER_PARMS",
        RSA |-> "TPMS_RSA_PARMS", ECC |-> "TPMS_ECC_PARMS", MLDSA |-> "TPMS_MLDSA_PARMS",
        MLKEM |-> "TPMS_MLKEM_PARMS"])
ifapi_json_TPMT_PUBLIC_deserialize ==
    Object(<<Sel("type", "TPMI_ALG_PUBLIC"), F("nameAlg", "TPMI_ALG_HASH"),
        F("objectAttributes", "TPMA_OBJECT"), F("authPolicy", "TPM2B_DIGEST"),
        Arm("parameters", "TPMU_PUBLIC_PARMS"), MaybeArm("unique", "TPMU_PUBLIC_ID")>>,
        NoLimit)
ifapi_json_TPM2B_PUBLIC_deserialize ==
    Object(<<F("size", "UINT16"), F("publicArea", "TPMT_PUBLIC")>>, NoLimit)
ifapi_json_TPM2B_PRIVATE_deserialize == Bytes(1550)
ifapi_json_TPM2_NT_deserialize == Names(NvTypes)
ifapi_json_TPMA_NV_deserialize == Flags(NvAttributes \cup {"TPM2_NT"})
ifapi_json_TPMS_NV_PUBLIC_deserialize ==
    Object(<<F("nvIndex", "TPMI_RH_NV_INDEX"), F("nameAlg", "TPMI_ALG_HASH"), F("attributes",
        "TPMA_NV"), F("authPolicy", "TPM2B_DIGEST"), F("dataSize", "UINT16")>>, NoLimit)
ifapi_json_TPM2B_NV_PUBLIC_deserialize ==
    Object(<<F("size", "UINT16"), F("nvPublic", "TPMS_NV_PUBLIC")>>, NoLimit)
ifapi_json_TPMS_CREATION_DATA_deserialize ==
    Object(<<F("pcrSelect", "TPML_PCR_SELECTION"), F("pcrDigest", "TPM2B_DIGEST"),
        F("locality", "TPMA_LOCALITY"), F("parentNameAlg", "TPM2_ALG_ID"), F("parentName",
        "TPM2B_NAME"), F("parentQualifiedName", "TPM2B_NAME"), F("outsideInfo",
        "TPM2B_DATA")>>, NoLimit)
ifapi_json_TPM2B_CREATION_DATA_deserialize ==
    Object(<<F("size", "UINT16"), F("creationData", "TPMS_CREATION_DATA")>>, NoLimit)

\* By type.
TpmReader ==
    [TPMS_EMPTY |-> ifapi_json_TPMS_EMPTY_deserialize,
     pcr_select |-> ifapi_json_pcr_selection_deserialize,
     UINT8_ARY |-> ifapi_json_UINT8_ARY_deserialize,
     TPMS_PCR_SELECT |-> ifapi_json_TPMS_PCR_SELECT_deserialize,
     TPMS_PCR_SELECTION |-> ifapi_json_TPMS_PCR_SELECTION_deserialize,
     TPMS_TAGGED_POLICY |-> ifapi_json_TPMS_TAGGED_POLICY_deserialize,
     TPMS_ACT_DATA |-> ifapi_json_TPMS_ACT_DATA_deserialize,
     BYTE |-> ifapi_json_BYTE_deserialize, UINT8 |-> ifapi_json_UINT8_deserialize,
     UINT16 |-> ifapi_json_UINT16_deserialize, UINT32 |-> ifapi_json_UINT32_deserialize,
     UINT64 |-> ifapi_json_UINT64_deserialize,
     TPM2_GENERATED |-> ifapi_json_TPM2_GENERATED_deserialize,
     TPM2_ALG_ID |-> ifapi_json_TPM2_ALG_ID_deserialize,
     TPM2_ECC_CURVE |-> ifapi_json_TPM2_ECC_CURVE_deserialize,
     TPM2_CC |-> ifapi_json_TPM2_CC_deserialize, TPM2_EO |-> ifapi_json_TPM2_EO_deserialize,
     TPM2_ST |-> ifapi_json_TPM2_ST_deserialize,
     TPM2_PT_PCR |-> ifapi_json_TPM2_PT_PCR_deserialize,
     TPM2_HANDLE |-> ifapi_json_TPM2_HANDLE_deserialize,
     TPMA_OBJECT |-> ifapi_json_TPMA_OBJECT_deserialize,
     TPMA_LOCALITY |-> ifapi_json_TPMA_LOCALITY_deserialize,
     TPMA_ACT |-> ifapi_json_TPMA_ACT_deserialize,
     TPMI_YES_NO |-> ifapi_json_TPMI_YES_NO_deserialize,
     TPMI_RH_HIERARCHY |-> ifapi_json_TPMI_RH_HIERARCHY_deserialize,
     TPMI_RH_NV_INDEX |-> ifapi_json_TPMI_RH_NV_INDEX_deserialize,
     TPMI_ALG_HASH |-> ifapi_json_TPMI_ALG_HASH_deserialize,
     TPMI_ALG_SYM |-> ifapi_json_TPMI_ALG_SYM_deserialize,
     TPMI_ALG_SYM_OBJECT |-> ifapi_json_TPMI_ALG_SYM_OBJECT_deserialize,
     TPMI_ALG_SYM_MODE |-> ifapi_json_TPMI_ALG_SYM_MODE_deserialize,
     TPMI_ALG_CIPHER_MODE |-> ifapi_json_TPMI_ALG_CIPHER_MODE_deserialize,
     TPMI_ALG_KDF |-> ifapi_json_TPMI_ALG_KDF_deserialize,
     TPMI_ALG_SIG_SCHEME |-> ifapi_json_TPMI_ALG_SIG_SCHEME_deserialize,
     TPMU_HA |-> ifapi_json_TPMU_HA_deserialize, TPMT_HA |-> ifapi_json_TPMT_HA_deserialize,
     TPM2B_DIGEST |-> ifapi_json_TPM2B_DIGEST_deserialize,
     TPM2B_DATA |-> ifapi_json_TPM2B_DATA_deserialize,
     TPM2B_NONCE |-> ifapi_json_TPM2B_NONCE_deserialize,
     TPM2B_OPERAND |-> ifapi_json_TPM2B_OPERAND_deserialize,
     TPM2B_EVENT |-> ifapi_json_TPM2B_EVENT_deserialize,
     TPM2B_MAX_NV_BUFFER |-> ifapi_json_TPM2B_MAX_NV_BUFFER_deserialize,
     TPM2B_NAME |-> ifapi_json_TPM2B_NAME_deserialize,
     TPMT_TK_CREATION |-> ifapi_json_TPMT_TK_CREATION_deserialize,
     TPML_DIGEST_VALUES |-> ifapi_json_TPML_DIGEST_VALUES_deserialize,
     TPML_PCR_SELECTION |-> ifapi_json_TPML_PCR_SELECTION_deserialize,
     TPMS_CLOCK_INFO |-> ifapi_json_TPMS_CLOCK_INFO_deserialize,
     TPMS_TIME_INFO |-> ifapi_json_TPMS_TIME_INFO_deserialize,
     TPMS_TIME_ATTEST_INFO |-> ifapi_json_TPMS_TIME_ATTEST_INFO_deserialize,
     TPMS_CERTIFY_INFO |-> ifapi_json_TPMS_CERTIFY_INFO_deserialize,
     TPMS_QUOTE_INFO |-> ifapi_json_TPMS_QUOTE_INFO_deserialize,
     TPMS_COMMAND_AUDIT_INFO |-> ifapi_json_TPMS_COMMAND_AUDIT_INFO_deserialize,
     TPMS_SESSION_AUDIT_INFO |-> ifapi_json_TPMS_SESSION_AUDIT_INFO_deserialize,
     TPMS_CREATION_INFO |-> ifapi_json_TPMS_CREATION_INFO_deserialize,
     TPMS_NV_CERTIFY_INFO |-> ifapi_json_TPMS_NV_CERTIFY_INFO_deserialize,
     TPMI_ST_ATTEST |-> ifapi_json_TPMI_ST_ATTEST_deserialize,
     TPMU_ATTEST |-> ifapi_json_TPMU_ATTEST_deserialize,
     TPMS_ATTEST |-> ifapi_json_TPMS_ATTEST_deserialize,
     TPMI_AES_KEY_BITS |-> ifapi_json_TPMI_AES_KEY_BITS_deserialize,
     TPMI_CAMELLIA_KEY_BITS |-> ifapi_json_TPMI_CAMELLIA_KEY_BITS_deserialize,
     TPMI_SM4_KEY_BITS |-> ifapi_json_TPMI_SM4_KEY_BITS_deserialize,
     TPMU_SYM_KEY_BITS |-> ifapi_json_TPMU_SYM_KEY_BITS_deserialize,
     TPMU_SYM_MODE |-> ifapi_json_TPMU_SYM_MODE_deserialize,
     TPMT_SYM_DEF |-> ifapi_json_TPMT_SYM_DEF_deserialize,
     TPMT_SYM_DEF_OBJECT |-> ifapi_json_TPMT_SYM_DEF_OBJECT_deserialize,
     TPMS_SYMCIPHER_PARMS |-> ifapi_json_TPMS_SYMCIPHER_PARMS_deserialize,
     TPMS_SCHEME_HASH |-> ifapi_json_TPMS_SCHEME_HASH_deserialize,
     TPMS_SCHEME_ECDAA |-> ifapi_json_TPMS_SCHEME_ECDAA_deserialize,
     TPMI_ALG_KEYEDHASH_SCHEME |-> ifapi_json_TPMI_ALG_KEYEDHASH_SCHEME_deserialize,
     TPMS_SCHEME_HMAC |-> ifapi_json_TPMS_SCHEME_HMAC_deserialize,
     TPMS_SCHEME_XOR |-> ifapi_json_TPMS_SCHEME_XOR_deserialize,
     TPMU_SCHEME_KEYEDHASH |-> ifapi_json_TPMU_SCHEME_KEYEDHASH_deserialize,
     TPMT_KEYEDHASH_SCHEME |-> ifapi_json_TPMT_KEYEDHASH_SCHEME_deserialize,
     TPMS_SIG_SCHEME_RSASSA |-> ifapi_json_TPMS_SIG_SCHEME_RSASSA_deserialize,
     TPMS_SIG_SCHEME_RSAPSS |-> ifapi_json_TPMS_SIG_SCHEME_RSAPSS_deserialize,
     TPMS_SIG_SCHEME_ECDSA |-> ifapi_json_TPMS_SIG_SCHEME_ECDSA_deserialize,
     TPMS_SIG_SCHEME_SM2 |-> ifapi_json_TPMS_SIG_SCHEME_SM2_deserialize,
     TPMS_SIG_SCHEME_ECSCHNORR |-> ifapi_json_TPMS_SIG_SCHEME_ECSCHNORR_deserialize,
     TPMS_SIG_SCHEME_ECDAA |-> ifapi_json_TPMS_SIG_SCHEME_ECDAA_deserialize,
     TPMU_SIG_SCHEME |-> ifapi_json_TPMU_SIG_SCHEME_deserialize,
     TPMT_SIG_SCHEME |-> ifapi_json_TPMT_SIG_SCHEME_deserialize,
     TPMS_ENC_SCHEME_OAEP |-> ifapi_json_TPMS_ENC_SCHEME_OAEP_deserialize,
     TPMS_ENC_SCHEME_RSAES |-> ifapi_json_TPMS_ENC_SCHEME_RSAES_deserialize,
     TPMS_KEY_SCHEME_ECDH |-> ifapi_json_TPMS_KEY_SCHEME_ECDH_deserialize,
     TPMS_SCHEME_MGF1 |-> ifapi_json_TPMS_SCHEME_MGF1_deserialize,
     TPMS_SCHEME_KDF1_SP800_56A |-> ifapi_json_TPMS_SCHEME_KDF1_SP800_56A_deserialize,
     TPMS_SCHEME_KDF1_SP800_108 |-> ifapi_json_TPMS_SCHEME_KDF1_SP800_108_deserialize,
     TPMU_KDF_SCHEME |-> ifapi_json_TPMU_KDF_SCHEME_deserialize,
     TPMT_KDF_SCHEME |-> ifapi_json_TPMT_KDF_SCHEME_deserialize,
     TPMU_ASYM_SCHEME |-> ifapi_json_TPMU_ASYM_SCHEME_deserialize,
     TPMI_ALG_RSA_SCHEME |-> ifapi_json_TPMI_ALG_RSA_SCHEME_deserialize,
     TPMT_RSA_SCHEME |-> ifapi_json_TPMT_RSA_SCHEME_deserialize,
     TPMI_ALG_RSA_DECRYPT |-> ifapi_json_TPMI_ALG_RSA_DECRYPT_deserialize,
     TPMT_RSA_DECRYPT |-> ifapi_json_TPMT_RSA_DECRYPT_deserialize,
     TPM2B_PUBLIC_KEY_RSA |-> ifapi_json_TPM2B_PUBLIC_KEY_RSA_deserialize,
     TPMI_RSA_KEY_BITS |-> ifapi_json_TPMI_RSA_KEY_BITS_deserialize,
     TPM2B_ECC_PARAMETER |-> ifapi_json_TPM2B_ECC_PARAMETER_deserialize,
     TPMS_ECC_POINT |-> ifapi_json_TPMS_ECC_POINT_deserialize,
     TPMI_ALG_ECC_SCHEME |-> ifapi_json_TPMI_ALG_ECC_SCHEME_deserialize,
     TPMI_ECC_CURVE |-> ifapi_json_TPMI_ECC_CURVE_deserialize,
     TPMT_ECC_SCHEME |-> ifapi_json_TPMT_ECC_SCHEME_deserialize,
     TPMS_SIGNATURE_RSA |-> ifapi_json_TPMS_SIGNATURE_RSA_deserialize,
     TPMS_SIGNATURE_RSASSA |-> ifapi_json_TPMS_SIGNATURE_RSASSA_deserialize,
     TPMS_SIGNATURE_RSAPSS |-> ifapi_json_TPMS_SIGNATURE_RSAPSS_deserialize,
     TPMS_SIGNATURE_ECC |-> ifapi_json_TPMS_SIGNATURE_ECC_deserialize,
     TPMS_SIGNATURE_ECDSA |-> ifapi_json_TPMS_SIGNATURE_ECDSA_deserialize,
     TPMS_SIGNATURE_ECDAA |-> ifapi_json_TPMS_SIGNATURE_ECDAA_deserialize,
     TPMS_SIGNATURE_SM2 |-> ifapi_json_TPMS_SIGNATURE_SM2_deserialize,
     TPMS_SIGNATURE_ECSCHNORR |-> ifapi_json_TPMS_SIGNATURE_ECSCHNORR_deserialize,
     TPM2B_MLDSA_SIGNATURE |-> ifapi_json_TPM2B_MLDSA_SIGNATURE_deserialize,
     TPMS_SIGNATURE_MLDSA |-> ifapi_json_TPMS_SIGNATURE_MLDSA_deserialize,
     TPM2B_MLDSA_PUBLIC_KEY |-> ifapi_json_TPM2B_MLDSA_PUBLIC_KEY_deserialize,
     TPM2B_MLKEM_PUBLIC_KEY |-> ifapi_json_TPM2B_MLKEM_PUBLIC_KEY_deserialize,
     TPMS_ML_PARAMETER_SET |-> ifapi_json_TPMS_ML_PARAMETER_SET_deserialize,
     TPMS_MLDSA_PARMS |-> ifapi_json_TPMS_MLDSA_PARMS_deserialize,
     TPMS_MLKEM_PARMS |-> ifapi_json_TPMS_MLKEM_PARMS_deserialize,
     TPMU_SIGNATURE |-> ifapi_json_TPMU_SIGNATURE_deserialize,
     TPMT_SIGNATURE |-> ifapi_json_TPMT_SIGNATURE_deserialize,
     TPM2B_ENCRYPTED_SECRET |-> ifapi_json_TPM2B_ENCRYPTED_SECRET_deserialize,
     TPMI_ALG_PUBLIC |-> ifapi_json_TPMI_ALG_PUBLIC_deserialize,
     TPMU_PUBLIC_ID |-> ifapi_json_TPMU_PUBLIC_ID_deserialize,
     TPMS_KEYEDHASH_PARMS |-> ifapi_json_TPMS_KEYEDHASH_PARMS_deserialize,
     TPMS_RSA_PARMS |-> ifapi_json_TPMS_RSA_PARMS_deserialize,
     TPMS_ECC_PARMS |-> ifapi_json_TPMS_ECC_PARMS_deserialize,
     TPMU_PUBLIC_PARMS |-> ifapi_json_TPMU_PUBLIC_PARMS_deserialize,
     TPMT_PUBLIC |-> ifapi_json_TPMT_PUBLIC_deserialize,
     TPM2B_PUBLIC |-> ifapi_json_TPM2B_PUBLIC_deserialize,
     TPM2B_PRIVATE |-> ifapi_json_TPM2B_PRIVATE_deserialize,
     TPM2_NT |-> ifapi_json_TPM2_NT_deserialize, TPMA_NV |-> ifapi_json_TPMA_NV_deserialize,
     TPMS_NV_PUBLIC |-> ifapi_json_TPMS_NV_PUBLIC_deserialize,
     TPM2B_NV_PUBLIC |-> ifapi_json_TPM2B_NV_PUBLIC_deserialize,
     TPMS_CREATION_DATA |-> ifapi_json_TPMS_CREATION_DATA_deserialize,
     TPM2B_CREATION_DATA |-> ifapi_json_TPM2B_CREATION_DATA_deserialize]
=============================================================================
