--------------------------- MODULE MCCommandStack ---------------------------
(***************************************************************************)
(* CommandStack on the commands of the repository.                         *)
(***************************************************************************)
EXTENDS CommandStack

S == INSTANCE SysCommandTable
T == INSTANCE EsysCommandTable

SysTable == S!SysCommands
EsysTable == T!EsysCommands
HandleTable == [c \in DOMAIN T!EsysCommands |-> S!GetNumHandles(S!SysCommands[c].prepare.code)]

\* TPM 2.0 part 3: where a command sets the authorization value of an object, and
\* where it removes one.
AuthTable ==
    [HierarchyChangeAuth |-> "authHandle", NV_ChangeAuth |-> "nvIndex", PCR_SetAuthValue |-> "pcrHandle",
     CreatePrimary |-> "objectHandle", CreateLoaded |-> "objectHandle", NV_DefineSpace |-> "nvHandle",
     HMAC_Start |-> "sequenceHandle", MAC_Start |-> "sequenceHandle", HashSequenceStart |-> "sequenceHandle",
     Clear |-> "hierarchies", ChangeEPS |-> "hierarchies"]
RemovedTable ==
    [FlushContext |-> "flushHandle", ContextSave |-> "saveHandle", NV_UndefineSpace |-> "nvIndex",
     NV_UndefineSpaceSpecial |-> "nvIndex", SequenceComplete |-> "sequenceHandle",
     EventSequenceComplete |-> "sequenceHandle", SignSequenceComplete |-> "sequenceHandle",
     VerifySequenceComplete |-> "sequenceHandle"]

=============================================================================
