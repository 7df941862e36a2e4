\* All commands of the repository.
CONSTANTS
    Sys <- SysTable
    Esys <- EsysTable
    NumHandles <- HandleTable
    AuthSetBy <- AuthTable
    RemovedBy <- RemovedTable
    ESYS_MAX_SUBMISSIONS = 2
SPECIFICATION Spec
INVARIANTS TypeOK HmacInPlace InputsHarmless RequestConsistent FinishReadsOwn FinishCleansUp MetadataFollowsTpm TablesConsistent
