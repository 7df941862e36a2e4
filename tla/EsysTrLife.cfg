\* One transient and one persistent handle; openings fail at every point.
CONSTANTS
    Transient = {t1}
    Persistent = {p1}
    MaxTr = 6
    MaxNames = 2
    MaxRefs = 2
    OpenFaults = TRUE
    Apps = {"waiting", "eager"}
SPECIFICATION Spec
INVARIANTS TypeOK HandlesUnique ReferencesCounted OpeningKept
PROPERTY NamePinned
