\* Objects that are only opened, and openings that fail.
CONSTANTS
    Transient = {}
    Persistent = {p1}
    MaxTr = 6
    MaxNames = 2
    MaxRefs = 2
    OpenFaults = TRUE
    Apps = {"waiting"}
SPECIFICATION Spec
INVARIANT HeldIsLive
