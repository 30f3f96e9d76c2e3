SPECIFICATION Spec
CONSTANTS
    none = none
    Reader = {r1, r2}
    Compactor = {c1, c2}
    Flusher = {f1}
    Candidates <- AnySubset
    MaxId = 4
    MaxVersion = 4
    MaxFlush = 2
SYMMETRY Symmetry
INVARIANTS
    PinnedFilesOnDisk
    PendingIsRetained
    EditsAddUp
    ReclaimedOnce
    NothingLost
