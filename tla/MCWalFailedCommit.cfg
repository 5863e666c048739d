SPECIFICATION Spec
CONSTANTS
    k1 = k1
    k2 = k2
    v1 = v1
    v2 = v2
    Keys = {k1, k2}
    Values = {v1, v2}
    Absent = Absent
    NoBatch = NoBatch
    Batches <- MCBatches
    KeyLen = 1
    ValueLen = 1
    auto_compact_threshold = 60
    ExplicitCompact = FALSE
    Cuts = {}
    PowerLoss = FALSE
    MetadataOrdered = TRUE
    MaxCommits = 3
    MaxErrors = 1
INVARIANT
    FailureAppliesNothing
