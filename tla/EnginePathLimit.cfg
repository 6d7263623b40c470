SPECIFICATION MCEngineSpec
CONSTANTS
    Certs = {1, 2, 3}
    MaxPathLen = 2
    MaxBranches = 12
    Evidence = {1, 3, 4}
    EvidenceOf <- MCEvidenceOf
    AnchorSets = {{1}}
INVARIANTS PathWithinLimit
CHECK_DEADLOCK FALSE
