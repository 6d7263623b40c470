SPECIFICATION MCEngineSpec
CONSTANTS
    Certs = {1, 2, 3, 4}
    MaxPathLen = 4
    MaxBranches = 40
    Evidence = {1, 3, 4}
    EvidenceOf <- MCEvidenceOf
    AnchorSets = {{3}}
INVARIANTS UnsupportedReported
CHECK_DEADLOCK FALSE
