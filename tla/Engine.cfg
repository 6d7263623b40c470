SPECIFICATION MCEngineSpec
CONSTANTS
    Certs = {1, 2, 3, 4}
    MaxPathLen = 2
    MaxBranches = 30
    Evidence = {1, 3, 4}
    EvidenceOf <- MCEvidenceOf
    AnchorSets = {{1}, {3}, {1, 3}, {2}}
INVARIANTS
    SearchTypeOK NothingMissed ProofCoversEveryChain FoundIsBest
    ValidIffPath DecisionIsBestOfSet ProofCoversSet PackVerifies
PROPERTIES AdjudicationEnds StepsRunOut
CHECK_DEADLOCK FALSE
