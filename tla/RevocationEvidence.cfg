SPECIFICATION MCRevocationSpec
CONSTANTS
    None = None
    Removed = Removed
    Fps = {1, 2, 3}
    Serials <- MCSerials
    Times <- MCTimes
    Calls <- MCCalls
    SignedAt = 4
    Cutoff = 6
    OtherSki = "s1"
INVARIANTS
    RevocationTypeOK LateEvidenceIrrelevant TouchedSuffices SelectedSuffices FreshestSelected
    AccountingExact MergeEqualsReissue EvidenceVouched
CHECK_DEADLOCK FALSE
