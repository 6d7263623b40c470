SPECIFICATION MCOneCrlSpec
CONSTANTS
    None = None
    Removed = Removed
    Fps = {1, 2, 3}
    Serials <- MCSerials
    Times <- MCTimes
    Calls <- MCCalls
    SignedAt = 4
    Cutoff = 6
    OtherSki = "s2"
INVARIANTS PathIndependent
CHECK_DEADLOCK FALSE
