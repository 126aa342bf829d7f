\* Two programs, every fault; calls return, and what a kill leaves behind.
SPECIFICATION FairSpec
CONSTANTS
    Procs = {p1, p2}
    PreTries = 5
    StealAfter = 1
    ProcTries = 2
    MayFail = TRUE
    MayHang = TRUE
    MayPeek = FALSE
    MaxCrashes = 1
    None = None
INVARIANTS OwnAnswer
PROPERTIES OrphanStays AbandonedRecovered CallReturns
