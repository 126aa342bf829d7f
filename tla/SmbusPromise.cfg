\* Three programs, one of which may be killed; transfers may fail or hang, and
\* any program may dump the registers.
SPECIFICATION Spec
CONSTANTS
    Procs = {p1, p2, p3}
    PreTries = 3
    StealAfter = 1
    ProcTries = 2
    MayFail = TRUE
    MayHang = TRUE
    MayPeek = TRUE
    MaxCrashes = 1
    None = None
SYMMETRY Symmetry
CONSTRAINT Untorn
INVARIANTS Exclusive
PROPERTIES KeepsPromise
