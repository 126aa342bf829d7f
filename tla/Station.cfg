SPECIFICATION Spec
CONSTANTS
    None = None
    Serials = {s1, s2}
    AssyPN = {a1}
    MenuPN = {}
    PcbaPN = {p1}
    OtherPN = {}
    Programs = {"assy", "pcba"}
    Plan <- MCPlan
    Files = {f1, f2, f3}
    MaxDepth = 3
SYMMETRY Symmetric
INVARIANT CleanSessionOwnsDb
INVARIANT CleanSessionOwnsLog
INVARIANT OsFlagIsThisUnits
INVARIANT RetestRunsThisTest
INVARIANT CleanRunIsFiled
INVARIANT OneUnitPerFile
