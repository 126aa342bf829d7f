SPECIFICATION Spec
CONSTANTS
    None = None
    Serials = {s1}
    AssyPN = {a1}
    MenuPN = {}
    PcbaPN = {}
    OtherPN = {}
    Programs = {"assy", "bi"}
    Plan <- MCPlan
    Files = {f1, f2}
    MaxDepth = 5
INVARIANT EveryRetestRunsTheTest
