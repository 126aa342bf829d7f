SPECIFICATION Spec
CONSTANTS
    None = None
    Serials = {s1, s2}
    AssyPN = {a1}
    MenuPN = {}
    PcbaPN = {}
    OtherPN = {}
    Programs = {"assy"}
    Plan <- MCPlan
    Files = {f1, f2, f3}
    MaxDepth = 3
INVARIANT CloneMeansAllPassed
