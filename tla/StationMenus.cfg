SPECIFICATION Spec
CONSTANTS
    None = None
    Serials = {s1}
    AssyPN = {a1}
    MenuPN = {a1}
    PcbaPN = {}
    OtherPN = {}
    Programs = {"assy", "bi", "osClone", "other"}
    Plan <- MCPlan
    Files = {f1, f2}
    MaxDepth = 3
SYMMETRY Symmetric
INVARIANT CleanRunIsFiled
