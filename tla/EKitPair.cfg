\* The same scenes: what two programs do to the registers they share.
SPECIFICATION LibSpec
CONSTANTS
    p1 = p1
    p2 = p2
    Procs = {p1, p2}
    Scenes <- AllScenes
    Who <- SceneWho
    Uses <- SceneUses
    Boards <- SceneBoards
    MaxFaults <- SceneFaults
    Switches <- SceneSwitches
    Requests <- SceneRequests
    Registers <- SceneRegisters
    N = 2
    None = None
SYMMETRY Symmetric
PROPERTIES CallsKeptApart
CHECK_DEADLOCK FALSE
