\* Programs linked with EKit_L/DMCI.c; see MCEKit for what each scene covers.
SPECIFICATION LibSpec
CONSTANTS
    p1 = p1
    p2 = p2
    Procs = {p1, p2}
    Scenes <- AllScenes
    Who <- SceneWho
    Uses <- SceneUses
    Boards <- SceneBoards
    MaxFaults <- SceneFaults
    Switches <- SceneSwitches
    Requests <- SceneRequests
    Registers <- SceneRegisters
    N = 2
    None = None
SYMMETRY Symmetric
INVARIANTS BoundsMeanCounts FirmwareKnown PoeTold
INVARIANTS SetsObeyed UsbStaysOn DogsTold DescriptionsOwn
PROPERTIES OnlyNamed BitsKept FansTold
CHECK_DEADLOCK FALSE
