\* Programs of the library, the check of inputs and outputs, the BIOS update, and its modules.
SPECIFICATION CongatecSpec
CONSTANT Progs <- MCProgs
CONSTANT Scenes <- MCScenes
CONSTANT Tool = "tool"
CONSTANT CgosFaults = 1
CONSTANT MoreSteps = 1
CONSTANT FlashScenes <- MCFlashScenes
CONSTANT FlashFaults = 2
CONSTANT MaxRetries = 1
CONSTANT ModuleScenes <- MCModuleScenes
CONSTANT ModuleFaults = 3
CONSTANT ModuleTries = 3
CONSTANT BlockWords = 4
CONSTANT Align = 2
INVARIANT ModulesTold
INVARIANT CgosTold
INVARIANT DriverTidy
INVARIANT FlashTold
PROPERTY ModulesKept
PROPERTY CgosObeyed
PROPERTY FlashTouched
CHECK_DEADLOCK FALSE
