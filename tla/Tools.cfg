\* The tool, the checks that type to it, and the terminals; of the burn-in three
\* rounds of four readings, with two prompts, each longer than a round.
SPECIFICATION TestsSpec
CONSTANTS
    ToolParts = {"sysinfo", "ddm", "health", "poe", "mini", "com", "wdt", "power", "usb", "fan", "io"}
    ToolFaults = 1
    Checks <- MCChecks
    DioBoards <- MCDioBoards
    Asked <- MCAsked
    IoChecks <- MCIoChecks
    d1 = d1
    d2 = d2
    DdmProcs = {d1, d2}
    Piece = 2
    Settings <- MCSettings
    Rounds = 3
    RoundLen = 4
    Jitter = 1
    MaxPrompts = 2
    MaxAway = 6
INVARIANTS RowsTold ChecksMean DioHolds
INVARIANTS WholeTime QuietRoundIsWatched LoadedWhileQuiet
PROPERTIES PinsObey GroupsApart DisplayTold DisplayObeys
CHECK_DEADLOCK FALSE
