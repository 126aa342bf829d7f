------------------------------ MODULE MCCongatec ------------------------------
EXTENDS CgosGpio, MCFlash, MCModules

Two == {"p", "q"}
MCProgs == Two \cup {"tool"}
Ask(f, t, i, v) == Question(f, t, i, "dev", <<v, {}, {}>>, TRUE)
Q(f) == Ask(f, 0, 0, {1})
Short(f) == [Q(f) EXCEPT !.fits = FALSE]
Qs(fs) == {Q(f) : f \in fs}

\* Each turns one pin; two programs must not undo one another's.
Turn(b) == Question("IOXorAndXor", 0, 0, "none", <<{b}, Bits, {}>>, TRUE)

KeysOf(asks) == {k \in {OwnKey(a) : a \in {b \in asks : UnitOf(b) # {}}} : k[1] # "info"}
Scene(loaded, asks, n, val, drifts, free) ==
    [loaded |-> loaded, open |-> IF loaded THEN free ELSE {}, asks |-> asks,
     calls |-> [p \in MCProgs |-> IF p = "tool" THEN 20 ELSE n],
     val |-> val, drifts |-> drifts, free |-> free,
     opens |-> IF loaded \/ free # Two THEN {} ELSE free]
Loaded(asks, n, drifts) == Scene(TRUE, asks, n, [k \in KeysOf(asks) |-> {}], drifts, Two)

\* Loading, and what is asked before, while and after.
LoadScene == LET asks == Qs({"BoardOpen", "IORead"}) \cup {Ask("BoardOpen", 0, 1, {})} IN
             [Scene(FALSE, asks, 3, [k \in KeysOf(asks) |-> {}], {}, Two) EXCEPT !.calls["q"] = 2]

PinScene == Loaded({Turn(1), Turn(2), Q("IORead"), Q("IOWrite"), Q("IOIsAvailable")}, 2, {})
BusScene == Loaded({Q("I2CWrite"), Ask("I2CWrite", 0, 0, {2}), Q("I2CWriteReadCombined")}, 2, {})
AreaScene == Loaded({Ask("StorageAreaRead", 1, 1, {}), Ask("StorageAreaWrite", 0, 2, {2}),
                     Ask("StorageAreaErase", 1, 1, {})}, 2, {})
TypeScene == Loaded(Qs({"I2CRead", "I2CReadRegister", "I2CWriteRegister"})
                    \cup {Ask("I2CRead", 1, 0, {}), Ask("I2CGetFrequency", 2, 0, {})}, 1, {})
LockScene == Loaded({Ask("StorageAreaRead", 2, 1, {}), Ask("StorageAreaLock", 2, 0, {}),
                     Ask("StorageAreaUnlock", 2, 0, {}), Ask("StorageAreaIsLocked", 0, 1, {})}, 1, {})

\* Everything else, a few functions at a time; what is measured drifts.
Groups == {
    {"DrvGetVersion", "BoardCount", "BoardOpenByNameA", "BoardOpenByNameW", "BoardGetNameA",
     "BoardGetInfoW", "BoardClose"},
    {"BoardGetBootCounter", "BoardGetRunningTimeMeter", "BoardGetOption", "StorageAreaCount"},
    {"VgaCount", "VgaGetContrast", "VgaSetContrast", "VgaGetContrastEnable", "VgaSetContrastEnable"},
    {"VgaGetBacklight", "VgaSetBacklight", "VgaGetBacklightEnable", "VgaSetBacklightEnable",
     "VgaEndDarkBoot", "VgaGetInfo"},
    {"StorageAreaType", "StorageAreaSize", "StorageAreaBlockSize", "StorageAreaEraseStatus"},
    {"I2CCount", "I2CType", "I2CIsAvailable", "I2CGetMaxFrequency", "I2CGetFrequency", "I2CSetFrequency"},
    {"IOCount", "IOGetDirection", "IOSetDirection", "IOGetDirectionCaps", "IOGetNameW"},
    {"WDogCount", "WDogTrigger", "WDogGetConfigStruct", "WDogSetConfigStruct", "WDogSetConfig",
     "WDogDisable", "WDogGetInfo", "WDogGetTriggerCount"},
    {"TemperatureCount", "TemperatureGetInfo", "TemperatureGetCurrent", "TemperatureSetLimits",
     "PerformanceGetCurrent"},
    {"FanCount", "FanGetInfo", "FanGetCurrent", "FanSetLimits"},
    {"VoltageCount", "VoltageGetInfo", "VoltageGetCurrent", "VoltageSetLimits"},
    {"CgbcGetInfo", "CgbcSetControl", "CgbcReadWrite", "CgbcHandleCommand", "Cgeb", "CgebTransAddr",
     "CgebDbgLevel"}}
Measured == {<<x, 1>> : x \in {"temp", "fan", "volt", "boots", "hours", "bc"}}
GroupScene(g) == LET asks == Qs(g) \cup {Short(f) : f \in g \cap Sized} IN
                 Loaded(asks, 1, Measured \cap KeysOf(asks))

\* The expander's registers as they are after a reset, or after the tool ran.
Expander(out, cfg1) == [k \in {"cfg0", "cfg1", "out"} \X {1} |->
                        IF k[1] = "out" THEN out ELSE IF k[1] = "cfg1" THEN cfg1 ELSE Bits]
ToolScene(loaded, val) == Scene(loaded, {Write("out", {1, 2})}, 2, val, {}, {"q"})
ToolScenes == {ToolScene(FALSE, Expander(Bits, Bits)), ToolScene(TRUE, Expander({2}, {}))}

\* Nobody asks for anything.
Rests == Scene(TRUE, {}, 0, <<>>, {}, {})

MCScenes == {Rests, LoadScene, PinScene, BusScene, AreaScene, TypeScene, LockScene}
            \cup {GroupScene(g) : g \in Groups} \cup ToolScenes

\* Scenes that do not meet: programs of the library, the BIOS update, and its
\* modules.
NoFlash == [runs |-> <<>>, board |-> Small]
FlashRests == /\ job = NoFlash /\ tool = Idle
              /\ flash = [power |-> "off", blocks |-> <<>>] /\ spent = <<>>
NoOrder == [target |-> "none", cmds |-> <<>>]
ModulesRest == order = NoOrder /\ store = NoBuffers /\ util = IdleUtil /\ hurt = 0
Updates == scene = Rests /\ job # NoFlash
Edits == order # NoOrder

CongatecInit == /\ GpioInit
                /\ \/ scene # Rests /\ FlashRests /\ ModulesRest
                   \/ scene = Rests /\ FlashInit /\ ModulesRest
                   \/ scene = Rests /\ FlashRests /\ ModulesInit
CongatecNext == \/ Updates /\ FlashNext /\ UNCHANGED <<gpioVars, moduleVars>>
                \/ Edits /\ ModulesNext /\ UNCHANGED <<gpioVars, flashVars>>
                \/ /\ scene # Rests /\ UNCHANGED <<flashVars, moduleVars>>
                   /\ \/ scene \in ToolScenes /\ GpioNext
                      \/ scene \notin ToolScenes /\ CgosNext /\ UNCHANGED gpio
CongatecSpec == CongatecInit /\ [][CongatecNext]_<<gpioVars, flashVars, moduleVars>>
=============================================================================
