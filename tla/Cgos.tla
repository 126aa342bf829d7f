--------------------------------- MODULE Cgos ---------------------------------
(***************************************************************************)
(* congatec's way to its board controller: programs call a library, which  *)
(* packs the call into one request to the driver; the driver serves one    *)
(* request at a time, in variables that all requests share, by calling     *)
(* the code the BIOS left in memory (CGEB), once or in several steps.      *)
(*                                                                         *)
(* Of a value the set of its bits is kept.  What a function asks for is a  *)
(* thing of one unit of the board: a counter, a level, a register.         *)
(***************************************************************************)
EXTENDS Naturals, Sequences, FiniteSets

CONSTANTS
    Progs,      \* programs that use the library
    Scenes,     \* one in each behaviour: what the programs ask for, how many calls (a
                \* bound), the board's values at first, those that change by themselves,
                \* which programs make calls, which install, open and close, whether the
                \* driver is loaded at first and which programs have it open then
    CgosFaults, \* bound: calls that fail, and changes of what is measured
    MoreSteps   \* bound: times the CGEB asks to be called again in one call

Bits == 1..2
Num(n) == {b \in Bits : (n \div 2^(b - 1)) % 2 = 1}
Flip(v, x) == (v \ x) \cup (x \ v)

-----------------------------------------------------------------------------
(* The functions, as the library offers them.                              *)

\* What a function reads or writes, if the CGEB has a function for it alone.
Thing == [BoardGetBootCounter |-> "boots", BoardGetRunningTimeMeter |-> "hours",
    VgaCount |-> "vgas", VgaGetContrast |-> "contrast", VgaSetContrast |-> "contrast",
    VgaGetContrastEnable |-> "contrastOn", VgaSetContrastEnable |-> "contrastOn",
    VgaGetBacklight |-> "light", VgaSetBacklight |-> "light",
    VgaGetBacklightEnable |-> "lightOn", VgaSetBacklightEnable |-> "lightOn",
    VgaEndDarkBoot |-> "dark", VgaGetInfo |-> "vga",
    StorageAreaRead |-> "area", StorageAreaWrite |-> "area", StorageAreaErase |-> "area",
    StorageAreaEraseStatus |-> "erased", StorageAreaLock |-> "lock",
    StorageAreaUnlock |-> "lock", StorageAreaIsLocked |-> "lock",
    IOCount |-> "ios", IORead |-> "pins", IOWrite |-> "pins",
    IOGetDirection |-> "dirs", IOSetDirection |-> "dirs",
    WDogCount |-> "wdogs", WDogTrigger |-> "fed", WDogGetConfigStruct |-> "wdog",
    WDogSetConfigStruct |-> "wdog", WDogGetInfo |-> "wdogInfo",
    TemperatureCount |-> "temps", TemperatureGetInfo |-> "temp",
    TemperatureGetCurrent |-> "temp", TemperatureSetLimits |-> "tempLimits",
    FanCount |-> "fans", FanGetInfo |-> "fan", FanGetCurrent |-> "fan", FanSetLimits |-> "fanLimits",
    VoltageCount |-> "volts", VoltageGetInfo |-> "volt", VoltageGetCurrent |-> "volt",
    VoltageSetLimits |-> "voltLimits", CgbcSetControl |-> "line", CgbcReadWrite |-> "bc",
    CgbcHandleCommand |-> "bc", I2CGetFrequency |-> "freq", I2CSetFrequency |-> "freq"]

\* These set it, to the value given or to one of their own.
Puts == {"VgaSetContrast", "VgaSetContrastEnable", "VgaSetBacklight", "VgaSetBacklightEnable",
    "VgaEndDarkBoot", "StorageAreaWrite", "StorageAreaErase", "StorageAreaLock",
    "StorageAreaUnlock", "IOWrite", "IOSetDirection", "WDogTrigger", "WDogSetConfigStruct",
    "FanSetLimits", "VoltageSetLimits", "TemperatureSetLimits", "CgbcSetControl", "I2CSetFrequency"}

\* The driver answers these itself, from what it read when it was loaded; those
\* without a board, of a storage area, of an I2C bus; and those of several steps.
NoHandle == {"DrvGetVersion", "BoardCount", "BoardOpen", "BoardOpenByNameA", "CgebDbgLevel"}
AreaFcts == {"StorageAreaType", "StorageAreaSize", "StorageAreaBlockSize", "StorageAreaRead",
    "StorageAreaWrite", "StorageAreaErase", "StorageAreaEraseStatus", "StorageAreaLock",
    "StorageAreaUnlock", "StorageAreaIsLocked"}
BusFcts == {"I2CType", "I2CIsAvailable", "I2CRead", "I2CWrite", "I2CReadRegister",
    "I2CWriteRegister", "I2CWriteReadCombined", "I2CGetMaxFrequency", "I2CGetFrequency",
    "I2CSetFrequency"}
NotImplemented == {"BoardGetOption", "BoardSetOption", "BoardGetBootErrorLog",
    "WDogGetTriggerCount", "WDogSetTriggerCount", "PerformanceGetCurrent",
    "PerformanceSetCurrent", "PerformanceGetPolicyCaps", "PerformanceGetPolicy",
    "PerformanceSetPolicy"}

\* The library asks for another function than the one called: the wide forms
\* for the plain ones, the controller's information for its control line, and
\* for the driver's version when it opens the device.
AsksFor == [LibInitialize |-> "DrvGetVersion",
            BoardOpenByNameW |-> "BoardOpenByNameA", BoardGetNameW |-> "BoardGetNameA",
            BoardGetInfoW |-> "BoardGetInfoA", IOGetNameW |-> "IOGetNameA",
            CgbcGetInfo |-> "CgbcSetControl"]
Fct(f) == IF f \in DOMAIN AsksFor THEN AsksFor[f] ELSE f

\* The value is the result, so that a value of zero is a failure.
ByValue == {"DrvGetVersion", "BoardCount", "VgaCount", "StorageAreaCount", "StorageAreaType",
    "StorageAreaSize", "StorageAreaBlockSize", "StorageAreaIsLocked", "I2CCount", "I2CType",
    "IOCount", "WDogCount", "WDogGetTriggerCount", "PerformanceGetCurrent", "TemperatureCount",
    "FanCount", "VoltageCount", "CgebTransAddr", "CgebDbgLevel"}

\* The driver wants a whole structure; one function passes none.
Sized == {"BoardGetNameA", "BoardGetInfoA", "VgaGetInfo", "WDogGetConfigStruct",
    "WDogSetConfigStruct", "WDogGetInfo", "TemperatureGetInfo", "FanGetInfo", "FanSetLimits",
    "VoltageGetInfo", "VoltageSetLimits"}
PassesNone == {"TemperatureSetLimits"}

\* These may bring less than was asked for; the library then fails.
MayBringLess == {"StorageAreaRead", "I2CRead", "I2CWriteReadCombined"}

\* The library's question: the function, a unit by its number or as the ith of
\* a type, a register of a device, masks or a value, and whether sizes fit.
Question(f, t, i, reg, m, fits) == [f |-> f, t |-> t, i |-> i, reg |-> reg, m |-> m, fits |-> fits]
ValueOf(a) == CASE a.f = "StorageAreaErase" -> Bits
                [] a.f \in {"StorageAreaLock", "WDogTrigger", "VgaEndDarkBoot"} -> {1}
                [] a.f \in {"StorageAreaUnlock", "WDogDisable", "CgbcGetInfo"} -> {}
                [] OTHER -> a.m[1]

-----------------------------------------------------------------------------
(* The board, and the units a question is translated to.                   *)

\* The board: types of its storage areas and of its I2C busses.
Areas == <<1, 2, 1>>
Busses == <<1, 2>>
Units == 0..3

\* The units of a type, all of them for type zero, and the ith of them.
OfType(list, t) == {u \in DOMAIN list : t = 0 \/ list[u] = t}
Nth(list, t, i) == {u \in OfType(list, t) : Cardinality({w \in OfType(list, t) : w < u}) = i}
UnitOf(a) == CASE Fct(a.f) \in AreaFcts -> Nth(Areas, a.t, a.i)
               [] Fct(a.f) \in BusFcts /\ a.t # 0 -> Nth(Busses, a.t, a.i)
               [] OTHER -> {a.i + 1}

\* What the driver passes on as it came: transfers and the watchdog's settings.
Untranslated == {"I2CRead", "I2CWrite", "I2CReadRegister", "I2CWriteRegister",
                 "I2CWriteReadCombined", "WDogSetConfig", "WDogDisable"}
Passed(a) == IF Fct(a.f) \notin Untranslated THEN CHOOSE u \in UnitOf(a) : TRUE
             ELSE IF a.t = 0 THEN a.i + 1 ELSE 0

KeyOf(f, reg, unit) == <<CASE f \in Untranslated \cap BusFcts -> reg
                           [] f \in {"WDogSetConfig", "WDogDisable"} -> "wdog"
                           [] f = "IOXorAndXor" -> "pins"
                           [] f = "Cgeb" -> "any"
                           [] f \in DOMAIN Thing -> Thing[f]
                           [] OTHER -> "info", unit>>

\* The CGEB's steps for a function: read, write, write what was read turned,
\* and on an I2C bus begin, go on, end and fetch.
Steps(f) ==
    CASE f = "IOXorAndXor" -> <<"load", "turn">>
      [] f = "I2CRead" -> <<"fetch">>
      [] f = "I2CWrite" -> <<"begin", "end">>
      [] f = "I2CReadRegister" -> <<"begin", "fetch">>
      [] f = "I2CWriteRegister" -> <<"whole">>
      [] f = "I2CWriteReadCombined" -> <<"begin", "on", "fetch">>
      [] f \in {"I2CType", "I2CGetMaxFrequency", "IOIsAvailable", "IOGetDirectionCaps",
                "IOGetNameA", "Cgeb"} -> <<"get">>
      [] f \in Puts \cup {"WDogSetConfig", "WDogDisable"} -> <<"put">>
      [] f \in DOMAIN Thing \ Puts -> <<"get">>
      [] OTHER -> <<>>

-----------------------------------------------------------------------------

VARIABLES
    scene,   \* what the programs ask for; never changes
    drv,     \* the driver: its state, how far a board is being opened, what it holds
    sem,     \* the request the driver serves, or none
    cdv,     \* the driver's variables: whose request, its unit, register and masks
    lib,     \* of each program: calls of Initialize that count, and its board
    call,    \* of each program: its call, and what it has been told
    brd,     \* the board's values, the transfers begun on its busses, what was asked
    worn     \* steps that failed, and calls made

cgosVars == <<scene, drv, sem, cdv, lib, call, brd, worn>>

NoAsk == Question("none", 0, 0, "none", <<{}, {}, {}>>, TRUE)
NoCall == [at |-> "idle", ask |-> NoAsk, i |-> 1, more |-> 0, loc |-> {}, got |-> {},
           status |-> "ok", seen |-> {}, told |-> [ask |-> NoAsk, ok |-> TRUE, got |-> {}, seen |-> {}]]

\* Opening a board: what each stage adds to what the driver holds, and drops.
Stages == <<[adds |-> {"window"}, drops |-> {}], [adds |-> {"hi"}, drops |-> {}],
            [adds |-> {"code"}, drops |-> {"hi"}], [adds |-> {}, drops |-> {}],
            [adds |-> {"data"}, drops |-> {}], [adds |-> {}, drops |-> {}],
            [adds |-> {"maps"}, drops |-> {}], [adds |-> {}, drops |-> {"window"}]>>
Bases == 4   \* addresses a board is looked for at

Absent == [at |-> "absent", cdv |-> FALSE, boards |-> 0, base |-> 0, stage |-> 1, holds |-> {}]
Ready == [at |-> "ready", cdv |-> TRUE, boards |-> 1, base |-> 1, stage |-> 1,
          holds |-> {"cdv", "code", "data", "maps"}]

CgosInit ==
    /\ scene \in Scenes
    /\ drv = IF scene.loaded THEN Ready ELSE Absent
    /\ sem = "none" /\ cdv = [by |-> CHOOSE p \in Progs : TRUE, unit |-> 0, reg |-> "none", m |-> NoAsk.m]
    /\ lib = [p \in Progs |-> IF p \in scene.open THEN [inits |-> 1, board |-> 1]
                               ELSE [inits |-> 0, board |-> 0]]
    /\ call = [p \in Progs |-> NoCall]
    /\ brd = [val |-> scene.val, begun |-> [u \in Units |-> "none"]]
    /\ worn = [faults |-> 0, calls |-> [p \in Progs |-> 0]]

-----------------------------------------------------------------------------
(* Loading the driver.  The device is there before a board is open.        *)

Spend == worn' = [worn EXCEPT !.faults = @ + 1]
MayFail == worn.faults < CgosFaults
NoCalls == UNCHANGED <<scene, sem, cdv, lib, call, brd>>

Load(ok) ==
    /\ drv.at = "absent"
    /\ drv' = [Absent EXCEPT !.at = "opening", !.cdv = ok, !.base = IF ok THEN 1 ELSE Bases + 1,
                             !.holds = IF ok THEN {"cdv"} ELSE {}]
    /\ (~ok => MayFail) /\ (IF ok THEN UNCHANGED worn ELSE Spend)
    /\ NoCalls

\* A stage of opening the board at one of the addresses.
Stage ==
    /\ drv.at = "opening" /\ drv.base <= Bases
    /\ LET s == Stages[drv.stage]
           held == (drv.holds \cup s.adds) \ s.drops IN
       drv' = IF drv.stage < Len(Stages)
              THEN [drv EXCEPT !.stage = @ + 1, !.holds = held]
              ELSE [drv EXCEPT !.at = "ready", !.boards = 1, !.stage = 1, !.holds = held]
    /\ UNCHANGED worn /\ NoCalls

\* (mutant) the mappings of a board that could not be opened are kept.
StageFailsHolding ==
    /\ drv.at = "opening" /\ drv.base <= Bases
    /\ drv' = [drv EXCEPT !.base = @ + 1, !.stage = 1, !.holds = @ \ {"window", "hi", "data", "code"}]
    /\ UNCHANGED worn /\ NoCalls

\* Nothing, or nothing usable, is at the address: CgebClose gives up what was
\* held of this board.
StageFails ==
    /\ drv.at = "opening" /\ drv.base <= Bases
    /\ drv' = [drv EXCEPT !.base = @ + 1, !.stage = 1, !.holds = {"cdv"}]
    /\ UNCHANGED worn /\ NoCalls

\* No board at any of the addresses: the driver is loaded all the same.
Boardless ==
    /\ drv.at = "opening" /\ drv.base > Bases
    /\ drv' = [drv EXCEPT !.at = "ready"]
    /\ UNCHANGED worn /\ NoCalls

\* The kernel keeps the module as long as a program has the device open.
Unload ==
    /\ drv.at = "ready" /\ \A p \in Progs : lib[p].inits = 0
    /\ drv' = Absent
    /\ UNCHANGED worn /\ NoCalls

-----------------------------------------------------------------------------
(* The library's side of a call.                                           *)

\* What a level on the wires is: an output port of the expander is wired to its
\* input port, whose pins are high while the outputs are not driven.
Level(v, k) == CASE k[1] = "info" -> {1}
                 [] k[1] = "in" -> IF v[<<"cfg1", k[2]>>] = {} THEN v[<<"out", k[2]>>] ELSE Bits
                 [] OTHER -> v[k]
Known(v, k) == k[1] = "info" \/ (IF k[1] = "in" THEN <<"out", k[2]>> ELSE k) \in DOMAIN v

OwnKey(a) == KeyOf(Fct(a.f), a.reg, Passed(a))
Looks(v, a) == IF UnitOf(a) # {} /\ Known(v, OwnKey(a)) THEN {Level(v, OwnKey(a))} ELSE {}

\* Everyone in a call notes what the value he asks for has been since.
Watch(cs, v) == [q \in Progs |-> [cs[q] EXCEPT
    !.seen = IF cs[q].at \in {"down", "in"} THEN @ \cup Looks(v, cs[q].ask) ELSE @]]

Tell(c, ok, got) == [NoCall EXCEPT
    !.told = [ask |-> c.ask, ok |-> ok, got |-> got, seen |-> c.seen]]

Counted(p) == worn' = [worn EXCEPT !.calls[p] = @ + 1]
CanCall(p) == call[p].at = "idle" /\ worn.calls[p] < scene.calls[p]

\* The library refuses while it is not initialized; else it asks the driver.
Issue(p, a) ==
    /\ CanCall(p) /\ Counted(p)
    /\ call' = [call EXCEPT ![p] =
          IF lib[p].inits = 0 THEN Tell([NoCall EXCEPT !.ask = a], FALSE, {})
          ELSE [@ EXCEPT !.at = "down", !.ask = a, !.i = 1, !.more = 0, !.loc = {}, !.got = {},
                         !.status = "ok", !.seen = Looks(brd.val, a)]]
    /\ UNCHANGED <<scene, drv, sem, cdv, lib, brd>>

\* Initialize counts once, however often it is called; it opens the device and
\* asks for the driver's version.
LibInitialize(p) ==
    LET a == Question("LibInitialize", 0, 0, "none", NoAsk.m, TRUE)
        opens == lib[p].inits = 0 /\ drv.at # "absent" IN
    /\ CanCall(p) /\ Counted(p)
    /\ call' = [call EXCEPT ![p] =
          IF opens THEN [NoCall EXCEPT !.at = "down", !.ask = a, !.told = @ ]
          ELSE Tell([NoCall EXCEPT !.ask = a], lib[p].inits > 0, {})]
    /\ lib' = [lib EXCEPT ![p].inits = IF opens THEN 1 ELSE @]
    /\ UNCHANGED <<scene, drv, sem, cdv, brd>>

\* Uninitialize, or the program ends, also killed while the driver serves it,
\* which finishes first: the device is closed.
LibUninitialize(p) ==
    /\ call[p].at = "idle" /\ lib[p].inits > 0
    /\ lib' = [lib EXCEPT ![p] = [inits |-> 0, board |-> 0]]
    /\ UNCHANGED <<scene, drv, sem, cdv, call, brd, worn>>

\* Install has modprobe load the driver and waits for it; it may fail.
LibInstall(p) ==
    /\ CanCall(p) /\ Counted(p)
    /\ call' = [call EXCEPT ![p] = [NoCall EXCEPT !.at = "install",
          !.ask = Question("LibInstall", 0, 0, "none", NoAsk.m, TRUE)]]
    /\ UNCHANGED <<scene, drv, sem, cdv, lib, brd>>

Installed(p, ok) ==
    /\ call[p].at = "install"
    /\ IF ok THEN drv.at = "ready" /\ UNCHANGED worn ELSE drv.at = "absent" /\ MayFail /\ Spend
    /\ call' = [call EXCEPT ![p] = Tell(@, ok, {})]
    /\ UNCHANGED <<scene, drv, sem, cdv, lib, brd>>

-----------------------------------------------------------------------------
(* The driver's side: one request at a time.                               *)

Refused(a, board) ==
    \/ drv.at # "ready" \/ ~drv.cdv
    \/ Fct(a.f) \notin NoHandle /\ board \notin 1..drv.boards
    \/ UnitOf(a) = {} \/ a.f \in PassesNone \/ (a.f \in Sized /\ ~a.fits)

\* (mutant) the requests are not served one at a time.
EnterAtOnce(p) ==
    /\ call[p].at = "down" /\ ~Refused(call[p].ask, lib[p].board)
    /\ sem' = p
    /\ LET a == call[p].ask IN
       cdv' = [by |-> p, unit |-> Passed(a), reg |-> a.reg, m |-> a.m]
    /\ call' = [call EXCEPT ![p].at = "in"]
    /\ UNCHANGED <<scene, drv, lib, brd, worn>>

Enter(p) ==
    /\ call[p].at = "down" /\ sem = "none" /\ ~Refused(call[p].ask, lib[p].board)
    /\ sem' = p
    /\ LET a == call[p].ask IN
       cdv' = [by |-> p, unit |-> Passed(a), reg |-> a.reg, m |-> a.m]
    /\ call' = [call EXCEPT ![p].at = "in"]
    /\ UNCHANGED <<scene, drv, lib, brd, worn>>

\* A request the driver refuses, or cannot take, tells no reason; a library
\* that was opening the device closes it.
Closes(p, ok) == IF call[p].ask.f = "LibInitialize" /\ ~ok
                 THEN lib' = [lib EXCEPT ![p] = [inits |-> 0, board |-> 0]]
                 ELSE UNCHANGED lib

Reject(p) ==
    /\ call[p].at = "down" /\ sem = "none"
    /\ IF Refused(call[p].ask, lib[p].board) THEN UNCHANGED worn ELSE MayFail /\ Spend
    /\ call' = [call EXCEPT ![p] = Tell(@, FALSE, {})]
    /\ Closes(p, FALSE)
    /\ UNCHANGED <<scene, drv, sem, cdv, brd>>

StepsOf(p) == Steps(Fct(call[p].ask.f))
Serving(p) == call[p].at = "in" /\ call[p].i <= Len(StepsOf(p))

\* The CGEB wants to be called again, at once or when the driver has slept.
Again(p) ==
    /\ Serving(p) /\ call[p].more < MoreSteps
    /\ call' = [call EXCEPT ![p].more = @ + 1]
    /\ UNCHANGED <<scene, drv, sem, cdv, lib, brd, worn>>

Key(p) == KeyOf(Fct(call[p].ask.f), cdv.reg, cdv.unit)
Given(p) == ValueOf([call[p].ask EXCEPT !.m = cdv.m])

\* A step that fails ends the request, and leaves a transfer begun; that units
\* can be counted is taken for granted.
CgebFails(p) ==
    /\ Serving(p)
    /\ IF Known(brd.val, Key(p)) THEN MayFail /\ Spend ELSE UNCHANGED worn
    /\ call' = [call EXCEPT ![p].i = Len(StepsOf(p)) + 1,
                            ![p].status = IF call[p].ask.f = "IOIsAvailable" THEN "ok" ELSE "bad"]
    /\ UNCHANGED <<scene, drv, sem, cdv, lib, brd>>

\* A step of the CGEB, with what the driver's variables hold; what it reads goes
\* to the buffer they point to, perhaps less than was asked for.
Cgeb(p, less) ==
    LET s == StepsOf(p)[call[p].i]
        k == Key(p)
        m == cdv.m
        val == CASE s = "turn" -> [brd.val EXCEPT ![k] = Flip(Flip(call[p].loc, m[1]) \cap m[2], m[3])]
                 [] s \in {"put", "end", "whole"} -> [brd.val EXCEPT ![k] = Given(p)]
                 [] OTHER -> brd.val IN
    /\ Serving(p) /\ Known(brd.val, k)
    /\ (less => s \in {"get", "fetch"} /\ call[p].ask.f \in MayBringLess /\ MayFail)
    /\ IF less THEN Spend ELSE UNCHANGED worn
    /\ brd' = [val |-> val,
               begun |-> CASE s = "begin" -> [brd.begun EXCEPT ![k[2]] = p]
                           [] s \in {"end", "whole", "fetch"} -> [brd.begun EXCEPT ![k[2]] = "none"]
                           [] OTHER -> brd.begun]
    /\ call' = Watch([call EXCEPT
          ![p].i = @ + 1, ![p].status = IF less THEN "less" ELSE @,
          ![p].loc = IF s = "load" THEN Level(brd.val, k) ELSE @,
          ![cdv.by].got = IF s \in {"get", "fetch"} THEN Level(brd.val, k) ELSE @], val)
    /\ UNCHANGED <<scene, drv, sem, cdv, lib>>

\* What the driver answers itself, or nothing.
Own(a, board) ==
    LET f == Fct(a.f) IN
    CASE f = "BoardCount" -> {Num(drv.boards)}
      [] f = "BoardOpen" -> IF a.i < drv.boards THEN {Num(a.i + 1)} ELSE {}
      [] f = "BoardOpenByNameA" -> IF a.fits /\ drv.boards > 0 THEN {Num(1)} ELSE {}
      [] f = "StorageAreaCount" -> {Num(Cardinality(OfType(Areas, a.t)))}
      [] f = "StorageAreaType" -> {Num(Areas[Passed(a)])}
      [] f = "I2CCount" -> {Num(Len(Busses))}
      [] f = "I2CIsAvailable" -> {Num(IF Passed(a) \in DOMAIN Busses THEN 1 ELSE 0)}
      [] f = "CgebTransAddr" -> {a.m[1]}
      [] f = "CgebDbgLevel" -> {Num(board)}
      [] f \in NotImplemented -> {}
      [] OTHER -> {{1}}

\* The driver is free again; the library copies what it got to the program.
Finish(p) ==
    LET c == call[p]
        own == StepsOf(p) = <<>>
        answer == Own(c.ask, lib[p].board)
        done == IF own THEN answer # {} ELSE c.status = "ok"
        got == IF own /\ done THEN CHOOSE v \in answer : TRUE ELSE c.got
        ok == done /\ c.ask.f # "CgbcGetInfo" /\ (Fct(c.ask.f) \in ByValue => got # {}) IN
    /\ c.at = "in" /\ ~Serving(p)
    /\ sem' = "none"
    /\ call' = [call EXCEPT ![p] = Tell(@, ok, IF ok THEN got ELSE {})]
    /\ IF ok /\ Fct(c.ask.f) \in {"BoardOpen", "BoardOpenByNameA"}
       THEN lib' = [lib EXCEPT ![p].board = 1] ELSE Closes(p, ok)
    /\ UNCHANGED <<scene, drv, cdv, brd, worn>>

\* What is measured changes.
Drift(k) ==
    /\ k \in scene.drifts /\ MayFail /\ Spend
    /\ brd' = [brd EXCEPT !.val[k] = Flip(@, {1})]
    /\ call' = Watch(call, brd'.val)
    /\ UNCHANGED <<scene, drv, sem, cdv, lib>>

DriverNext == \/ \E ok \in BOOLEAN : Load(ok)
              \/ Stage \/ StageFails \/ Boardless \/ Unload

Serve(p) == \/ \E ok \in BOOLEAN : Installed(p, ok)
            \/ Enter(p) \/ Reject(p) \/ Again(p) \/ CgebFails(p)
            \/ \E less \in BOOLEAN : Cgeb(p, less)
            \/ Finish(p)

CgosNext == \/ DriverNext
            \/ \E p \in scene.free, a \in scene.asks : Issue(p, a)
            \/ \E p \in scene.opens : LibInitialize(p) \/ LibUninitialize(p) \/ LibInstall(p)
            \/ \E p \in Progs : Serve(p)
            \/ \E k \in scene.drifts : Drift(k)

-----------------------------------------------------------------------------

Reads(a) == "get" \in {Steps(Fct(a.f))[i] : i \in DOMAIN Steps(Fct(a.f))}
            \/ "fetch" \in {Steps(Fct(a.f))[i] : i \in DOMAIN Steps(Fct(a.f))}
Writes(a) == \E i \in DOMAIN Steps(Fct(a.f)) : Steps(Fct(a.f))[i] \in {"put", "end", "whole"}

\* A question a program may ask: nobody writes the expander's input registers.
Askable(a) == /\ a = Question(a.f, a.t, a.i, a.reg, a.m, a.fits)
              /\ Writes(a) => a.reg \notin {"in", "info"}

ASSUME CgosAssumption ==
    /\ "none" \notin Progs
    /\ \A s \in Scenes :
         /\ s.loaded \in BOOLEAN /\ s.free \cup s.opens \subseteq Progs
         /\ DOMAIN s.val \subseteq STRING \X Units /\ s.val \in [DOMAIN s.val -> SUBSET Bits]
         /\ \A a \in s.asks : Askable(a)

\* Whatever other programs ask at the same time: what a call that succeeds was
\* told is what the thing it asked for was at some time during the call, and
\* what it set was then set.  (CallDrvPlain, CallDrvStruct, cgos_ioctl)
CgosTold ==
    \A p \in Progs : LET t == call[p].told IN
        t.ok => /\ Reads(t.ask) /\ OwnKey(t.ask)[1] # "info" => t.got \in t.seen
                /\ Writes(t.ask) => ValueOf(t.ask) \in t.seen

\* A value of the board changes by itself or as the call being served asks,
\* pins that are turned from what they are now; and a transfer that goes on was
\* begun by the same call.  (UlaDeviceIoControl, zCgosIOXorAndXor, I2CTransfer)
ObeysOf(p, k) ==
    LET a == call[p].ask IN
    /\ call[p].at = "in" /\ k = OwnKey(a)
    /\ IF Fct(a.f) = "IOXorAndXor"
       THEN brd.val'[k] = Flip(Flip(brd.val[k], a.m[1]) \cap a.m[2], a.m[3])
       ELSE Writes(a) /\ brd.val'[k] = ValueOf(a)
    /\ (a.f = "I2CWrite" => brd.begun[k[2]] = p)
CgosObeyed ==
    [][\A k \in DOMAIN brd.val : brd.val'[k] # brd.val[k] =>
           k \in scene.drifts \/ \E p \in Progs : ObeysOf(p, k)]_cgosVars

\* A driver that is loaded holds what its board needs and nothing of boards that
\* could not be opened, and one that is gone holds nothing.  (CgebOpenRaw,
\* CgebClose, UlaCloseDriver)
DriverTidy ==
    /\ drv.at = "absent" => drv.holds = {}
    /\ drv.at = "ready" => drv.holds = IF drv.boards = 1 THEN Ready.holds
                                       ELSE IF drv.cdv THEN {"cdv"} ELSE {}
=============================================================================
