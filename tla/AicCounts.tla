------------------------------ MODULE AicCounts ------------------------------
(***************************************************************************)
(* What a program linked with EKit_L/DMCI.c believes about the AIC, the    *)
(* microcontroller behind the SMBus: its identity, its counts and its      *)
(* version strings.  All of it is read once and cached in static           *)
(* variables, in several transfers each of which may fail, while other     *)
(* programs have transfers of their own between them.                      *)
(*                                                                         *)
(* One action is one SMBus transfer (see SmbusLock) with the decisions     *)
(* taken on it, up to the next transfer.  Nothing keeps two programs apart *)
(* between the transfers of a call: the body of EkSMBusBlockWait, which    *)
(* takes a mutex on Windows, is commented out in the Linux build, the one  *)
(* that is shipped.  So what needs several transfers is said of a program  *)
(* that is alone with the AIC.  The password of EkRPDMICheck is off, as it *)
(* is for every program that does not ask for it.                          *)
(***************************************************************************)
EXTENDS Naturals

CONSTANTS
    Procs,
    Scenes,    \* the parts of the behaviours a run considers, and for each
    Who,       \* ... the programs that make calls
    Uses,      \* ... the calls they make
    Boards,    \* ... the boards they may run on
    MaxFaults, \* ... bound: transfers that fail
    N,         \* PoE ports of a group, 4 in the code
    None

\* groups: firmware 1.01 and later; blank: a flash that was never written.
AllBoards == [groups : BOOLEAN, v2c : BOOLEAN, blank : BOOLEAN, main : {0, N},
              pcie : {0, N}, com : 0..2, usb : {0, 2}, fan : {0, 2}, vers : {0, 2}]

ASSUME CountsAssumption ==
    /\ N \in Nat \ {0} /\ None \notin Procs
    /\ Who \in [Scenes -> SUBSET Procs] /\ MaxFaults \in [Scenes -> Nat]
    /\ DOMAIN Boards = Scenes /\ \A s \in Scenes : Boards[s] \subseteq AllBoards

VARIABLES
    scene,     \* never changes
    board,     \* the AIC: what its flash and its firmware hold
    poeinfo,   \* the AIC: what POEINFO was last written with
    lib,       \* for each program the static variables of the library
    pc,        \* for each program the transfer it is about to make
    op,        \* for each program the call it is in, or was in last
    err,       \* TRUE when Err is not DMCI_SUCCESS
    ret,       \* what the last call returned: "none" before it has
    faults     \* transfers that have failed

countVars == <<scene, board, poeinfo, lib, pc, op, err, ret, faults>>

Groups == 0..3     \* GROUP_IDX_MAIN, _IOM1, _IOM2, _PCIE
Main == 0
Pcie == 3
Get == 4           \* POEINFO_GET

Queries == {"GetID", "AICVerify", "GetBoardID", "GetFW", "GetBootLoad",
            "GetTemperature"}
PoeVerifies == {"GetBuzConfig", "SetBuzConfig"}
PoeInfos == {"GetPOEInfos_1", "GetPOEInfo_1", "GetPOEInfos", "GetPOEInfo"}
PoeCounts == {"GetCount", "GetPOEConfig", "SetPOEConfig", "GetPOEStats",
              "GetPOEStat", "GetPOEConfigs_1", "GetPOEConfig_1", "SetPOEConfigs_1",
              "SetPOEConfig_1", "GetPOEStats_1", "GetPOEStatsNI_1", "GetPOEStat_1"}
PoeCalls == PoeVerifies \cup PoeInfos \cup PoeCounts

COMCalls == {"GetCOMInfos", "GetCOMInfo", "GetCOMConfigs", "GetCOMConfig",
             "SetCOMConfigs", "SetCOMConfig"}
USBInfos == {"GetUSBInfos", "GetUSBInfo"}
USBCalls == USBInfos \cup {"GetUSBConfigs", "GetUSBConfig", "SetUSBConfigs", "SetUSBConfig"}
FanInfos == {"GetFanInfos", "GetFanInfo"}
FanCalls == FanInfos \cup
    {"GetFanConfigs", "GetFanConfigsNI", "GetFanConfig", "GetFanConfigNI", "SetFanConfigs",
     "SetFanConfigsNI", "SetFanConfig", "GetFanConfigs_1", "GetFanConfig_1",
     "SetFanConfigs_1", "SetFanConfigsNI_1", "SetFanConfig_1", "GetFanStats", "GetFanStat"}
HWMonCalls == {"GetHWMonInfosA", "GetHWMonInfoA", "GetHWMonStats", "GetHWMonStat"}
MiniInfos == {"GetminiPCIeInfos", "GetminiPCIeInfo"}
MiniCalls == MiniInfos \cup {"GetminiPCIeConfigs", "GetminiPCIeConfig", "SetminiPCIeConfigs",
                             "SetminiPCIeConfig", "GetminiPCIeStats", "GetminiPCIeStat"}
Meters == {"GetPower", "GetTotalOnTimeMins", "GetOnTimeSecs", "GetPowerCounter",
           "GetBootCounter", "GetLastPowerStatus"}
PlainCalls == Meters \cup
    {"GetLANConfig", "SetLANConfig", "GetPowerConfig", "SetPowerConfig",
     "GetPowerupWDTConfig", "SetPowerupWDTConfig", "SetPowerupWDTConfigNI",
     "GetRuntimeWDTConfig", "SetRuntimeWDTConfig", "GetRuntimeWDTStat"}

\* Calls that want the AIC verified and no count.
VerifyCalls == PoeVerifies \cup MiniCalls \cup PlainCalls
Calls == Queries \cup PoeCalls \cup COMCalls \cup USBCalls \cup FanCalls \cup HWMonCalls
         \cup VerifyCalls

CountSteps == {"privilege", "select", "flash", "askinfo", "info", "group"}
QuerySteps == {"board", "vers", "more", "temp"}

Statics == [id : BOOLEAN, mini : {0, 3}, det : BOOLEAN, poe : BOOLEAN,
            cnt : [Groups -> {0, N}], bound : [Groups -> {0, N, 2 * N, 6 * N}],
            com : 0..2, setcom : 0..2, usb : {0, 2}, fan : {0, 2}, board : BOOLEAN,
            GetFW : 0..2, GetBootLoad : 0..2]

Unknown == [id |-> FALSE, mini |-> 0, det |-> FALSE, poe |-> FALSE,
            cnt |-> [g \in Groups |-> 0], bound |-> [g \in Groups |-> 0],
            com |-> 0, setcom |-> 0, usb |-> 0, fan |-> 0, board |-> FALSE,
            GetFW |-> 0, GetBootLoad |-> 0]

CountsInit ==
    /\ scene \in Scenes /\ board \in Boards[scene]
    /\ poeinfo = Main
    /\ lib = [p \in Procs |-> Unknown]
    /\ pc = [p \in Procs |-> "idle"]
    /\ op = [p \in Procs |-> "none"]
    /\ err = [p \in Procs |-> FALSE]
    /\ ret = [p \in Procs |-> "none"]
    /\ faults = 0

-----------------------------------------------------------------------------
Goto(p, l) == pc' = [pc EXCEPT ![p] = l]
Learn(p, l) == lib' = [lib EXCEPT ![p] = l]
SetErr(p, e) == err' = [err EXCEPT ![p] = e]

\* EkSMBusBlockRead: the outcome is the bus's.
Read(ok) ==
    /\ ok \/ faults < MaxFaults[scene]
    /\ faults' = IF ok THEN faults ELSE faults + 1
    /\ UNCHANGED <<board, poeinfo>>

\* EkSMBusBlockWrite of POEINFO.
WriteInfo(ok, x) ==
    /\ ok \/ faults < MaxFaults[scene]
    /\ faults' = IF ok THEN faults ELSE faults + 1
    /\ poeinfo' = IF ok THEN x ELSE poeinfo
    /\ UNCHANGED board

\* The call is over: EkSMBusBlockRelease (empty), EkDBGErrLog, the return value.
Return(p, ok) ==
    /\ Goto(p, "idle")
    /\ ret' = [ret EXCEPT ![p] = IF ok THEN "true" ELSE "false"]
    /\ SetErr(p, ~ok)
    /\ UNCHANGED op

Continue(p, l) == Goto(p, l) /\ UNCHANGED <<op, ret>>

\* The transfer a call starts with once the AIC has been verified.
FirstStep(o) ==
    CASE o = "GetBoardID" -> "board"
      [] o \in {"GetFW", "GetBootLoad"} -> "vers"
      [] o = "GetTemperature" -> "temp"
      [] o \in VerifyCalls -> "args"
      [] o \in HWMonCalls -> "gain"
      [] OTHER -> "privilege"

\* Answered from the cache, without a transfer.
Cached(l, o) == CASE o \in {"GetID", "AICVerify"} -> l.id
                  [] o = "GetBoardID" -> l.board
                  [] o \in {"GetFW", "GetBootLoad"} -> l[o] > 0
                  [] OTHER -> FALSE

\* A call begins: EkSMBusBlockWait returns TRUE at once.
Enter(p, o, l) ==
    /\ pc[p] = "idle" /\ Goto(p, l) /\ SetErr(p, FALSE)
    /\ op' = [op EXCEPT ![p] = o] /\ ret' = [ret EXCEPT ![p] = "none"]
    /\ UNCHANGED <<board, poeinfo, lib, faults>>

Hit(p, o) ==
    /\ pc[p] = "idle" /\ Cached(lib[p], o)
    /\ op' = [op EXCEPT ![p] = o]
    /\ ret' = [ret EXCEPT ![p] = "true"]
    /\ SetErr(p, FALSE)
    /\ UNCHANGED <<board, poeinfo, lib, pc, faults>>

Query(p, o) == IF Cached(lib[p], o) THEN Hit(p, o)
               ELSE Enter(p, o, IF lib[p].id THEN FirstStep(o) ELSE "efcoid")

\* EkSMBusGetAICEFCOID, in EkVerifyAICEFCOID for every call but GetID.
EfcoId(p, ok) ==
    /\ pc[p] = "efcoid" /\ Read(ok)
    /\ Learn(p, IF ~ok THEN lib[p]
                ELSE [lib[p] EXCEPT !.id = TRUE, !.mini = IF op[p] = "GetID" THEN @ ELSE 3])
    /\ IF ok /\ op[p] \notin {"GetID", "AICVerify"}
       THEN Continue(p, FirstStep(op[p])) /\ UNCHANGED err
       ELSE Return(p, ok)

BoardId(p, ok) ==
    /\ pc[p] = "board" /\ Read(ok)
    /\ Learn(p, [lib[p] EXCEPT !.board = ok])
    /\ Return(p, ok)

\* EkDMCiGetFW and EkGetBootLoad: a string in two reads; what has been read
\* when one fails is what is cached.
Vers(p, ok) ==
    /\ pc[p] = "vers" /\ Read(ok)
    /\ IF ok /\ board.vers > 0
       THEN /\ Learn(p, [lib[p] EXCEPT ![op[p]] = 1])
            /\ Continue(p, "more") /\ UNCHANGED err
       ELSE Learn(p, lib[p]) /\ Return(p, FALSE)

VersMore(p, ok) ==
    /\ pc[p] = "more" /\ Read(ok)
    /\ Learn(p, [lib[p] EXCEPT ![op[p]] = IF ok THEN board.vers ELSE @])
    /\ Return(p, TRUE)

Temperature(p, ok) ==
    /\ pc[p] = "temp" /\ Read(ok)
    /\ UNCHANGED lib /\ Return(p, ok)

-----------------------------------------------------------------------------
(* EkSMBusGetCount.  A failed step of the first half, the counts in the    *)
(* flash, goes on to the second half, the PoE groups, which may succeed.   *)

\* The write of the key that opens the flash.
Privilege(p, ok) ==
    /\ pc[p] = "privilege" /\ Read(ok)
    /\ SetErr(p, ~ok)
    /\ Continue(p, IF ok THEN "select" ELSE "askinfo") /\ UNCHANGED lib

SelectCounts(p, ok) ==
    /\ pc[p] = "select" /\ Read(ok)
    /\ SetErr(p, ~ok)
    /\ Continue(p, IF ok THEN "flash" ELSE "askinfo") /\ UNCHANGED lib

\* A flash of only 0x00 or only 0xFF counts as unreadable.
ReadCounts(p, ok) ==
    /\ pc[p] = "flash" /\ Read(ok)
    /\ SetErr(p, ~ok \/ board.blank)
    /\ Learn(p, IF ok /\ ~board.blank
                THEN [lib[p] EXCEPT !.det = TRUE, !.setcom = board.com, !.usb = board.usb,
                                    !.fan = board.fan, !.cnt[Main] = board.main]
                ELSE lib[p])
    /\ Continue(p, "askinfo")

AskPoeInfo(p, ok) ==
    /\ pc[p] = "askinfo" /\ WriteInfo(ok, Get)
    /\ SetErr(p, err[p] \/ ~ok)
    /\ Continue(p, "info") /\ UNCHANGED lib

\* What EkSMBusGetCount sets last: the greatest id of each group.
Bounds(l) == [g \in Groups |-> IF ~l.poe THEN N
                               ELSE CASE g = 0 -> N
                                      [] g = 1 -> IF board.v2c THEN N ELSE 2 * N
                                      [] g = 2 -> 2 * N
                                      [] OTHER -> 6 * N]

Total(l) == l.cnt[Main] + l.cnt[Pcie]   \* POETotal; an IOM never has ports

\* (mutant) the bounds are set whatever counting returned.
CountedAnyway(p, l, e) ==
    /\ Learn(p, [l EXCEPT !.bound = Bounds(l)])
    /\ IF e THEN Return(p, FALSE) ELSE Continue(p, "args") /\ UNCHANGED err

\* A call for infos looks at the counts alone, whatever counting returned.
CountKnown(l, o) == \/ o \in PoeInfos /\ Total(l) > 0
                    \/ o \in USBInfos /\ l.usb > 0
                    \/ o \in FanInfos /\ l.fan > 0
Counted(p, l, e) ==
    IF e /\ ~CountKnown(l, op[p]) THEN Learn(p, l) /\ Return(p, FALSE)
    ELSE IF e THEN Learn(p, l) /\ Continue(p, "args") /\ UNCHANGED err
    ELSE Learn(p, [l EXCEPT !.bound = Bounds(l)]) /\ Continue(p, "args") /\ UNCHANGED err

\* (mutant) an answer that does not come counts as one of old firmware.
ReadPoeInfoDeaf(p, ok) ==
    /\ pc[p] = "info" /\ Read(ok)
    /\ IF ok /\ board.groups /\ poeinfo = Get
       THEN UNCHANGED <<lib, err>> /\ Continue(p, "group")
       ELSE Counted(p, lib[p], err[p])

\* The length of the answer tells the firmware: a new one answers GET with
\* one byte, and every firmware answers anything else with nine.
ReadPoeInfo(p, ok) ==
    /\ pc[p] = "info" /\ Read(ok)
    /\ IF ok /\ board.groups /\ poeinfo = Get
       THEN UNCHANGED <<lib, err>> /\ Continue(p, "group")
       ELSE Counted(p, lib[p], err[p] \/ ~ok)

SelectMain(p, ok) ==
    /\ pc[p] = "group" /\ WriteInfo(ok, Main)
    /\ Counted(p, IF ok THEN [lib[p] EXCEPT !.poe = TRUE, !.cnt[Pcie] = board.pcie]
                  ELSE lib[p], err[p] \/ ~ok)

\* EkDetectHWCnt, once EkSMBusGetCount has returned TRUE.
Detected(l) == [l EXCEPT !.com = IF @ > 0 THEN @ ELSE l.setcom]
HasHW(l) == Detected(l).com > 0 \/ l.cnt[Main] > 0

\* The counts are asked for once: COMCnt, and else DETECTCOUNT, is the mark.
CountEntry(l) == IF l.com > 0 \/ (l.det /\ l.id) THEN "args"
                 ELSE IF l.id THEN "privilege" ELSE "efcoid"

\* A call that only counts: EkDMCiSMBGetCOMInfos without an array.
CountOnly(p) == Enter(p, "GetCount", CountEntry(lib[p]))

CountDone(p) ==
    /\ pc[p] = "args" /\ op[p] = "GetCount"
    /\ Learn(p, Detected(lib[p]))
    /\ Return(p, HasHW(lib[p]))
    /\ UNCHANGED <<board, poeinfo, faults>>

CountStep(p) ==
    \/ \E ok \in BOOLEAN :
         \/ EfcoId(p, ok) \/ Privilege(p, ok) \/ SelectCounts(p, ok)
         \/ ReadCounts(p, ok) \/ AskPoeInfo(p, ok) \/ ReadPoeInfo(p, ok)
         \/ SelectMain(p, ok)

QueryStep(p) ==
    \E ok \in BOOLEAN :
        \/ BoardId(p, ok) \/ Vers(p, ok) \/ VersMore(p, ok) \/ Temperature(p, ok)

\* The calls that ask for no port.
AskCounts(p) ==
    \/ \E o \in Queries \cap Uses[scene] : Query(p, o)
    \/ "GetCount" \in Uses[scene] /\ (CountOnly(p) \/ CountDone(p))
    \/ CountStep(p) \/ QueryStep(p)

CountsNext == UNCHANGED scene /\ \E p \in Who[scene] : AskCounts(p)

CountsSpec == CountsInit /\ [][CountsNext]_countVars

-----------------------------------------------------------------------------
TypeOK ==
    /\ scene \in Scenes /\ board \in AllBoards
    /\ poeinfo \in Groups \cup {Get}
    /\ lib \in [Procs -> Statics]
    /\ op \in [Procs -> Calls \cup {"none"}]
    /\ err \in [Procs -> BOOLEAN]
    /\ ret \in [Procs -> {"none", "true", "false"}]
    /\ faults \in 0..MaxFaults[scene]

Known(p) == lib[p].bound[Main] > 0

\* One program makes all the calls.
Alone == \E p \in Procs : Who[scene] = {p}

\* The bounds are what every PoE call trusts: EkSMBusGetCount sets them only
\* when both the flash and the groups have been read, so the counts they
\* stand for are the board's, whatever failed in earlier attempts.
BoundsMeanCounts == \A p \in Procs : Known(p) =>
    /\ lib[p].cnt[Main] = board.main /\ lib[p].setcom = board.com
    /\ lib[p].usb = board.usb /\ lib[p].fan = board.fan
    /\ lib[p].poe => lib[p].cnt[Pcie] = board.pcie /\ board.groups

\* The firmware is told by the length of an answer: a program that has the AIC
\* for itself and has finished counting takes a board with groups for one with
\* groups, whatever failed before.  Another program that selects a group between
\* the question and the answer makes new firmware look old, for good.
FirmwareKnown == Alone => \A p \in Procs : Known(p) => (lib[p].poe <=> board.groups)

\* The counts are static: once the bounds are known neither they nor the
\* counts change, whatever calls follow, fail or overlap.
CountsStay == [][\A p \in Procs : Known(p) =>
    /\ lib'[p].bound = lib[p].bound /\ lib'[p].cnt = lib[p].cnt
    /\ lib'[p].poe = lib[p].poe /\ lib'[p].setcom = lib[p].setcom
    /\ lib'[p].usb = lib[p].usb /\ lib'[p].fan = lib[p].fan]_countVars
=============================================================================
