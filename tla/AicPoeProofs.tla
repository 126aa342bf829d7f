---------------------------- MODULE AicPoeProofs ----------------------------
(***************************************************************************)
(* What the calls for PoE ports set and tell, within the whole library:    *)
(* for any boards, arrays of ids, firmware and faults.                     *)
(***************************************************************************)
EXTENDS AicLibraryProofs, WellFoundedInduction
-----------------------------------------------------------------------------
(* Which steps a PoE call takes.                                           *)

\* The calls for ports and the buzzer, and where they are while the ports are
\* being counted.
PoeOps == PoeCalls \ {"GetCount"}
PoeStarts == {"args", "efcoid"} \cup Counting
ConfigGets == {"GetPOEConfig", "GetPOEConfigs_1", "GetPOEConfig_1"}
StatGets == {"GetPOEStats", "GetPOEStat", "GetPOEStats_1", "GetPOEStatsNI_1", "GetPOEStat_1"}
SwitchSteps == {"ctrl", "swr", "ssel", "sget", "sdet", "soff"}
OnPoe(p) ==
    /\ op[p] \in PoeInfos => pc[p] \in {"idle", "dead", "hung"} \cup PoeStarts
    /\ op[p] \in ConfigGets => pc[p] \in {"idle", "ctrl", "csel", "cget", "fin"} \cup PoeStarts
    /\ op[p] = "SetPOEConfigs_1" => pc[p] \in {"idle", "group1", "fin"} \cup SwitchSteps \cup PoeStarts
    /\ op[p] = "SetPOEConfig_1" => pc[p] \in {"idle", "fin"} \cup SwitchSteps \cup PoeStarts
    /\ op[p] = "SetPOEConfig" => pc[p] \in {"idle", "allr", "allw", "alls", "fin"} \cup PoeStarts
    /\ op[p] \in StatGets => pc[p] \in {"idle", "psel", "pget", "fin", "dead"} \cup PoeStarts
    /\ op[p] \in PoeVerifies => pc[p] \in {"idle", "bget", "bset", "fin"} \cup PoeStarts
    /\ pc[p] \in PoePlaces \cup PoeWrites => op[p] \in PoeOps

\* The counts and bounds as counting leaves them: no IOM has ports, and the
\* bounds are those of the firmware found, or none was set.
Cut(p) ==
    LET l == lib[p]
    IN /\ l.cnt[1] = 0 /\ l.cnt[2] = 0 /\ (~l.poe => l.cnt[Pcie] = 0)
       /\ \A g \in Groups : l.bound[g] = IF Known(p) THEN Bounds(l)[g] ELSE 0

\* A call that has not begun its own transfers has its arguments.
Early(p) == op[p] \in PoeOps /\ pc[p] \in PoeStarts =>
                call[p].ids \in Lists /\ call[p].bits = {}

PoeInv == WayInv /\ \A p \in Procs : OnPoe(p) /\ Cut(p) /\ Early(p)

\* A step of a PoE call but its begin, by the call it is of.
PoeTurn(p) == PoeAct(p) /\ ~Begin(p)
GetTurn(p) == op[p] \in ConfigGets /\ (Configs(p) \/ \E ok \in BOOLEAN :
                  ReadCtrlGet(p, ok) \/ SelectCfg(p, ok) \/ ReadCfg(p, ok))
GroupTurn(p, ok) == SelectSet(p, ok) \/ ReadSet(p, ok) \/ Detect(p, ok) \/ PowerOff(p, ok)
ListTurn(p) == op[p] = "SetPOEConfigs_1" /\ (SetPOEConfigs_1(p) \/ NextGroup(p)
                  \/ \E ok \in BOOLEAN : ReadCtrlSet(p, ok) \/ CloseSwitch(p, ok) \/ GroupTurn(p, ok))
SingleTurn(p) == op[p] = "SetPOEConfig_1" /\ (SetPOEConfig_1(p)
                  \/ \E ok \in BOOLEAN : ReadCtrlSetOne(p, ok) \/ CloseSwitch(p, ok) \/ GroupTurn(p, ok))
AllTurn(p) == op[p] = "SetPOEConfig" /\ (SetPOEConfig(p) \/ \E ok \in BOOLEAN :
                  AllRead(p, ok) \/ AllWrite(p, ok) \/ AllPorts(p, ok))
StatTurn(p) == op[p] \in StatGets /\ (Stats(p) \/ \E ok \in BOOLEAN : SelectStat(p, ok) \/ ReadStat(p, ok))
BuzTurn(p) == op[p] \in PoeVerifies /\ (Buzzer(p) \/ \E ok \in BOOLEAN : ReadBuz(p, ok) \/ WriteBuz(p, ok))

LEMMA PoeOpsAre ==
    /\ PoeOps = PoeInfos \cup ConfigGets \cup StatGets \cup PoeVerifies
               \cup {"SetPOEConfigs_1", "SetPOEConfig_1", "SetPOEConfig"}
    /\ PoeOps \cap (Queries \cup PortCalls \cup {"none"}) = {}
<1>1. PoeOps = PoeInfos \cup ConfigGets \cup StatGets \cup PoeVerifies
               \cup {"SetPOEConfigs_1", "SetPOEConfig_1", "SetPOEConfig"}
  BY DEF PoeOps, PoeCalls, PoeInfos, PoeCounts, PoeVerifies, ConfigGets, StatGets
<1>2. \A o \in PoeCalls : o \notin Queries /\ o # "none"
  BY DEF PoeCalls, PoeInfos, PoeCounts, PoeVerifies, Queries
<1>3. QED BY <1>1, <1>2, Apart1 DEF PoeOps

LEMMA PoeTurns ==
    ASSUME NEW p, OnPoe(p), PoeTurn(p)
    PROVE  \/ NoHardware(p) \/ Fin(p) \/ (Infos(p) /\ op[p] \in PoeInfos)
           \/ GetTurn(p) \/ ListTurn(p) \/ SingleTurn(p) \/ AllTurn(p) \/ StatTurn(p) \/ BuzTurn(p)
<1>1. Infos(p) => op[p] \in PoeInfos
  BY DEF Infos, PoeInfos, GetPOEInfos, GetPOEInfosNI, GetPOEInfo, GetPOEInfoNI, GetPOEInfos_1,
     GetPOEInfosNI_1, GetPOEInfo_1, GetPOEInfoNI_1, Informed, At
<1>2. ASSUME NEW o, NEW c, NEW ids, NEW cur, NEW first, ListArgs(p, o, c, ids, cur, first) PROVE op[p] = o
  BY <1>2 DEF ListArgs, Counted1, At
<1>3. ASSUME NEW o, NEW c, NEW first, Repeating(p, o, c, first) PROVE op[p] = o
  BY <1>2, <1>3 DEF Repeating
<1>4. Configs(p) => GetTurn(p)
  BY <1>3 DEF GetTurn, Configs, ConfigGets, GetPOEConfig, GetPOEConfigNI, GetPOEConfigs_1,
     GetPOEConfigsNI_1, GetPOEConfig_1, GetPOEConfigNI_1, Counted1, At
<1>5. Sets(p) => ListTurn(p) \/ SingleTurn(p) \/ AllTurn(p)
  <2>1. /\ SetPOEConfig(p) => op[p] = "SetPOEConfig"
        /\ SetPOEConfigs_1(p) => op[p] = "SetPOEConfigs_1"
        /\ SetPOEConfig_1(p) => op[p] = "SetPOEConfig_1"
    BY <1>3 DEF SetPOEConfig, SetPOEConfigs_1, SetPOEConfig_1, Counted1, At
  <2>2. QED
    BY <2>1 DEF Sets, SetPOEConfigNI, SetPOEConfigsNI_1, SetPOEConfigNI_1, ListTurn, SingleTurn, AllTurn
<1>6. Stats(p) => StatTurn(p)
  <2>1. GetPOEStats_1(p) => op[p] = "GetPOEStats_1"
    BY <1>2, Zenon DEF GetPOEStats_1, Counted1, At
  <2>2. QED
    BY <1>3, <2>1 DEF StatTurn, Stats, StatGets, GetPOEStats, GetPOEStatsNI, GetPOEStat, GetPOEStatNI,
       GetPOEStatsNI_1, GetPOEStat_1, GetPOEStatNI_1, Counted1, At
<1>7. Buzzer(p) => BuzTurn(p)
  BY DEF BuzTurn, Buzzer, PoeVerifies, GetBuzConfig, GetBuzConfigNI, SetBuzConfig, SetBuzConfigNI, At
<1>8. pc[p] \in PoePlaces \cup PoeWrites =>
        op[p] \in PoeInfos \cup ConfigGets \cup StatGets \cup PoeVerifies
                  \cup {"SetPOEConfigs_1", "SetPOEConfig_1", "SetPOEConfig"}
  BY PoeOpsAre DEF OnPoe
<1> DEFINE Of(l, os) == pc[p] = l => op[p] \in os
<1>9. /\ Of("allr", {"SetPOEConfig"}) /\ Of("allw", {"SetPOEConfig"}) /\ Of("alls", {"SetPOEConfig"})
      /\ Of("csel", ConfigGets) /\ Of("cget", ConfigGets)
      /\ Of("psel", StatGets) /\ Of("pget", StatGets)
      /\ Of("bget", PoeVerifies) /\ Of("bset", PoeVerifies)
      /\ Of("group1", {"SetPOEConfigs_1"})
  BY <1>8 DEF OnPoe, PoeStarts, Counting, Behind, SwitchSteps, PoePlaces, PoeWrites
<1>10. \A l \in {"swr", "ssel", "sget", "sdet", "soff"} : Of(l, {"SetPOEConfigs_1", "SetPOEConfig_1"})
  BY <1>8 DEF OnPoe, PoeStarts, Counting, Behind, SwitchSteps, PoePlaces, PoeWrites
<1>11. NextGroup(p) => ListTurn(p)
  BY <1>9 DEF NextGroup, ListTurn
<1>12. ASSUME NEW ok \in BOOLEAN, AllRead(p, ok) \/ AllWrite(p, ok) \/ AllPorts(p, ok) PROVE AllTurn(p)
  <2>1. op[p] = "SetPOEConfig"
    BY <1>9, <1>12 DEF AllRead, AllWrite, AllPorts
  <2>2. QED BY <1>12, <2>1 DEF AllTurn
<1>13. ASSUME NEW ok \in BOOLEAN, ReadCtrlGet(p, ok) \/ SelectCfg(p, ok) \/ ReadCfg(p, ok) PROVE GetTurn(p)
  <2>1. op[p] \in ConfigGets
    BY <1>9, <1>13 DEF ReadCtrlGet, SelectCfg, ReadCfg, ConfigGets
  <2>2. QED BY <1>13, <2>1 DEF GetTurn
<1>14. ASSUME NEW ok \in BOOLEAN, ReadCtrlSet(p, ok) PROVE ListTurn(p)
  BY <1>14 DEF ListTurn, ReadCtrlSet
<1>15. ASSUME NEW ok \in BOOLEAN, ReadCtrlSetOne(p, ok) PROVE SingleTurn(p)
  BY <1>15 DEF SingleTurn, ReadCtrlSetOne, Single
<1>16. ASSUME NEW ok \in BOOLEAN, CloseSwitch(p, ok) \/ GroupTurn(p, ok)
       PROVE  ListTurn(p) \/ SingleTurn(p)
  <2>1. op[p] \in {"SetPOEConfigs_1", "SetPOEConfig_1"}
    BY <1>10, <1>16 DEF CloseSwitch, GroupTurn, SelectSet, ReadSet, Detect, PowerOff
  <2>2. QED BY <1>16, <2>1 DEF ListTurn, SingleTurn
<1>17. ASSUME NEW ok \in BOOLEAN, SelectStat(p, ok) \/ ReadStat(p, ok) PROVE StatTurn(p)
  <2>1. op[p] \in StatGets
    BY <1>9, <1>17 DEF SelectStat, ReadStat
  <2>2. QED BY <1>17, <2>1 DEF StatTurn
<1>18. ASSUME NEW ok \in BOOLEAN, ReadBuz(p, ok) \/ WriteBuz(p, ok) PROVE BuzTurn(p)
  <2>1. op[p] \in PoeVerifies
    BY <1>9, <1>18 DEF ReadBuz, WriteBuz
  <2>2. QED BY <1>18, <2>1 DEF BuzTurn
<1>19. PoeStep(p) => \/ GetTurn(p) \/ ListTurn(p) \/ SingleTurn(p) \/ AllTurn(p) \/ StatTurn(p) \/ BuzTurn(p)
  BY <1>12, <1>13, <1>14, <1>15, <1>16, <1>17, <1>18 DEF PoeStep, GroupTurn
<1>20. QED
  BY <1>1, <1>4, <1>5, <1>6, <1>7, <1>11, <1>19 DEF PoeTurn, PoeAct

\* A PoE call goes on to a step of its own, or ends.
LEMMA OnPoeTurns ==
    ASSUME NEW p, PoeShaped(p), PoeTurn(p), OnPoe(p) PROVE OnPoe(p)' /\ op'[p] = op[p] /\ op[p] \in PoeOps
<1> USE DEF PoeShaped, Shaped
<1> DEFINE Next0(S) == op'[p] = op[p] /\ pc'[p] \in S \cup {"idle"}
<1>1. op'[p] = op[p]
  BY PoeMoves DEF PoeTurn, Calm
<1>2. op[p] \in PoeOps
  BY PoeTurns, PoeOpsAre DEF GetTurn, ListTurn, SingleTurn, AllTurn, StatTurn, BuzTurn, NoHardware, Fin, OnPoe,
     PoeOps, PoeCalls, PoePlaces
<1>3. Over(p) => pc'[p] = "idle"
  BY DEF Over, Return, Goto
<1>4. NoHardware(p) \/ Fin(p) => pc'[p] = "idle"
  BY DEF NoHardware, Fin, Reject, Return, Goto
<1>5. Infos(p) => pc'[p] \in {"idle", "dead", "hung"}
  BY DEF Infos, GetPOEInfos, GetPOEInfosNI, GetPOEInfo, GetPOEInfoNI, GetPOEInfos_1, GetPOEInfosNI_1,
     GetPOEInfo_1, GetPOEInfoNI_1, Return, Continue, Goto, Informed, At
<1>6. ASSUME NEW o, NEW c, NEW ids, NEW cur, NEW first, ListArgs(p, o, c, ids, cur, first)
      PROVE  pc'[p] \in {"idle", first} \/ (first # "psel" /\ pc'[p] = "ctrl")
  BY <1>6 DEF ListArgs, Counted1, At, Reject, Return, Continue, Goto
<1>7. ASSUME NEW o, NEW c, NEW first, Repeating(p, o, c, first)
      PROVE  pc'[p] \in {"idle", first} \/ (first # "psel" /\ pc'[p] = "ctrl")
  BY <1>6, <1>7 DEF Repeating
<1>8. GetTurn(p) => pc'[p] \in {"idle", "ctrl", "csel", "cget", "fin"}
  <2>1. Configs(p) => pc'[p] \in {"idle", "ctrl", "csel", "fin"}
    BY <1>7 DEF Configs, GetPOEConfig, GetPOEConfigNI, GetPOEConfigs_1, GetPOEConfigsNI_1, GetPOEConfig_1,
       GetPOEConfigNI_1, Counted1, At, Reject, Return, Continue, Goto
  <2>2. ASSUME NEW ok \in BOOLEAN, ReadCtrlGet(p, ok) \/ SelectCfg(p, ok) \/ ReadCfg(p, ok)
        PROVE  pc'[p] \in {"csel", "cget", "fin"}
    BY <2>2 DEF ReadCtrlGet, SelectCfg, ReadCfg, Onward, Continue, Goto
  <2>3. QED BY <2>1, <2>2 DEF GetTurn
<1>9. ASSUME NEW ok \in BOOLEAN, GroupTurn(p, ok)
      PROVE  pc'[p] \in {"sget", "sdet", "soff"} \/ (pc'[p] = IF Single(p) THEN "fin" ELSE "group1")
  BY <1>9 DEF GroupTurn, SelectSet, ReadSet, Detect, PowerOff, Off, Onward, Continue, Goto
<1>10. ListTurn(p) => pc'[p] \in {"idle", "ctrl", "group1", "swr", "fin", "ssel", "sget", "sdet", "soff"}
  <2>1. SetPOEConfigs_1(p) => pc'[p] \in {"idle", "ctrl", "group1"}
    BY <1>7 DEF SetPOEConfigs_1
  <2>2. NextGroup(p) => pc'[p] \in {"fin", "soff", "sdet", "ssel"}
    <3>1. NextGroup(p) => \E l \in {"fin", "soff", "sdet", "ssel"} : Continue(p, l)
      BY DEF NextGroup
    <3>2. QED BY <3>1 DEF Continue, Goto
  <2>3. ASSUME NEW ok \in BOOLEAN, ReadCtrlSet(p, ok) \/ CloseSwitch(p, ok)
        PROVE  pc'[p] \in {"fin", "swr", "group1", "ssel"}
    BY <2>3 DEF ReadCtrlSet, CloseSwitch, Continue, Goto
  <2>4. QED BY <1>9, <2>1, <2>2, <2>3 DEF ListTurn
<1>11. SingleTurn(p) => pc'[p] \in {"idle", "ctrl", "swr", "fin", "ssel", "sget", "sdet", "soff"}
  <2>1. SetPOEConfig_1(p) => pc'[p] \in {"idle", "ctrl", "swr", "soff"}
    BY DEF SetPOEConfig_1, Counted1, At, Return, Continue, Goto
  <2>2. ASSUME op[p] = "SetPOEConfig_1", NEW ok \in BOOLEAN, ReadCtrlSetOne(p, ok) \/ CloseSwitch(p, ok)
        PROVE  pc'[p] \in {"fin", "swr", "soff", "ssel"}
    BY <2>2 DEF ReadCtrlSetOne, CloseSwitch, Single, Continue, Goto
  <2>3. QED BY <1>9, <2>1, <2>2 DEF SingleTurn, Single
<1>12. AllTurn(p) => pc'[p] \in {"idle", "allr", "allw", "alls", "fin"}
  <2>1. SetPOEConfig(p) => pc'[p] \in {"idle", "allr", "alls"}
    BY DEF SetPOEConfig, Counted1, At, Return, Continue, Goto
  <2>2. ASSUME NEW ok \in BOOLEAN, AllRead(p, ok) \/ AllWrite(p, ok) \/ AllPorts(p, ok)
        PROVE  pc'[p] \in {"allw", "alls", "fin"}
    BY <2>2 DEF AllRead, AllWrite, AllPorts, Onward, Continue, Goto
  <2>3. QED BY <2>1, <2>2 DEF AllTurn
<1>13. StatTurn(p) => pc'[p] \in {"idle", "psel", "pget", "fin", "dead"}
  <2>1. GetPOEStats_1(p) => pc'[p] \in {"idle", "psel", "dead"}
    BY <1>6 DEF GetPOEStats_1, Continue, Goto
  <2>2. Stats(p) => pc'[p] \in {"idle", "psel", "dead"}
    BY <1>7, <2>1 DEF Stats, GetPOEStats, GetPOEStatsNI, GetPOEStat, GetPOEStatNI, GetPOEStatsNI_1,
       GetPOEStat_1, GetPOEStatNI_1, Counted1, At, Reject, Return, Continue, Goto
  <2>3. ASSUME NEW ok \in BOOLEAN, SelectStat(p, ok) \/ ReadStat(p, ok) PROVE pc'[p] \in {"psel", "pget", "fin"}
    BY <2>3 DEF SelectStat, ReadStat, Continue, Goto
  <2>4. QED BY <2>2, <2>3 DEF StatTurn
<1>14. BuzTurn(p) => pc'[p] \in {"bget", "bset", "fin"}
  BY DEF BuzTurn, Buzzer, GetBuzConfig, GetBuzConfigNI, SetBuzConfig, SetBuzConfigNI, At, ReadBuz, WriteBuz,
     Continue, Goto
<1>15. /\ PoeInfos \cap (ConfigGets \cup StatGets \cup PoeVerifies) = {}
       /\ ConfigGets \cap (StatGets \cup PoeVerifies) = {} /\ StatGets \cap PoeVerifies = {}
       /\ \A o \in {"SetPOEConfigs_1", "SetPOEConfig_1", "SetPOEConfig"} :
              o \notin PoeInfos \cup ConfigGets \cup StatGets \cup PoeVerifies
  BY DEF PoeInfos, ConfigGets, StatGets, PoeVerifies
<1>16. CASE NoHardware(p) \/ Fin(p)
  BY <1>1, <1>2, <1>4, <1>16 DEF OnPoe
<1>17. CASE Infos(p) /\ op[p] \in PoeInfos
  BY <1>1, <1>2, <1>5, <1>15, <1>17 DEF OnPoe
<1>18. CASE GetTurn(p)
  BY <1>1, <1>2, <1>8, <1>15, <1>18 DEF OnPoe, GetTurn
<1>19. CASE ListTurn(p)
  BY <1>1, <1>2, <1>10, <1>15, <1>19 DEF OnPoe, ListTurn, SwitchSteps
<1>20. CASE SingleTurn(p)
  BY <1>1, <1>2, <1>11, <1>15, <1>20 DEF OnPoe, SingleTurn, SwitchSteps
<1>21. CASE AllTurn(p)
  BY <1>1, <1>2, <1>12, <1>15, <1>21 DEF OnPoe, AllTurn
<1>22. CASE StatTurn(p)
  BY <1>1, <1>2, <1>13, <1>15, <1>22 DEF OnPoe, StatTurn
<1>23. CASE BuzTurn(p)
  BY <1>1, <1>2, <1>14, <1>15, <1>23 DEF OnPoe, BuzTurn
<1>24. QED
  BY <1>1, <1>2, <1>16, <1>17, <1>18, <1>19, <1>20, <1>21, <1>22, <1>23, PoeTurns

\* While its ports are counted, and if that fails, a call is where it was.
LEMMA PoeCounting ==
    ASSUME CountsInv, NEW p \in Procs, AskCounts(p), OnPoe(p), op'[p] \in PoeOps
    PROVE  /\ op'[p] = op[p] /\ pc[p] \in PoeStarts /\ pc'[p] \in {"idle"} \cup PoeStarts
           /\ pc'[p] = "idle" => ret'[p] = "false"
<1> USE DEF CountsInv, Types
<1> DEFINE Fine == /\ op'[p] = op[p] /\ pc[p] \in PoeStarts /\ pc'[p] \in {"idle"} \cup PoeStarts
                   /\ pc'[p] = "idle" => ret'[p] = "false"
<1>1. ASSUME NEW o \in Queries \cup {"GetCount"}, op' = [op EXCEPT ![p] = o] PROVE Fine
  BY <1>1, PoeOpsAre DEF PoeOps
<1>2. ASSUME NEW l \in PoeStarts, pc[p] = l, Return(p, FALSE) PROVE Fine
  BY <1>2 DEF Return, Goto
<1>3. ASSUME NEW l \in PoeStarts, pc[p] = l, NEW x \in PoeStarts, Continue(p, x) PROVE Fine
  BY <1>3 DEF Continue, Goto, PoeStarts, Counting, Behind
<1>4. {"select", "flash", "askinfo", "info", "group", "args", "privilege", "efcoid"} \subseteq PoeStarts
  BY DEF PoeStarts, Counting, Behind
<1> HIDE DEF Fine
<1>5. ASSUME NEW o \in Queries, Query(p, o) PROVE Fine
  <2>1. op' = [op EXCEPT ![p] = o]
    BY <1>5 DEF Query, Hit, Enter
  <2>2. QED BY <1>1, <2>1
<1>6. CountOnly(p) => Fine
  BY <1>1 DEF CountOnly, Enter
<1>7. ~CountDone(p)
  BY DEF CountDone, Return, PoeOps
<1>8. ASSUME NEW l, NEW e, Counted(p, l, e), pc[p] \in {"info", "group"} PROVE Fine
  BY <1>2, <1>3, <1>4, <1>8 DEF Counted
<1>9. ASSUME NEW ok \in BOOLEAN, EfcoId(p, ok) PROVE Fine
  <2>1. op'[p] = op[p] /\ pc[p] = "efcoid"
    BY <1>9 DEF EfcoId, Continue, Return
  <2>2. op[p] \notin {"GetID", "AICVerify", "GetBoardID", "GetFW", "GetBootLoad", "GetTemperature"} \cup HWMonCalls
    BY <2>1, PoeOpsAre DEF Queries, PortCalls
  <2>3. FirstStep(op[p]) \in {"args", "privilege"}
    BY <2>2 DEF FirstStep
  <2>4. CASE ok
    <3>1. Continue(p, FirstStep(op[p]))
      BY <1>9, <2>2, <2>4 DEF EfcoId
    <3>2. QED BY <1>3, <1>4, <2>1, <2>3, <3>1
  <2>5. CASE ~ok
    BY <1>2, <1>4, <1>9, <2>1, <2>5 DEF EfcoId
  <2>6. QED BY <2>4, <2>5
<1>10. ASSUME NEW ok \in BOOLEAN,
              Privilege(p, ok) \/ SelectCounts(p, ok) \/ ReadCounts(p, ok) \/ AskPoeInfo(p, ok)
       PROVE  Fine
  <2>1. PICK x \in {"select", "flash", "askinfo", "info"} : Continue(p, x)
    BY <1>10 DEF Privilege, SelectCounts, ReadCounts, AskPoeInfo
  <2>2. pc[p] \in {"privilege", "select", "flash", "askinfo"}
    BY <1>10 DEF Privilege, SelectCounts, ReadCounts, AskPoeInfo
  <2>3. QED BY <1>3, <1>4, <2>1, <2>2
<1>11. ASSUME NEW ok \in BOOLEAN, ReadPoeInfo(p, ok) \/ SelectMain(p, ok) PROVE Fine
  <2>1. pc[p] \in {"info", "group"} /\ (Continue(p, "group") \/ \E l, e : Counted(p, l, e))
    BY <1>11 DEF ReadPoeInfo, SelectMain
  <2>2. QED BY <1>3, <1>4, <1>8, <2>1
<1>12. ~QueryStep(p)
  <2>1. QueryStep(p) => pc[p] \in QuerySteps /\ op' = op
    BY DEF QueryStep, QuerySteps, BoardId, Vers, VersMore, Temperature, Return, Continue
  <2>2. op[p] \in PoeOps => pc[p] \notin QuerySteps
    BY PoeOpsAre DEF OnPoe, PoeStarts, Counting, Behind, QuerySteps, SwitchSteps
  <2>3. QED BY <2>1, <2>2
<1>13. Fine
  BY <1>5, <1>6, <1>7, <1>9, <1>10, <1>11, <1>12 DEF AskCounts, CountStep
<1>14. QED BY <1>13 DEF Fine

\* Counting cuts the ids as the firmware it has found does.
LEMMA CountedCuts ==
    ASSUME NEW p \in Procs, lib \in [Procs -> Statics], NEW l \in Statics, NEW e \in BOOLEAN, board' = board,
           l.cnt[1] = 0, l.cnt[2] = 0, ~l.poe => l.cnt[Pcie] = 0, \A g \in Groups : l.bound[g] = 0,
           Counted(p, l, e)
    PROVE  Cut(p)'
<1>1. CASE Learn(p, l)
  <2>1. lib'[p] = l
    BY <1>1 DEF Learn
  <2>2. ~Known(p)'
    BY <2>1 DEF Known, Main, Groups
  <2>3. QED BY <2>1, <2>2 DEF Cut
<1>2. CASE Learn(p, [l EXCEPT !.bound = Bounds(l)])
  <2> DEFINE m == [l EXCEPT !.bound = Bounds(l)]
  <2>1. m.cnt = l.cnt /\ m.poe = l.poe /\ m.bound = Bounds(l)
    BY DEF Statics
  <2>2. lib'[p] = m
    BY <1>2 DEF Learn
  <2> HIDE DEF m
  <2>3. Bounds(lib[p])' = Bounds(l)
    BY <2>1, <2>2 DEF Bounds
  <2>4. Bounds(l)[Main] > 0
    BY CountsAssumption DEF Bounds, Main, Groups
  <2>5. Known(p)'
    BY <2>1, <2>2, <2>4 DEF Known
  <2>6. QED BY <2>1, <2>2, <2>3, <2>5 DEF Cut
<1>3. QED BY <1>1, <1>2 DEF Counted

LEMMA CutCounts ==
    ASSUME CountsInv, NEW p \in Procs, AskCounts(p), Cut(p), board' = board PROVE Cut(p)'
<1> USE DEF CountsInv, Types
<1>1. lib[p] \in Statics /\ Honest(p) /\ board \in AllBoards
  OBVIOUS
<1>2. ASSUME lib'[p].cnt = lib[p].cnt, lib'[p].bound = lib[p].bound, lib'[p].poe = lib[p].poe PROVE Cut(p)'
  <2>1. Bounds(lib[p])' = Bounds(lib[p])
    BY <1>2 DEF Bounds
  <2>2. QED BY <1>2, <2>1 DEF Cut, Known
<1>3. UNCHANGED lib => Cut(p)'
  BY <1>2
<1>4. pc[p] \in Counting \cup {"efcoid"} => \A g \in Groups : lib[p].bound[g] = 0
  BY DEF Honest, Cut, Known, Groups, Main
<1>5. ASSUME NEW o \in Queries, Query(p, o) PROVE Cut(p)'
  BY <1>3, <1>5 DEF Query, Hit, Enter
<1>6. CountOnly(p) => Cut(p)'
  BY <1>3 DEF CountOnly, Enter
<1>7. CountDone(p) => Cut(p)'
  BY <1>1, <1>2, DetectedKept DEF CountDone, Learn
<1>8. ASSUME NEW ok \in BOOLEAN, Privilege(p, ok) \/ SelectCounts(p, ok) \/ AskPoeInfo(p, ok) PROVE Cut(p)'
  BY <1>3, <1>8 DEF Privilege, SelectCounts, AskPoeInfo
<1>9. ASSUME NEW ok \in BOOLEAN, EfcoId(p, ok) PROVE Cut(p)'
  BY <1>1, <1>2, <1>9 DEF EfcoId, Learn, Statics
<1>10. ASSUME NEW ok \in BOOLEAN, ReadCounts(p, ok) PROVE Cut(p)'
  <2> DEFINE m == [lib[p] EXCEPT !.det = TRUE, !.setcom = board.com, !.usb = board.usb,
                                 !.fan = board.fan, !.cnt[Main] = board.main]
  <2>1. /\ m.bound = lib[p].bound /\ m.poe = lib[p].poe
        /\ m.cnt[1] = lib[p].cnt[1] /\ m.cnt[2] = lib[p].cnt[2] /\ m.cnt[Pcie] = lib[p].cnt[Pcie]
    BY <1>1 DEF Statics, Main, Pcie, Groups
  <2>2. lib'[p] \in {m, lib[p]}
    BY <1>10 DEF ReadCounts, Learn
  <2> HIDE DEF m
  <2>3. \A g \in Groups : lib'[p].bound[g] = 0
    BY <1>4, <1>10, <2>1, <2>2 DEF ReadCounts, Counting
  <2>4. ~Known(p)'
    BY <2>3 DEF Known, Main, Groups
  <2>5. QED BY <2>1, <2>2, <2>3, <2>4 DEF Cut
<1>11. ASSUME NEW ok \in BOOLEAN, ReadPoeInfo(p, ok) PROVE Cut(p)'
  <2>1. CASE UNCHANGED lib
    BY <1>3, <2>1
  <2>2. CASE Counted(p, lib[p], err[p] \/ ~ok)
    <3>1. \A g \in Groups : lib[p].bound[g] = 0
      BY <1>4, <1>11 DEF ReadPoeInfo, Counting, Behind
    <3>2. (err[p] \/ ~ok) \in BOOLEAN
      OBVIOUS
    <3>3. QED BY <1>1, <2>2, <3>1, <3>2, CountedCuts DEF Cut
  <2>3. QED BY <1>11, <2>1, <2>2 DEF ReadPoeInfo
<1>12. ASSUME NEW ok \in BOOLEAN, SelectMain(p, ok) PROVE Cut(p)'
  <2> DEFINE m == [lib[p] EXCEPT !.poe = TRUE, !.cnt[Pcie] = board.pcie]
             l == IF ok THEN m ELSE lib[p]
             e == err[p] \/ ~ok
  <2>1. m \in Statics
    BY <1>1 DEF Statics, Pcie, Groups, AllBoards
  <2>2. /\ m.bound = lib[p].bound /\ m.poe = TRUE
        /\ m.cnt[1] = lib[p].cnt[1] /\ m.cnt[2] = lib[p].cnt[2]
    BY <1>1 DEF Statics, Pcie, Groups
  <2>3. Counted(p, l, e)
    BY <1>12 DEF SelectMain
  <2>4. e \in BOOLEAN
    OBVIOUS
  <2> HIDE DEF m, e
  <2>5. \A g \in Groups : lib[p].bound[g] = 0
    BY <1>4, <1>12 DEF SelectMain, Counting, Behind
  <2>6. /\ l \in Statics /\ l.cnt[1] = 0 /\ l.cnt[2] = 0 /\ (~l.poe => l.cnt[Pcie] = 0)
        /\ \A g \in Groups : l.bound[g] = 0
    BY <1>1, <2>1, <2>2, <2>5 DEF Cut
  <2> HIDE DEF l
  <2>7. QED BY <2>3, <2>4, <2>6, CountedCuts
<1>13. QueryStep(p) => Cut(p)'
  <2>1. ASSUME NEW ok \in BOOLEAN, BoardId(p, ok) PROVE Cut(p)'
    BY <1>1, <1>2, <2>1 DEF BoardId, Learn, Statics
  <2>2. ASSUME NEW ok \in BOOLEAN, Vers(p, ok) \/ VersMore(p, ok) PROVE Cut(p)'
    <3>1. op[p] \in {"GetFW", "GetBootLoad"}
      BY <1>1, <2>2 DEF Honest, Vers, VersMore
    <3>2. PICK v \in 0..2 : lib'[p] \in {lib[p], [lib[p] EXCEPT !.GetFW = v], [lib[p] EXCEPT !.GetBootLoad = v]}
      <4>1. board.vers \in 0..2 /\ 1 \in 0..2 /\ lib[p].GetFW \in 0..2 /\ lib[p].GetBootLoad \in 0..2
        BY <1>1 DEF AllBoards, Statics
      <4>2. CASE op[p] = "GetFW"
        BY <2>2, <4>1, <4>2 DEF Vers, VersMore, Learn
      <4>3. CASE op[p] = "GetBootLoad"
        BY <2>2, <4>1, <4>3 DEF Vers, VersMore, Learn
      <4>4. QED BY <3>1, <4>2, <4>3
    <3>3. QED BY <1>1, <1>2, <3>2 DEF Statics
  <2>3. ASSUME NEW ok \in BOOLEAN, Temperature(p, ok) PROVE Cut(p)'
    BY <1>3, <2>3 DEF Temperature
  <2>4. QED BY <2>1, <2>2, <2>3 DEF QueryStep
<1>14. QED
  BY <1>5, <1>6, <1>7, <1>8, <1>9, <1>10, <1>11, <1>12, <1>13 DEF AskCounts, CountStep

\* Counting leads to no step of a PoE call's own.
LEMMA CountsPlaces ==
    ASSUME CountsInv, NEW p \in Procs, AskCounts(p)
    PROVE  pc'[p] \in {"idle", "args", "efcoid", "gain"} \cup Counting \cup QuerySteps
<1> USE DEF CountsInv, Types
<1> DEFINE All == {"idle", "args", "efcoid", "gain"} \cup Counting \cup QuerySteps
<1>1. \A o : FirstStep(o) \in All
  BY DEF FirstStep, Counting, Behind, QuerySteps
<1>2. {"idle", "select", "flash", "askinfo", "info", "group", "args", "privilege", "efcoid", "more"} \subseteq All
  BY DEF Counting, Behind, QuerySteps
<1> HIDE DEF All
<1>3. ASSUME NEW x \in All, Continue(p, x) \/ (\E o : Enter(p, o, x)) PROVE pc'[p] \in All
  BY <1>2, <1>3 DEF Continue, Enter, Goto
<1>4. ASSUME NEW ok \in BOOLEAN, Return(p, ok) PROVE pc'[p] \in All
  BY <1>2, <1>4 DEF Return, Goto
<1>5. ASSUME NEW o \in Queries, Query(p, o) PROVE pc'[p] \in All
  <2>1. CASE Hit(p, o)
    BY <1>2, <2>1 DEF Hit
  <2>2. CASE \E x \in All : Enter(p, o, x)
    BY <1>3, <2>2
  <2>3. QED BY <1>1, <1>2, <1>5, <2>1, <2>2 DEF Query
<1>6. CountOnly(p) => pc'[p] \in All
  <2>1. CountEntry(lib[p]) \in All
    BY <1>2 DEF CountEntry
  <2>2. QED BY <1>3, <2>1 DEF CountOnly
<1>7. CountDone(p) => pc'[p] \in All
  BY <1>2 DEF CountDone, Return, Goto
<1>8. ASSUME NEW ok \in BOOLEAN, EfcoId(p, ok) PROVE pc'[p] \in All
  BY <1>1, <1>3, <1>4, <1>8 DEF EfcoId
<1>9. ASSUME NEW ok \in BOOLEAN,
             Privilege(p, ok) \/ SelectCounts(p, ok) \/ ReadCounts(p, ok) \/ AskPoeInfo(p, ok)
      PROVE  pc'[p] \in All
  <2>1. PICK x \in {"select", "flash", "askinfo", "info"} : Continue(p, x)
    BY <1>9 DEF Privilege, SelectCounts, ReadCounts, AskPoeInfo
  <2>2. QED BY <1>2, <1>3, <2>1
<1>10. ASSUME NEW ok \in BOOLEAN, ReadPoeInfo(p, ok) \/ SelectMain(p, ok) PROVE pc'[p] \in All
  <2>1. ASSUME NEW l, NEW e, Counted(p, l, e) PROVE pc'[p] \in All
    BY <1>2, <1>3, <1>4, <2>1 DEF Counted
  <2>2. QED BY <1>2, <1>3, <1>10, <2>1 DEF ReadPoeInfo, SelectMain
<1>11. QueryStep(p) => pc'[p] \in All
  BY <1>2 DEF QueryStep, BoardId, Vers, VersMore, Temperature, Return, Continue, Goto
<1>12. pc'[p] \in All
  BY <1>5, <1>6, <1>7, <1>8, <1>9, <1>10, <1>11 DEF AskCounts, CountStep
<1>13. QED BY <1>12 DEF All

\* A step of p that is none of a PoE call after its begin.
PoeAside(p) ==
    /\ ctrl' = ctrl /\ port' = port /\ poecfg' = poecfg /\ cursor' = cursor
    /\ op'[p] \in PoeOps => /\ pc'[p] \in {"idle"} \cup PoeStarts
                            /\ pc'[p] = "idle" => ret'[p] = "false"

LEMMA DetectedCuts ==
    ASSUME CountsInv, NEW p \in Procs, Cut(p), board' = board, lib'[p] \in {lib[p], Detected(lib[p])}
    PROVE  Cut(p)'
<1>1. lib'[p].bound = lib[p].bound /\ lib'[p].cnt = lib[p].cnt /\ lib'[p].poe = lib[p].poe
  BY DetectedKept DEF CountsInv, Types
<1>2. Bounds(lib[p])' = Bounds(lib[p])
  BY <1>1 DEF Bounds
<1>3. QED BY <1>1, <1>2 DEF Cut, Known

LEMMA ListsBegin ==
    ASSUME CountsInv, NEW p \in Procs, PoeShaped(p), Begin(p), Cut(p), board' = board
    PROVE  /\ PoeAside(p) /\ op'[p] \in PoeOps /\ Cut(p)'
           /\ call'[p].ids \in Lists /\ call'[p].bits = {} /\ call'[p].left = {}
<1> USE DEF PoeShaped, Shaped
<1>1. PICK o \in PoeOps, ids \in Lists, on \in SUBSET {1, 2} :
         /\ Enter(p, o, Entry(lib[p], o))
         /\ InCall(p, [NoCall EXCEPT !.ids = ids,
                       !.on = IF Len(ids) > 2 /\ on # {} THEN DOMAIN ids ELSE on])
         /\ UNCHANGED <<ctrl, port, poecfg, cursor>>
  BY Zenon DEF Begin, PoeOps
<1>2. call'[p].ids = ids /\ call'[p].bits = {} /\ call'[p].left = {}
  BY <1>1 DEF InCall, NoCall
<1>3. Entry(lib[p], o) \in {"args", "privilege", "efcoid"}
  BY DEF Entry, CountEntry
<1>4. {"args", "privilege", "efcoid"} \subseteq PoeStarts
  BY DEF PoeStarts, Counting
<1>5. op'[p] = o /\ pc'[p] \in {"idle"} \cup PoeStarts /\ (pc'[p] = "idle" => ret'[p] = "false") /\ lib' = lib
  <2> DEFINE x == Entry(lib[p], o)
  <2>1. x \in {"args", "privilege", "efcoid"}
    BY <1>3
  <2>2. Enter(p, o, x)
    BY <1>1
  <2> HIDE DEF x
  <2>3. x \in PoeStarts /\ x # "idle" /\ "args" \in PoeStarts
    BY <1>4, <2>1
  <2>4. QED BY <2>2, <2>3 DEF Enter, Goto
<1>6. Cut(p)'
  BY <1>5, DetectedCuts
<1>7. QED BY <1>1, <1>2, <1>5, <1>6 DEF PoeAside

LEMMA PoeElsewhere ==
    ASSUME WayInv, NEW p, Moves(p), ~PoeTurn(p), OnPoe(p), Cut(p), Early(p)
    PROVE  PoeAside(p) /\ OnPoe(p)' /\ Cut(p)' /\ Early(p)'
<1> USE DEF Moves
<1>1. PoeShaped(p) /\ PortShaped(p) /\ RegShaped /\ Sized(p) /\ CountsInv /\ OnWay(p) /\ board' = board
  BY LibShapes DEF WayInv, LibInv, Mine
<1>2. ASSUME PoeAside(p), pc'[p] \notin PoePlaces \cup PoeWrites PROVE OnPoe(p)'
  BY <1>2, PoeOpsAre DEF PoeAside, OnPoe
<1>3. PoeStarts \cap (PoePlaces \cup PoeWrites) = {} /\ "idle" \notin PoePlaces \cup PoeWrites
  BY DEF PoeStarts, Counting, Behind, PoePlaces, PoeWrites
<1>4. CASE AskCounts(p) /\ UNCHANGED poeOwn
  <2>1. PoeAside(p)
    BY <1>1, <1>4, PoeCounting DEF PoeAside, poeOwn
  <2>2. pc'[p] \notin PoePlaces \cup PoeWrites
    BY <1>1, <1>4, CountsPlaces DEF Counting, Behind, QuerySteps, PoePlaces, PoeWrites
  <2>3. Cut(p)'
    BY <1>1, <1>4, CutCounts
  <2>4. Early(p)'
    BY <1>1, <1>4, PoeCounting DEF Early, poeOwn
  <2>5. QED BY <1>2, <2>1, <2>2, <2>3, <2>4
<1>5. CASE PoeAct(p)
  <2>1. Begin(p)
    BY <1>5 DEF PoeTurn
  <2>2. PoeAside(p) /\ op'[p] \in PoeOps /\ Cut(p)' /\ call'[p].ids \in Lists /\ call'[p].bits = {}
    BY <1>1, <2>1, ListsBegin
  <2>3. pc'[p] \notin PoePlaces \cup PoeWrites
    BY <1>3, <2>2 DEF PoeAside
  <2>4. Early(p)'
    BY <2>2 DEF Early
  <2>5. QED BY <1>2, <2>2, <2>3, <2>4
<1>6. CASE Request(p) /\ UNCHANGED poeOwn
  <2>1. op'[p] \in PortCalls /\ pc'[p] \in {"idle", "args", "gain", "privilege", "efcoid"}
    BY <1>1, <1>6, RequestStarts
  <2>2. op'[p] \notin PoeOps
    BY <2>1, PoeOpsAre
  <2>3. PoeAside(p) /\ Early(p)'
    BY <1>6, <2>2 DEF PoeAside, Early, poeOwn
  <2>4. pc'[p] \notin PoePlaces \cup PoeWrites
    BY <2>1 DEF PoePlaces, PoeWrites
  <2>5. lib' = lib
    BY <1>6, Zenon DEF Request, Refuse, Enter
  <2>6. Cut(p)'
    BY <1>1, <2>5, DetectedCuts
  <2>7. QED BY <1>2, <2>3, <2>4, <2>6
<1>7. CASE (PortAct(p) \/ SensorAct(p)) /\ ~Request(p) /\ UNCHANGED poeOwn
  <2>1. op'[p] = op[p] /\ lib'[p] \in {lib[p], Detected(lib[p])}
    BY <1>1, <1>7, PortMoves DEF Calm
  <2>2. op[p] \notin PoeOps /\ pc'[p] \notin PoePlaces \cup PoeWrites
    <3>1. CASE op[p] \in PortCalls
      <4>1. pc'[p] \in {"idle", "type", "args"} \cup Way(op[p])
        BY <1>1, <1>7, <3>1, WayPorts
      <4>2. QED BY <3>1, <4>1, PoeOpsAre, Apart1 DEF PoePlaces, PoeWrites
    <3>2. CASE op[p] \notin PortCalls
      <4>1. /\ pc'[p] \in {"idle", "type", "args"}
            /\ \E ok \in BOOLEAN : ReadGains(p, ok) \/ ReadTypes(p, ok)
        BY <1>1, <1>7, <3>2, Strangers
      <4>2. pc[p] \in {"gain", "type"}
        BY <4>1 DEF ReadGains, ReadTypes
      <4>3. op[p] \notin PoeOps
        BY <4>2, PoeOpsAre DEF OnPoe, PoeStarts, Counting, Behind, SwitchSteps
      <4>4. QED BY <4>1, <4>3 DEF PoePlaces, PoeWrites
    <3>3. QED BY <3>1, <3>2
  <2>3. PoeAside(p) /\ Early(p)'
    BY <1>7, <2>1, <2>2 DEF PoeAside, Early, poeOwn
  <2>4. Cut(p)'
    BY <1>1, <2>1, DetectedCuts
  <2>5. QED BY <1>2, <2>2, <2>3, <2>4
<1>8. QED BY <1>4, <1>5, <1>6, <1>7

\* A step is of one program, and no fault is taken back.
LEMMA CallMine ==
    ASSUME LibInv, NEW p, Moves(p) PROVE call' = [call EXCEPT ![p] = call'[p]]
<1> USE DEF Moves
<1>1. PoeShaped(p) /\ CountsInv
  BY LibShapes DEF LibInv
<1>2. UNCHANGED poeOwn => CallKept(p)
  BY <1>1, CallBlocks DEF poeOwn, KeepCall
<1>3. PoeAct(p) => CallKept(p)
  BY <1>1, BeginKeeps, PoeMoves
<1>4. QED BY <1>2, <1>3 DEF CallKept

LEMMA OneMoved ==
    ASSUME LibInv, NEW p, Moves(p), NEW q \in Procs, q # p
    PROVE  /\ pc'[q] = pc[q] /\ op'[q] = op[q] /\ ret'[q] = ret[q] /\ err'[q] = err[q]
           /\ lib'[q] = lib[q] /\ call'[q] = call[q]
BY CallMine DEF Moves, Mine, LibInv, LibTypes, CountsInv, Types

LEMMA CountFaults ==
    ASSUME CountsInv, NEW p \in Procs, AskCounts(p) PROVE faults' \in {faults, faults + 1}
<1>1. ASSUME NEW ok \in BOOLEAN,
             \/ EfcoId(p, ok) \/ Privilege(p, ok) \/ SelectCounts(p, ok) \/ ReadCounts(p, ok)
             \/ AskPoeInfo(p, ok) \/ ReadPoeInfo(p, ok) \/ SelectMain(p, ok)
      PROVE  faults' \in {faults, faults + 1}
  BY <1>1 DEF EfcoId, Privilege, SelectCounts, ReadCounts, AskPoeInfo, ReadPoeInfo, SelectMain, Read, WriteInfo
<1>2. QueryStep(p) => faults' \in {faults, faults + 1}
  BY DEF QueryStep, BoardId, Vers, VersMore, Temperature, Read
<1>3. ASSUME NEW o \in Queries, Query(p, o) PROVE faults' = faults
  BY <1>3 DEF Query, Hit, Enter
<1>4. CountOnly(p) \/ CountDone(p) => faults' = faults
  BY DEF CountOnly, Enter, CountDone
<1>5. QED BY <1>1, <1>2, <1>3, <1>4 DEF AskCounts, CountStep

LEMMA FaultsGrow ==
    ASSUME LibInv, NEW p, Moves(p) PROVE faults' = 0 => faults = 0
<1> USE DEF Moves
<1>1. PoeShaped(p) /\ PortShaped(p) /\ RegShaped /\ Sized(p) /\ CountsInv /\ faults \in Nat
  BY LibShapes, CountsAssumption DEF LibInv, CountsInv, Types
<1>2. Heard(p) => (faults' = 0 => faults = 0)
  BY <1>1 DEF Heard, Shaped, PoeShaped
<1>3. AskCounts(p) => (faults' = 0 => faults = 0)
  BY <1>1, CountFaults
<1>4. Begin(p) => faults' = faults
  BY Zenon DEF Begin, Enter
<1>5. Request(p) => faults' = faults
  BY Zenon DEF Request, Refuse, Enter
<1>6. QED
  BY <1>1, <1>2, <1>3, <1>4, <1>5, PoeMoves, PortMoves

LEMMA PoeStepsKept ==
    ASSUME PoeInv, NEW p, Moves(p)
    PROVE  OnPoe(p)' /\ Cut(p)' /\ Early(p)'
<1> USE DEF Moves
<1>1. PoeShaped(p) /\ CountsInv /\ OnPoe(p) /\ Cut(p) /\ Early(p) /\ board' = board
  BY LibShapes DEF PoeInv, WayInv, LibInv, Mine
<1>2. CASE ~PoeTurn(p)
  BY <1>1, <1>2, PoeElsewhere DEF PoeInv
<1>3. CASE PoeTurn(p)
  <2>1. Calm(p, PoePlaces \cup PoeWrites)
    BY <1>1, <1>3, PoeMoves DEF PoeTurn
  <2>2. Cut(p)'
    BY <1>1, <2>1, DetectedCuts DEF Calm
  <2>3. pc'[p] \notin PoeStarts
    BY <2>1 DEF Calm, Ends, Goes, PoeStarts, Counting, Behind, PoePlaces, PoeWrites
  <2>4. QED BY <1>1, <1>3, <2>2, <2>3, OnPoeTurns DEF Early
<1>4. QED BY <1>2, <1>3

LEMMA PoeInductive == PoeInv /\ [LibNext]_libVars => PoeInv'
<1> SUFFICES ASSUME PoeInv, [LibNext]_libVars PROVE PoeInv'
  OBVIOUS
<1>1. WayInv'
  BY WayInductive DEF PoeInv
<1>2. CASE LibNext
  <2>1. PICK p \in Who[scene] : Moves(p)
    BY <1>2, Mover DEF PoeInv, WayInv
  <2>2. ASSUME NEW q \in Procs, q # p PROVE OnPoe(q)' /\ Cut(q)' /\ Early(q)'
    <3>1. /\ pc'[q] = pc[q] /\ op'[q] = op[q] /\ lib'[q] = lib[q] /\ call'[q] = call[q] /\ board' = board
      BY <2>1, <2>2, OneMoved DEF PoeInv, WayInv, Moves, Mine
    <3>2. OnPoe(q) /\ Cut(q) /\ Early(q) /\ CountsInv
      BY DEF PoeInv, WayInv, LibInv
    <3>3. Cut(q)'
      BY <3>1, <3>2, DetectedCuts
    <3>4. QED BY <3>1, <3>2, <3>3 DEF OnPoe, Early
  <2>3. QED BY <1>1, <2>1, <2>2, PoeStepsKept DEF PoeInv
<1>3. CASE UNCHANGED libVars
  <2>1. ASSUME NEW q \in Procs PROVE OnPoe(q)' /\ Cut(q)' /\ Early(q)'
    <3>1. OnPoe(q) /\ Cut(q) /\ Early(q) /\ CountsInv
      BY DEF PoeInv, WayInv, LibInv
    <3>2. Cut(q)'
      BY <1>3, <3>1, DetectedCuts DEF libVars
    <3>3. QED BY <1>3, <3>1, <3>2 DEF libVars, OnPoe, Early
  <2>2. QED BY <1>1, <2>1 DEF PoeInv
<1>4. QED BY <1>2, <1>3

LEMMA PoeInitial == LibInit => PoeInv
<1> SUFFICES ASSUME LibInit, NEW p \in Procs PROVE OnPoe(p) /\ Cut(p) /\ Early(p)
  BY WayInitial DEF PoeInv
<1>1. pc[p] = "idle" /\ op[p] = "none" /\ lib[p] = Unknown
  BY DEF LibInit, PoeInit, CountsInit
<1>2. Cut(p)
  BY <1>1 DEF Cut, Known, Unknown, Groups, Main, Pcie
<1>3. QED BY <1>1, <1>2, PoeOpsAre DEF OnPoe, Early, PoePlaces, PoeWrites
-----------------------------------------------------------------------------
(* Which ports a list of configs changes.                                  *)

\* While no transfer has failed: what SelectSet takes for a failure never is,
\* so no bits are read and only a group named in full has ports switched on.
Untouched(p) ==
    faults = 0 /\ op[p] = "SetPOEConfigs_1" /\ pc[p] \in {"ctrl", "swr", "group1", "ssel", "sget", "sdet", "soff"} =>
        /\ pc[p] # "sget" /\ call[p].bits = {}
        /\ pc[p] = "sdet" => Asked(lib[p], call[p].ids, First(call[p].left)) = Ports
NamedInv == /\ PoeInv /\ DOMAIN port = PoeGroups
            /\ faults = 0 => \A g \in PoeGroups : port[g] \subseteq Ports
            /\ \A p \in Procs : Untouched(p)

\* A port the call of p does not name stays as it is.
Spares(p, g) == op[p] = "SetPOEConfigs_1" /\ pc[p] # "idle" /\ pc'[p] # pc[p] /\ faults = 0 =>
    /\ port'[g] \ port[g] \subseteq Asked(lib[p], call[p].ids, g)
    /\ port[g] \ port'[g] \subseteq Asked(lib[p], call[p].ids, g)

LEMMA GroupPorts ==
    ASSUME NEW p, NEW ok \in BOOLEAN, GroupTurn(p, ok), DOMAIN port = PoeGroups
    PROVE  /\ DOMAIN port' = PoeGroups
           /\ faults = 0 /\ (\A g \in PoeGroups : port[g] \subseteq Ports) /\ Untouched(p)
              /\ op[p] \in {"SetPOEConfigs_1", "SetPOEConfig_1"} =>
                  \A g \in PoeGroups : port'[g] \subseteq Ports /\ Spares(p, g)
<1> DEFINE h == First(call[p].left)  a(g) == Asked(lib[p], call[p].ids, g)
           spared == faults = 0 /\ (\A g \in PoeGroups : port[g] \subseteq Ports) /\ Untouched(p)
                     /\ op[p] \in {"SetPOEConfigs_1", "SetPOEConfig_1"} =>
                         \A g \in PoeGroups : port'[g] \subseteq Ports /\ Spares(p, g)
<1>1. CASE port' = port
  BY <1>1 DEF Spares
<1>2. CASE Detect(p, ok) /\ port' # port
  <2>1. port' = [port EXCEPT ![h] = IF Single(p) THEN {0} ELSE (call[p].bits \ a(h)) \cup AskedOn(p, h)]
        /\ pc[p] = "sdet"
    BY <1>2 DEF Detect
  <2>2. CASE Single(p)
    BY <2>1, <2>2, CountsAssumption DEF Single, Spares, Ports
  <2>3. CASE ~Single(p)
    <3>1. AskedOn(p, h) \subseteq a(h)
      BY DEF AskedOn, Asked
    <3> DEFINE on == AskedOn(p, h)  all == a(h)
    <3>2. port' = [port EXCEPT ![h] = (call[p].bits \ all) \cup on]
      BY <2>1, <2>3
    <3>3. ASSUME faults = 0, \A g \in PoeGroups : port[g] \subseteq Ports, Untouched(p),
                 op[p] \in {"SetPOEConfigs_1", "SetPOEConfig_1"}, NEW g \in PoeGroups
          PROVE  port'[g] \subseteq Ports /\ Spares(p, g)
      <4>1. call[p].bits = {} /\ all = Ports
        BY <2>1, <2>3, <3>3 DEF Untouched, Single
      <4> HIDE DEF on, h
      <4>2. CASE g = h
        <5>1. port'[g] = on
          BY <3>2, <3>3, <4>1, <4>2
        <5>2. port[g] \subseteq a(g) /\ on \subseteq a(g) /\ a(g) = Ports
          BY <3>1, <3>3, <4>1, <4>2 DEF on
        <5> HIDE DEF all, a
        <5>3. port'[g] \ port[g] \subseteq a(g) /\ port[g] \ port'[g] \subseteq a(g) /\ port'[g] \subseteq Ports
          BY <5>1, <5>2
        <5>4. QED BY <5>3 DEF Spares, a
      <4>3. CASE g # h
        BY <3>2, <3>3, <4>3 DEF Spares
      <4>4. QED BY <4>2, <4>3
    <3>4. DOMAIN port' = PoeGroups
      BY <3>2
    <3>5. QED BY <3>3, <3>4
  <2>4. QED BY <2>2, <2>3
<1>3. CASE PowerOff(p, ok) /\ port' # port
  <2> DEFINE off == IF Single(p) THEN {x \in Ports : x >= PortOf(lib[p], call[p].ids[1])} ELSE AskedOff(p, h)
  <2>1. port' = [port EXCEPT ![h] = @ \ off]
    BY <1>3 DEF PowerOff
  <2>2. ~Single(p) => off \subseteq a(h)
    BY DEF AskedOff
  <2> HIDE DEF off, h, a
  <2>3. \A g \in PoeGroups : port'[g] \subseteq port[g] /\ port[g] \ port'[g] \subseteq off /\ (g # h => port'[g] = port[g])
    BY <2>1
  <2>4. \A g \in PoeGroups : Spares(p, g)
    <3>1. ASSUME NEW g \in PoeGroups, ~Single(p) PROVE port[g] \ port'[g] \subseteq a(g)
      BY <2>2, <2>3, <3>1
    <3>2. QED BY <2>3, <3>1 DEF Spares, a, Single
  <2>5. DOMAIN port' = PoeGroups
    BY <2>1
  <2>6. QED BY <2>3, <2>4, <2>5
<1>4. SelectSet(p, ok) \/ ReadSet(p, ok) => port' = port
  BY DEF SelectSet, ReadSet, ReadOnly, aicVars
<1>5. QED BY <1>1, <1>2, <1>3, <1>4 DEF GroupTurn

\* What a step of a PoE call does to the ports.
LEMMA PortsTurn ==
    ASSUME NEW p, PoeTurn(p), OnPoe(p), DOMAIN port = PoeGroups
    PROVE  /\ DOMAIN port' = PoeGroups
           /\ faults = 0 /\ (\A g \in PoeGroups : port[g] \subseteq Ports) /\ Untouched(p) =>
                  \A g \in PoeGroups : port'[g] \subseteq Ports /\ Spares(p, g)
<1>1. CASE port' = port
  BY <1>1 DEF Spares
<1>2. ASSUME NEW ok \in BOOLEAN, GroupTurn(p, ok), op[p] \in {"SetPOEConfigs_1", "SetPOEConfig_1"}
      PROVE  /\ DOMAIN port' = PoeGroups
             /\ faults = 0 /\ (\A g \in PoeGroups : port[g] \subseteq Ports) /\ Untouched(p) =>
                    \A g \in PoeGroups : port'[g] \subseteq Ports /\ Spares(p, g)
  BY <1>2, GroupPorts
<1>3. ASSUME NEW ok \in BOOLEAN, AllPorts(p, ok), port' # port, op[p] = "SetPOEConfig"
      PROVE  /\ DOMAIN port' = PoeGroups
             /\ faults = 0 /\ (\A g \in PoeGroups : port[g] \subseteq Ports) /\ Untouched(p) =>
                    \A g \in PoeGroups : port'[g] \subseteq Ports /\ Spares(p, g)
  <2>1. port' = [port EXCEPT ![First(call[p].left)] = IF call[p].on = {} THEN {} ELSE Ports]
    BY <1>3 DEF AllPorts
  <2>2. QED BY <1>3, <2>1 DEF Spares
<1>4. NoHardware(p) \/ Fin(p) \/ Infos(p) => port' = port
  BY DEF NoHardware, Fin, Infos, GetPOEInfos, GetPOEInfosNI, GetPOEInfo, GetPOEInfoNI, GetPOEInfos_1, GetPOEInfosNI_1,
     GetPOEInfo_1, GetPOEInfoNI_1, Informed, At
<1>5. ASSUME NEW o, NEW c, NEW ids, NEW cur, NEW first, ListArgs(p, o, c, ids, cur, first) PROVE port' = port
  BY <1>5 DEF ListArgs, Counted1, At
<1>6. ASSUME NEW o, NEW c, NEW first, Repeating(p, o, c, first) PROVE port' = port
  BY <1>5, <1>6 DEF Repeating
<1>7. GetTurn(p) => port' = port
  <2>1. Configs(p) => port' = port
    BY <1>6 DEF Configs, GetPOEConfig, GetPOEConfigNI, GetPOEConfigs_1, GetPOEConfigsNI_1, GetPOEConfig_1,
       GetPOEConfigNI_1, Counted1, At
  <2>2. QED BY <2>1 DEF GetTurn, ReadCtrlGet, SelectCfg, ReadCfg, ReadOnly, aicVars
<1>8. StatTurn(p) => port' = port
  <2>1. GetPOEStats_1(p) => port' = port
    BY <1>5 DEF GetPOEStats_1, Counted1, At
  <2>2. Stats(p) => port' = port
    BY <1>6, <2>1 DEF Stats, GetPOEStats, GetPOEStatsNI, GetPOEStat, GetPOEStatNI, GetPOEStatsNI_1,
       GetPOEStat_1, GetPOEStatNI_1, Counted1, At
  <2>3. QED BY <2>2 DEF StatTurn, SelectStat, ReadStat, ReadOnly, aicVars
<1>9. BuzTurn(p) => port' = port
  BY DEF BuzTurn, Buzzer, GetBuzConfig, GetBuzConfigNI, SetBuzConfig, SetBuzConfigNI, At, ReadBuz, WriteBuz,
     ReadOnly, aicVars
<1>10. CASE AllTurn(p)
  <2>1. SetPOEConfig(p) => port' = port
    BY DEF SetPOEConfig, Counted1, At
  <2>2. ASSUME NEW ok \in BOOLEAN, AllRead(p, ok) \/ AllWrite(p, ok) PROVE port' = port
    BY <2>2 DEF AllRead, AllWrite, ReadOnly, aicVars
  <2>3. QED BY <1>1, <1>3, <1>10, <2>1, <2>2 DEF AllTurn
<1>11. CASE ListTurn(p)
  <2>1. SetPOEConfigs_1(p) \/ NextGroup(p) => port' = port
    BY <1>6 DEF SetPOEConfigs_1, NextGroup
  <2>2. ASSUME NEW ok \in BOOLEAN, ReadCtrlSet(p, ok) \/ CloseSwitch(p, ok) PROVE port' = port
    BY <2>2 DEF ReadCtrlSet, CloseSwitch, ReadOnly, aicVars
  <2>3. QED BY <1>1, <1>2, <1>11, <2>1, <2>2 DEF ListTurn
<1>12. CASE SingleTurn(p)
  <2>1. SetPOEConfig_1(p) => port' = port
    BY DEF SetPOEConfig_1, Counted1, At
  <2>2. ASSUME NEW ok \in BOOLEAN, ReadCtrlSetOne(p, ok) \/ CloseSwitch(p, ok) PROVE port' = port
    BY <2>2 DEF ReadCtrlSetOne, CloseSwitch, ReadOnly, aicVars
  <2>3. QED BY <1>1, <1>2, <1>12, <2>1, <2>2 DEF SingleTurn
<1>13. QED
  BY <1>1, <1>4, <1>7, <1>8, <1>9, <1>10, <1>11, <1>12, PoeTurns

\* Without a failed transfer no bits are read, and the next group is looked at
\* before its ports are switched on.
LEMMA UntouchedTurn ==
    ASSUME NEW p, PoeShaped(p), PoeTurn(p), OnPoe(p), Early(p), Untouched(p), faults' = 0 => faults = 0
    PROVE  Untouched(p)'
<1> USE DEF PoeShaped, Shaped
<1> DEFINE Mid == {"ctrl", "swr", "group1", "ssel", "sget", "sdet", "soff"}
<1> SUFFICES ASSUME faults' = 0, op'[p] = "SetPOEConfigs_1", pc'[p] \in Mid
             PROVE  /\ pc'[p] # "sget" /\ call'[p].bits = {}
                    /\ pc'[p] = "sdet" => Asked(lib'[p], call'[p].ids, First(call'[p].left)) = Ports
  BY DEF Untouched
<1>1. op[p] = "SetPOEConfigs_1" /\ faults = 0
  BY OnPoeTurns
<1>2. ~(Over(p) \/ NoHardware(p) \/ Fin(p))
  BY DEF Over, NoHardware, Fin, Reject, Return, Goto
<1>3. ListTurn(p)
  BY <1>1, <1>2, PoeTurns DEF PoeInfos, GetTurn, ConfigGets, SingleTurn, AllTurn, StatTurn, StatGets, BuzTurn, PoeVerifies
<1>4. ASSUME NEW ids, NEW cur, ListArgs(p, "SetPOEConfigs_1", "set1", ids, cur, "group1")
      PROVE  call'[p].bits = {} /\ pc'[p] \in {"ctrl", "group1"}
  <2>1. /\ Work(p, ids, IF lib[p].poe \/ "group1" = "psel" THEN GroupsOf(lib[p], ids) ELSE {})
        /\ Continue(p, IF Main \in GroupsOf(lib[p], ids) /\ "group1" # "psel" THEN "ctrl" ELSE "group1")
    BY <1>2, <1>4 DEF ListArgs, Reject, Over
  <2>2. call'[p].bits = call[p].bits
    BY <2>1 DEF Work, InCall, NoCall
  <2>3. pc[p] = "args"
    BY <1>4 DEF ListArgs, Counted1, At
  <2>4. call[p].bits = {}
    BY <1>1, <2>3, PoeOpsAre DEF Early, PoeStarts
  <2>5. QED BY <2>1, <2>2, <2>4 DEF Continue, Goto
<1>5. CASE SetPOEConfigs_1(p)
  <2>1. call'[p].bits = {} /\ pc'[p] \in {"ctrl", "group1"}
    BY <1>4, <1>5 DEF SetPOEConfigs_1, Repeating
  <2>2. QED BY <2>1
<1>6. CASE NextGroup(p)
  <2> DEFINE g == First(call[p].left)
  <2>1. /\ pc[p] = "group1" /\ call' = call /\ lib' = lib
        /\ pc'[p] = CASE call[p].left = {} -> "fin"
                        [] call[p].left # {} /\ AskedOn(p, g) = {} -> "soff"
                        [] call[p].left # {} /\ AskedOn(p, g) # {}
                           /\ Asked(lib[p], call[p].ids, g) = Ports -> "sdet"
                        [] OTHER -> "ssel"
    BY <1>6 DEF NextGroup, Continue, Goto, KeepCall
  <2>2. pc'[p] \in {"fin", "soff", "ssel"} \/ Asked(lib[p], call[p].ids, g) = Ports
    BY <2>1
  <2>3. pc'[p] # "sget"
    BY <2>1
  <2>4. QED BY <1>1, <2>1, <2>2, <2>3 DEF Untouched
<1>7. ASSUME NEW ok \in BOOLEAN, ReadCtrlSet(p, ok) \/ CloseSwitch(p, ok)
      PROVE  call'[p].bits = call[p].bits /\ pc'[p] \in {"fin", "swr", "group1", "ssel"} /\ pc[p] \in {"ctrl", "swr"}
  BY <1>7 DEF ReadCtrlSet, CloseSwitch, Continue, Goto, InCall, KeepCall, NoCall
<1>8. ASSUME NEW ok \in BOOLEAN, GroupTurn(p, ok)
      PROVE  call'[p].bits = {} /\ pc'[p] \in {"soff", "group1", "fin"}
  <2>1. ok
    BY <1>1, <1>8 DEF GroupTurn, SelectSet, ReadSet, Detect, PowerOff, Read, ReadOnly
  <2>2. pc[p] # "sget" /\ call[p].bits = {}
    BY <1>1, <1>8 DEF GroupTurn, SelectSet, ReadSet, Detect, PowerOff, Untouched
  <2>3. Off(p) \/ \E l \in {"fin", "group1"} : Onward(p, l)
    BY <1>8, <2>1, <2>2 DEF GroupTurn, SelectSet, ReadSet, Detect, PowerOff
  <2>4. call'[p].bits = call[p].bits
    BY <2>3 DEF Off, Onward, InCall, NoCall
  <2>5. QED BY <2>2, <2>3, <2>4 DEF Off, Onward, Continue, Goto
<1>9. QED BY <1>1, <1>3, <1>5, <1>6, <1>7, <1>8 DEF ListTurn, Untouched

LEMMA NamedStep ==
    ASSUME NamedInv, NEW p, Moves(p)
    PROVE  /\ DOMAIN port' = PoeGroups /\ Untouched(p)'
           /\ faults' = 0 => \A g \in PoeGroups : port'[g] \subseteq Ports
           /\ \A g \in PoeGroups : Spares(p, g)
<1>1. /\ WayInv /\ p \in Procs /\ OnPoe(p) /\ Cut(p) /\ Early(p) /\ Untouched(p) /\ DOMAIN port = PoeGroups
      /\ faults = 0 => \A g \in PoeGroups : port[g] \subseteq Ports
  BY DEF NamedInv, PoeInv, Moves
<1>2. PoeShaped(p) /\ (faults' = 0 => faults = 0)
  BY <1>1, LibShapes, FaultsGrow DEF WayInv, LibInv, Moves
<1>3. CASE PoeTurn(p)
  BY <1>1, <1>2, <1>3, PortsTurn, UntouchedTurn DEF Spares
<1>4. CASE ~PoeTurn(p)
  <2>1. PoeAside(p)
    BY <1>1, <1>4, PoeElsewhere
  <2>2. Untouched(p)'
    BY <2>1, PoeOpsAre DEF PoeAside, Untouched, PoeStarts, Counting, Behind
  <2>3. QED BY <1>1, <1>2, <2>1, <2>2 DEF PoeAside, Spares
<1>5. QED BY <1>3, <1>4

LEMMA NamedInductive == NamedInv /\ [LibNext]_libVars => NamedInv'
<1> SUFFICES ASSUME NamedInv, [LibNext]_libVars PROVE NamedInv'
  OBVIOUS
<1>1. PoeInv'
  BY PoeInductive DEF NamedInv
<1>2. CASE LibNext
  <2>1. PICK p \in Who[scene] : Moves(p)
    BY <1>2, Mover DEF NamedInv, PoeInv, WayInv
  <2>2. ASSUME NEW q \in Procs, q # p PROVE Untouched(q)'
    <3>1. /\ pc'[q] = pc[q] /\ op'[q] = op[q] /\ lib'[q] = lib[q] /\ call'[q] = call[q] /\ (faults' = 0 => faults = 0)
      BY <2>1, <2>2, OneMoved, FaultsGrow DEF NamedInv, PoeInv, WayInv
    <3>2. QED BY <3>1 DEF NamedInv, Untouched
  <2>3. QED BY <1>1, <2>1, <2>2, NamedStep DEF NamedInv
<1>3. CASE UNCHANGED libVars
  BY <1>1, <1>3 DEF NamedInv, libVars, Untouched
<1>4. QED BY <1>2, <1>3

LEMMA NamedInitial == LibInit => NamedInv
<1> SUFFICES ASSUME LibInit PROVE NamedInv
  OBVIOUS
<1>1. port \in [PoeGroups -> Switches[scene].ports] /\ scene \in Scenes /\ \A p \in Procs : op[p] = "none"
  BY DEF LibInit, PoeInit, CountsInit
<1>2. Switches[scene].ports \subseteq SUBSET Ports
  BY <1>1, PoeAssumption
<1>3. QED BY <1>1, <1>2, PoeInitial DEF NamedInv, Untouched

LEMMA SparedStep ==
    ASSUME NamedInv, [LibNext]_libVars, NEW q \in Procs, NEW g \in PoeGroups PROVE Spares(q, g)
<1>1. CASE pc'[q] = pc[q]
  BY <1>1 DEF Spares
<1>2. CASE pc'[q] # pc[q]
  <2>1. LibNext
    BY <1>2 DEF libVars
  <2>2. PICK p \in Who[scene] : Moves(p)
    BY <2>1, Mover DEF NamedInv, PoeInv, WayInv
  <2>3. p = q
    BY <1>2, <2>2, OneMoved DEF NamedInv, PoeInv, WayInv
  <2>4. QED BY <2>2, <2>3, NamedStep
<1>3. QED BY <1>1, <1>2

\* EkDMCiSMBSetPOEConfigs_1 (DMCI.c) changes no port that is not in its array as long as
\* no transfer has failed, whatever the other programs do between its transfers.
THEOREM LibOnlyNamed == LibSpec => OnlyNamed
<1>1. NamedInv /\ [LibNext]_libVars => [\A p \in Procs, g \in PoeGroups : Spares(p, g)]_poeVars
  BY SparedStep
<1>2. LibSpec => [][\A p \in Procs, g \in PoeGroups : Spares(p, g)]_poeVars
  BY <1>1, NamedInitial, NamedInductive, PTL DEF LibSpec
<1>3. QED BY <1>2 DEF OnlyNamed, Spares
-----------------------------------------------------------------------------
(* Ids and groups, once the counts are settled.                            *)

\* The counts and bounds of a program, known or not.
Layout(l) ==
    /\ l \in Statics /\ l.cnt[1] = 0 /\ l.cnt[2] = 0 /\ (~l.poe => l.cnt[Pcie] = 0)
    /\ \/ \A g \in Groups : l.bound[g] = 0
       \/ /\ l.bound[0] = N /\ l.bound[1] \in {N, 2 * N}
          /\ IF l.poe THEN l.bound[2] = 2 * N /\ l.bound[3] = 6 * N
             ELSE l.bound[1] = N /\ l.bound[2] = N /\ l.bound[3] = N

LEMMA CutLayout ==
    ASSUME CountsInv, NEW p \in Procs, Cut(p)
    PROVE  Layout(lib[p]) /\ (Known(p) <=> lib[p].bound[0] = N)
<1>1. lib[p] \in Statics /\ N \in Nat \ {0}
  BY CountsAssumption DEF CountsInv, Types
<1>2. CASE Known(p)
  <2>1. lib[p].bound[0] = Bounds(lib[p])[0] /\ lib[p].bound[1] = Bounds(lib[p])[1]
        /\ lib[p].bound[2] = Bounds(lib[p])[2] /\ lib[p].bound[3] = Bounds(lib[p])[3]
    BY <1>2 DEF Cut, Groups
  <2>2. \A g \in 0..3 : Bounds(lib[p])[g] = IF ~lib[p].poe THEN N
                               ELSE CASE g = 0 -> N
                                      [] g = 1 -> IF board.v2c THEN N ELSE 2 * N
                                      [] g = 2 -> 2 * N
                                      [] OTHER -> 6 * N
    BY DEF Bounds, Groups
  <2>3. lib[p].bound[0] = N /\ lib[p].bound[1] \in {N, 2 * N}
        /\ IF lib[p].poe THEN lib[p].bound[2] = 2 * N /\ lib[p].bound[3] = 6 * N
           ELSE lib[p].bound[1] = N /\ lib[p].bound[2] = N /\ lib[p].bound[3] = N
    <3>1. CASE lib[p].poe
      BY <1>1, <2>1, <2>2, <3>1
    <3>2. CASE ~lib[p].poe
      BY <1>1, <2>1, <2>2, <3>2
    <3>3. QED BY <3>1, <3>2
  <2>4. QED BY <1>1, <1>2, <2>3 DEF Cut, Layout
<1>3. CASE ~Known(p)
  BY <1>1, <1>3 DEF Cut, Layout, Known, Main, Groups
<1>4. QED BY <1>2, <1>3

LEMMA SameCounts ==
    ASSUME NEW l, NEW m, m.bound = l.bound, m.cnt = l.cnt, m.poe = l.poe
    PROVE  /\ \A id : GroupOf(m, id) = GroupOf(l, id) /\ PortOf(m, id) = PortOf(l, id)
           /\ \A g : Floor(m, g) = Floor(l, g)
           /\ \A ids, g : IdsIn(m, ids, g) = IdsIn(l, ids, g) /\ Asked(m, ids, g) = Asked(l, ids, g)
           /\ \A ids : (Bad(m, ids) <=> Bad(l, ids)) /\ GroupsOf(m, ids) = GroupsOf(l, ids)
           /\ \A c : MainOn(m, c) <=> MainOn(l, c)
<1>1. \A id : GroupOf(m, id) = GroupOf(l, id)
  BY DEF GroupOf
<1>2. \A g : Floor(m, g) = Floor(l, g)
  BY DEF Floor
<1>3. ASSUME NEW ids, NEW g PROVE IdsIn(m, ids, g) = IdsIn(l, ids, g) /\ Asked(m, ids, g) = Asked(l, ids, g)
  BY <1>2 DEF IdsIn, Asked
<1>4. \A ids : (Bad(m, ids) <=> Bad(l, ids)) /\ GroupsOf(m, ids) = GroupsOf(l, ids)
  BY <1>1, <1>3 DEF Bad, GroupsOf
<1>5. QED BY <1>1, <1>2, <1>3, <1>4 DEF PortOf, MainOn

\* The ids of a call that is not refused: each is a port of one group.
LEMMA Groupings ==
    ASSUME NEW l, Layout(l), NEW ids, ~Bad(l, ids), NEW i \in DOMAIN ids
    PROVE  /\ l.bound[0] = N /\ ids[i] \in 1..6 * N
           /\ GroupOf(l, ids[i]) \in PoeGroups /\ (GroupOf(l, ids[i]) = Pcie => l.poe)
           /\ \A g \in 0..3 : i \in IdsIn(l, ids, g) <=> GroupOf(l, ids[i]) = g
<1> DEFINE x == ids[i]  h == GroupOf(l, x)
<1>1. /\ N \in Nat \ {0} /\ l \in Statics
      /\ \A g \in 0..3 : l.cnt[g] \in {0, N} /\ l.bound[g] \in Nat
  BY CountsAssumption DEF Layout, Statics, Groups
<1>2. x \in 1..l.bound[3] /\ ~(h > 0 /\ ~l.poe) /\ x > Floor(l, h) /\ x <= Floor(l, h) + l.cnt[h]
  BY DEF Bad, IdsIn, Pcie
<1>3. x \in Nat /\ x > 0 /\ x <= l.bound[3]
  BY <1>1, <1>2
<1>4. /\ l.bound[0] = N /\ l.bound[1] \in {N, 2 * N}
      /\ IF l.poe THEN l.bound[2] = 2 * N /\ l.bound[3] = 6 * N
         ELSE l.bound[1] = N /\ l.bound[2] = N /\ l.bound[3] = N
  <2>1. ~(\A g \in Groups : l.bound[g] = 0)
    BY <1>3 DEF Groups
  <2>2. QED BY <2>1 DEF Layout
<1>5. h = IF x <= l.bound[0] THEN 0 ELSE IF x <= l.bound[1] THEN 1 ELSE IF x <= l.bound[2] THEN 2 ELSE 3
  BY DEF GroupOf
<1>6. /\ Floor(l, 0) = 0 /\ Floor(l, 1) = 0 /\ Floor(l, 2) = l.bound[1] /\ Floor(l, 3) = l.bound[2]
      /\ l.cnt[1] = 0 /\ l.cnt[2] = 0 /\ (~l.poe => l.cnt[3] = 0)
  BY DEF Floor, Layout, Pcie
<1> HIDE DEF h
<1>7. h \in {0, 3}
  <2>1. h # 1
    BY <1>2, <1>3, <1>6
  <2>2. h # 2
    BY <1>1, <1>2, <1>3, <1>6
  <2>3. QED BY <1>5, <2>1, <2>2
<1>8. h = 3 => l.poe
  BY <1>2
<1>9. ASSUME NEW g \in 0..3 PROVE i \in IdsIn(l, ids, g) <=> h = g
  <2>1. i \in IdsIn(l, ids, g) <=> x > Floor(l, g) /\ x <= Floor(l, g) + l.cnt[g]
    BY DEF IdsIn
  <2> HIDE DEF x
  <2>2. CASE g = 0
    <3>1. i \in IdsIn(l, ids, g) <=> x <= l.cnt[0]
      BY <1>1, <1>3, <1>6, <2>1, <2>2
    <3>2. x <= l.cnt[0] => h = 0
      BY <1>1, <1>3, <1>4, <1>5
    <3>3. h = 0 => x <= l.cnt[0]
      BY <1>1, <1>2, <1>3, <1>6
    <3>4. QED BY <2>2, <3>1, <3>2, <3>3
  <2>3. CASE g = 1 \/ g = 2
    BY <1>1, <1>3, <1>6, <1>7, <2>1, <2>3
  <2>4. CASE g = 3
    <3>1. CASE l.poe
      <4>1. x > 2 * N => h = 3
        BY <1>1, <1>3, <1>4, <1>5, <3>1
      <4>2. QED BY <1>1, <1>2, <1>3, <1>4, <1>6, <2>1, <2>4, <3>1, <4>1
    <3>2. CASE ~l.poe
      BY <1>1, <1>3, <1>6, <1>8, <2>1, <2>4, <3>2
    <3>3. QED BY <3>1, <3>2
  <2>5. QED BY <2>2, <2>3, <2>4
<1>10. x \in 1..6 * N
  <2>1. l.bound[3] \in {N, 6 * N}
    BY <1>4
  <2>2. QED BY <1>1, <1>3, <2>1
<1>11. QED BY <1>4, <1>7, <1>8, <1>9, <1>10 DEF h, PoeGroups, Main, Pcie

\* The groups that are left, in order.
LEMMA FirstIn ==
    ASSUME NEW left \in SUBSET (0..3), left # {}
    PROVE  First(left) \in left /\ \A h \in left : First(left) <= h
<1>1. \E g \in left : \A h \in left : g <= h
  <2>1. CASE 0 \in left
    BY <2>1
  <2>2. CASE 0 \notin left /\ 1 \in left
    BY <2>2
  <2>3. CASE 0 \notin left /\ 1 \notin left /\ 2 \in left
    BY <2>3
  <2>4. CASE 0 \notin left /\ 1 \notin left /\ 2 \notin left
    <3>1. \A h \in left : h = 3
      BY <2>4
    <3>2. PICK g \in left : TRUE
      OBVIOUS
    <3>3. \A h \in left : g <= h
      BY <3>1
    <3>4. QED BY <3>3
  <2>5. QED BY <2>1, <2>2, <2>3, <2>4
<1>2. QED BY <1>1 DEF First

\* Which ports a call names, and which of them are to be on.
OnIn(l, c, g) == {c.ids[i] - 1 - Floor(l, g) : i \in IdsIn(l, c.ids, g) \cap c.on}

LEMMA OnInside ==
    ASSUME NEW l, Layout(l), NEW c, ~Bad(l, c.ids), NEW g
    PROVE  OnIn(l, c, g) \subseteq Asked(l, c.ids, g)
BY DEF OnIn, Asked

LEMMA NamedPorts ==
    ASSUME NEW l, Layout(l), NEW c, ~Bad(l, c.ids), NEW i \in DOMAIN c.ids
    PROVE  LET g == GroupOf(l, c.ids[i])
           IN /\ PortOf(l, c.ids[i]) \in Asked(l, c.ids, g)
              /\ PortOf(l, c.ids[i]) \in OnIn(l, c, g) <=>
                     \E j \in c.on \cap DOMAIN c.ids : c.ids[j] = c.ids[i]
<1> DEFINE g == GroupOf(l, c.ids[i])  f == Floor(l, g)
<1>1. g \in 0..3 /\ i \in IdsIn(l, c.ids, g) /\ c.ids[i] \in 1..6 * N
  BY Groupings DEF PoeGroups, Main, Pcie
<1>2. N \in Nat /\ f \in Nat
  BY <1>1, CountsAssumption DEF Layout, Statics, Floor, Groups
<1>3. PortOf(l, c.ids[i]) = c.ids[i] - 1 - f
  BY DEF PortOf
<1>4. PortOf(l, c.ids[i]) \in Asked(l, c.ids, g)
  BY <1>1, <1>3 DEF Asked
<1>5. ASSUME PortOf(l, c.ids[i]) \in OnIn(l, c, g) PROVE \E j \in c.on \cap DOMAIN c.ids : c.ids[j] = c.ids[i]
  <2>1. PICK j \in IdsIn(l, c.ids, g) \cap c.on : PortOf(l, c.ids[i]) = c.ids[j] - 1 - f
    BY <1>5 DEF OnIn
  <2>2. j \in c.on \cap DOMAIN c.ids
    BY <2>1 DEF IdsIn
  <2>3. c.ids[j] \in 1..6 * N
    BY <2>2, Groupings
  <2> HIDE DEF f, g
  <2>4. c.ids[j] = c.ids[i]
    BY <1>1, <1>2, <1>3, <2>1, <2>3
  <2>5. QED BY <2>2, <2>4
<1>6. ASSUME NEW j \in c.on \cap DOMAIN c.ids, c.ids[j] = c.ids[i] PROVE PortOf(l, c.ids[i]) \in OnIn(l, c, g)
  <2>1. j \in IdsIn(l, c.ids, g)
    BY <1>1, <1>6, Groupings
  <2>2. QED BY <1>3, <1>6, <2>1 DEF OnIn
<1>7. QED BY <1>4, <1>5, <1>6
-----------------------------------------------------------------------------
(* Setting a list of ports.                                                *)

\* Where the list call is and what it has seen to so far: the ids are good;
\* groups are left only for firmware that has them, one at least while one is
\* worked on; the switch is closed for a port of the main group that is to be
\* on; and a group no longer left has exactly the ports on that are to be.
ListSet(l, c, at, e, sw, x) ==
    /\ ~Bad(l, c.ids) /\ c.left \subseteq GroupsOf(l, c.ids) /\ (~l.poe => c.left = {})
    /\ at = "swr" => l.poe /\ "main" \in c.buf
    /\ at \in {"ctrl", "swr"} /\ l.poe => c.left = GroupsOf(l, c.ids)
    /\ at \in {"ssel", "sget", "sdet", "soff"} => c.left # {}
    /\ at = "fin" /\ ~e => c.left = {}
    /\ at \in {"group1", "fin"} /\ ~e /\ ~l.poe =>
           \A i \in DOMAIN c.ids : i \in c.on <=> MainOn(l, sw)
    /\ at \notin {"ctrl", "swr"} /\ ~e /\ l.poe =>
           /\ OnIn(l, c, Main) # {} => "main" \in sw
           /\ \A g \in GroupsOf(l, c.ids) \ c.left : x[g] \cap Asked(l, c.ids, g) = OnIn(l, c, g)
           /\ at = "soff" => OnIn(l, c, First(c.left)) \subseteq x[First(c.left)]

SetPlaces == {"ctrl", "swr", "group1", "ssel", "sget", "sdet", "soff", "fin"}
SetWorking(p) == op[p] = "SetPOEConfigs_1" /\ pc[p] \in SetPlaces =>
                     ListSet(lib[p], call[p], pc[p], err[p], ctrl, port)
SetSaid(p) == \A i \in Ids(p) : Fed(lib[p], call[p].ids[i]) <=>
                  \E j \in call[p].on \cap Ids(p) : call[p].ids[j] = call[p].ids[i]
SetKnown(p) == SetWorking(p) /\ (Done(p, {"SetPOEConfigs_1"}, "true") => SetSaid(p))

\* A port is fed, for firmware taken as the program takes it.
Feeds(l, sw, x, id) == IF ~l.poe THEN {"main", "iom"} \subseteq sw
                       ELSE PortOf(l, id) \in x[GroupOf(l, id)] /\ (GroupOf(l, id) = Main => "main" \in sw)

\* A program takes a board with groups for one with groups.
Firm(p) == Known(p) => (lib[p].poe <=> board.groups)

LEMMA LeftIn ==
    ASSUME NEW l, Layout(l), NEW c, ~Bad(l, c.ids), c.left \subseteq GroupsOf(l, c.ids)
    PROVE  /\ GroupsOf(l, c.ids) \subseteq PoeGroups
           /\ c.left # {} => First(c.left) \in c.left /\ First(c.left) \in PoeGroups
<1>1. GroupsOf(l, c.ids) \subseteq PoeGroups
  BY Groupings DEF GroupsOf
<1>2. c.left \subseteq 0..3
  BY <1>1 DEF PoeGroups, Main, Pcie
<1>3. QED BY <1>1, <1>2, FirstIn

\* What work without an error does to the ports of the group at hand.
Others(x, y, g) == \A h \in PoeGroups \ {g} : y[h] = x[h]
AllOn(l, c, y) == OnIn(l, c, First(c.left)) \subseteq y[First(c.left)]
OnlyOn(l, c, y) == y[First(c.left)] \cap Asked(l, c.ids, First(c.left)) = OnIn(l, c, First(c.left))

\* A group is done with: its ports are as they are to be.
LEMMA GroupDone ==
    ASSUME NEW p, Layout(lib[p]), pc[p] \in {"ssel", "sget", "sdet", "soff"},
           ListSet(lib[p], call[p], pc[p], err[p], ctrl, port),
           call'[p].ids = call[p].ids, call'[p].on = call[p].on, call'[p].left = call[p].left \ {First(call[p].left)},
           ~err'[p] => /\ ~err[p] /\ Others(port, port', First(call[p].left))
                       /\ OnlyOn(lib[p], call[p], port')
    PROVE  ListSet(lib[p], call'[p], "group1", err'[p], ctrl, port')
<1> DEFINE l == lib[p]  c == call[p]  d == call'[p]  at == pc[p]  e == err[p]  f == err'[p]  sw == ctrl
           x == port  y == port'
<1>0. /\ Layout(l) /\ at \in {"ssel", "sget", "sdet", "soff"} /\ ListSet(l, c, at, e, sw, x)
      /\ d.ids = c.ids /\ d.on = c.on /\ d.left = c.left \ {First(c.left)}
      /\ ~f => ~e /\ Others(x, y, First(c.left)) /\ OnlyOn(l, c, y)
  OBVIOUS
<1> SUFFICES ListSet(l, d, "group1", f, sw, y)
  OBVIOUS
<1> USE <1>0
<1> HIDE DEF l, c, d, at, e, f, sw, x, y
<1> DEFINE g == First(c.left)
<1>1. ~Bad(l, c.ids) /\ c.left \subseteq GroupsOf(l, c.ids) /\ c.left # {} /\ l.poe
  BY DEF ListSet
<1>2. g \in c.left /\ GroupsOf(l, c.ids) \subseteq PoeGroups
  BY <1>1, LeftIn
<1>3. \A h : OnIn(l, d, h) = OnIn(l, c, h)
  BY DEF OnIn
<1>4. ASSUME ~f
      PROVE  /\ OnIn(l, c, Main) # {} => "main" \in sw
             /\ \A h \in GroupsOf(l, c.ids) \ c.left : x[h] \cap Asked(l, c.ids, h) = OnIn(l, c, h)
  BY <1>1, <1>4 DEF ListSet
<1> HIDE DEF g
<1>5. ASSUME ~f, NEW h \in GroupsOf(l, d.ids) \ d.left PROVE y[h] \cap Asked(l, d.ids, h) = OnIn(l, d, h)
  <2>1. CASE h = g
    BY <1>3, <1>5, <2>1 DEF g, OnlyOn
  <2>2. CASE h # g
    <3>1. h \in GroupsOf(l, c.ids) \ c.left /\ h \in PoeGroups
      BY <1>2, <1>5, <2>2 DEF g
    <3>2. y[h] = x[h]
      BY <1>5, <2>2, <3>1 DEF g, Others
    <3>3. QED BY <1>3, <1>4, <1>5, <3>1, <3>2
  <2>3. QED BY <2>1, <2>2
<1>6. d.left \subseteq GroupsOf(l, d.ids) /\ ~Bad(l, d.ids)
  BY <1>1
<1>7. QED BY <1>1, <1>3, <1>4, <1>5, <1>6 DEF ListSet

\* The work on a group goes on.
LEMMA GroupGoes ==
    ASSUME NEW p, Layout(lib[p]), pc[p] \in {"ssel", "sget", "sdet", "soff"},
           ListSet(lib[p], call[p], pc[p], err[p], ctrl, port), pc'[p] \in {"sget", "sdet", "soff"},
           call'[p].ids = call[p].ids, call'[p].on = call[p].on, call'[p].left = call[p].left,
           ~err'[p] => /\ ~err[p] /\ Others(port, port', First(call[p].left))
                       /\ pc'[p] = "soff" => AllOn(lib[p], call[p], port')
    PROVE  ListSet(lib[p], call'[p], pc'[p], err'[p], ctrl, port')
<1> DEFINE l == lib[p]  c == call[p]  d == call'[p]  at == pc[p]  e == err[p]  f == err'[p]  sw == ctrl
           x == port  y == port'  to == pc'[p]
<1>0. /\ Layout(l) /\ at \in {"ssel", "sget", "sdet", "soff"} /\ ListSet(l, c, at, e, sw, x)
      /\ to \in {"sget", "sdet", "soff"} /\ d.ids = c.ids /\ d.on = c.on /\ d.left = c.left
      /\ ~f => ~e /\ Others(x, y, First(c.left)) /\ (to = "soff" => AllOn(l, c, y))
  OBVIOUS
<1> SUFFICES ListSet(l, d, to, f, sw, y)
  OBVIOUS
<1> USE <1>0
<1> HIDE DEF l, c, d, at, e, f, sw, x, y, to
<1> DEFINE g == First(c.left)
<1>1. ~Bad(l, c.ids) /\ c.left \subseteq GroupsOf(l, c.ids) /\ c.left # {} /\ l.poe
  BY DEF ListSet
<1>2. g \in c.left /\ GroupsOf(l, c.ids) \subseteq PoeGroups
  BY <1>1, LeftIn
<1>3. \A h : OnIn(l, d, h) = OnIn(l, c, h)
  BY DEF OnIn
<1>4. ASSUME ~f
      PROVE  /\ OnIn(l, c, Main) # {} => "main" \in sw
             /\ \A h \in GroupsOf(l, c.ids) \ c.left : x[h] \cap Asked(l, c.ids, h) = OnIn(l, c, h)
  BY <1>1, <1>4 DEF ListSet
<1> HIDE DEF g
<1>5. ASSUME ~f, NEW h \in GroupsOf(l, d.ids) \ d.left PROVE y[h] \cap Asked(l, d.ids, h) = OnIn(l, d, h)
  <2>1. h # g /\ h \in PoeGroups /\ h \in GroupsOf(l, c.ids) \ c.left
    BY <1>2, <1>5
  <2>2. y[h] = x[h]
    BY <1>5, <2>1 DEF g, Others
  <2>3. QED BY <1>3, <1>4, <1>5, <2>1, <2>2
<1>6. QED BY <1>1, <1>3, <1>4, <1>5 DEF ListSet, AllOn

LEMMA ListSame ==
    ASSUME NEW l, NEW m, m.bound = l.bound, m.cnt = l.cnt, m.poe = l.poe
    PROVE  /\ \A c, g : OnIn(m, c, g) = OnIn(l, c, g)
           /\ \A c, at, e, sw, x : ListSet(l, c, at, e, sw, x) => ListSet(m, c, at, e, sw, x)
<1>1. \A c, g : OnIn(m, c, g) = OnIn(l, c, g)
  BY SameCounts DEF OnIn
<1>2. SUFFICES ASSUME NEW c, NEW at, NEW e, NEW sw, NEW x, ListSet(l, c, at, e, sw, x)
               PROVE  ListSet(m, c, at, e, sw, x)
  BY <1>1
<1>3. /\ \A g : Asked(m, c.ids, g) = Asked(l, c.ids, g)
      /\ (Bad(m, c.ids) <=> Bad(l, c.ids)) /\ GroupsOf(m, c.ids) = GroupsOf(l, c.ids)
      /\ MainOn(m, sw) <=> MainOn(l, sw)
  BY SameCounts
<1>4. QED BY <1>1, <1>2, <1>3 DEF ListSet

\* The call begins its work.
LEMMA SetStarted ==
    ASSUME NEW p, PoeShaped(p), Layout(lib[p]), op[p] = "SetPOEConfigs_1", SetPOEConfigs_1(p), pc'[p] # "idle"
    PROVE  ListSet(lib[p], call'[p], pc'[p], err'[p], ctrl', port') /\ pc'[p] \in {"ctrl", "group1"}
<1> USE DEF PoeShaped, Shaped
<1>1. PICK ids, cur : ListArgs(p, "SetPOEConfigs_1", "set1", ids, cur, "group1")
  BY DEF SetPOEConfigs_1, Repeating
<1> DEFINE l == lib[p]  gs == GroupsOf(l, ids)  left == IF l.poe THEN gs ELSE {}
<1>2. ~Over(p)
  BY DEF Over, Return, Goto
<1>3. /\ ~Bad(l, ids) /\ Work(p, ids, left) /\ SetErr(p, FALSE)
      /\ Continue(p, IF Main \in gs THEN "ctrl" ELSE "group1")
  BY <1>1, <1>2 DEF ListArgs, Reject, Over
<1>4. /\ call'[p].ids = ids /\ call'[p].left = left /\ err'[p] = FALSE
      /\ pc'[p] = IF Main \in gs THEN "ctrl" ELSE "group1"
  BY <1>3 DEF Work, InCall, NoCall, SetErr, Continue, Goto
<1>5. gs \subseteq PoeGroups /\ (~l.poe => gs \subseteq {Main})
  BY <1>3, Groupings DEF GroupsOf, PoeGroups
<1> DEFINE c == call'[p]
<1>6. Main \notin gs => OnIn(l, c, Main) = {}
  <2>1. ASSUME NEW i \in IdsIn(l, ids, Main) PROVE Main \in gs
    <3>1. i \in DOMAIN ids
      BY <2>1 DEF IdsIn
    <3>2. GroupOf(l, ids[i]) = Main
      BY <1>3, <2>1, <3>1, Groupings DEF Main
    <3>3. QED BY <3>1, <3>2 DEF GroupsOf
  <2>2. QED BY <1>4, <2>1 DEF OnIn
<1>7. Main \notin gs /\ ~l.poe => DOMAIN ids = {}
  <2>1. ASSUME NEW i \in DOMAIN ids PROVE GroupOf(l, ids[i]) \in gs
    BY DEF GroupsOf
  <2> HIDE DEF gs
  <2>2. QED BY <1>5, <2>1
<1>8. c.left \subseteq GroupsOf(l, c.ids) /\ ~Bad(l, c.ids)
  BY <1>3, <1>4
<1> HIDE DEF l
<1>9. CASE Main \in gs
  <2>1. pc'[p] = "ctrl"
    BY <1>4, <1>9
  <2>2. QED BY <1>4, <1>8, <2>1 DEF ListSet, l
<1>10. CASE Main \notin gs
  <2>1. pc'[p] = "group1"
    BY <1>4, <1>10
  <2>2. l.poe => GroupsOf(l, c.ids) \ c.left = {}
    BY <1>4
  <2>3. QED BY <1>4, <1>6, <1>7, <1>8, <1>10, <2>1, <2>2 DEF ListSet, l
<1>11. QED BY <1>9, <1>10

\* The switch is read, and closed where a port is to be on.
LEMMA SwitchSeen ==
    ASSUME NEW p, PoeShaped(p), Layout(lib[p]), NEW ok \in BOOLEAN, ReadCtrlSet(p, ok),
           ListSet(lib[p], call[p], "ctrl", err[p], ctrl, port)
    PROVE  ListSet(lib[p], call'[p], pc'[p], err'[p], ctrl', port')
<1> USE DEF PoeShaped, Shaped
<1> DEFINE l == lib[p]  c == call[p]  d == call'[p]  mine == IdsIn(l, c.ids, Main)
           wrong == {i \in mine : (i \in c.on) # MainOn(l, ctrl)}
           close == l.poe /\ wrong \cap c.on # {}
<1>1. /\ ctrl' = ctrl /\ port' = port /\ err'[p] = (~ok \/ (~l.poe /\ wrong # {}))
      /\ d = [c EXCEPT !.buf = IF close THEN ctrl \cup {"main"} ELSE ctrl]
      /\ pc'[p] = IF ~ok \/ ~l.poe THEN "fin" ELSE IF close THEN "swr" ELSE "group1"
  BY DEF ReadCtrlSet, ReadOnly, aicVars, SetErr, InCall, Continue, Goto
<1>2. /\ d.ids = c.ids /\ d.on = c.on /\ d.left = c.left /\ (close => "main" \in d.buf)
  BY <1>1 DEF NoCall
<1>3. /\ ~Bad(l, c.ids) /\ c.left \subseteq GroupsOf(l, c.ids)
      /\ IF l.poe THEN c.left = GroupsOf(l, c.ids) ELSE c.left = {}
  BY DEF ListSet
<1>4. ~l.poe /\ wrong = {} => \A i \in DOMAIN c.ids : i \in c.on <=> MainOn(l, ctrl)
  <2>1. ASSUME ~l.poe, NEW i \in DOMAIN c.ids PROVE i \in mine
    <3>1. GroupOf(l, c.ids[i]) = Main
      BY <1>3, <2>1, Groupings DEF PoeGroups
    <3>2. QED BY <1>3, <3>1, Groupings DEF Main
  <2>2. ASSUME ~l.poe, wrong = {}, NEW i \in DOMAIN c.ids PROVE i \in c.on <=> MainOn(l, ctrl)
    <3>1. i \notin wrong
      BY <2>2
    <3>2. (i \in c.on) \in BOOLEAN /\ MainOn(l, ctrl) \in BOOLEAN
      <4>1. MainOn(l, ctrl) = ({"main", "iom"} \subseteq ctrl)
        BY <2>2 DEF MainOn
      <4>2. QED BY <4>1
    <3>3. (i \in c.on) = MainOn(l, ctrl)
      BY <2>1, <2>2, <3>1
    <3>4. QED BY <3>2, <3>3
  <2>3. QED BY <2>2
<1>5. l.poe /\ ~close /\ OnIn(l, c, Main) # {} => "main" \in ctrl
  <2> SUFFICES ASSUME l.poe, ~close, OnIn(l, c, Main) # {} PROVE "main" \in ctrl
    OBVIOUS
  <2>1. PICK i \in mine \cap c.on : TRUE
    BY DEF OnIn
  <2>2. i \notin wrong
    BY <2>1
  <2>3. (i \in c.on) = MainOn(l, ctrl)
    BY <2>1, <2>2
  <2>4. MainOn(l, ctrl)
    BY <2>1, <2>3
  <2>5. QED BY <2>4 DEF MainOn
<1>6. \A g : OnIn(l, d, g) = OnIn(l, c, g)
  BY <1>2 DEF OnIn
<1> HIDE DEF l, c, d, close, wrong
<1>7. CASE ~ok
  <2>1. pc'[p] = "fin" /\ err'[p]
    BY <1>1, <1>7
  <2>2. QED BY <1>2, <1>3, <2>1 DEF ListSet, l, d
<1>8. CASE ok /\ ~l.poe
  <2>1. pc'[p] = "fin" /\ (~err'[p] => wrong = {}) /\ ctrl' = ctrl
    BY <1>1, <1>8
  <2>2. QED BY <1>2, <1>3, <1>4, <1>8, <2>1 DEF ListSet, l, d
<1>9. CASE ok /\ l.poe /\ close
  <2>1. pc'[p] = "swr"
    BY <1>1, <1>9
  <2>2. QED BY <1>2, <1>3, <1>9, <2>1 DEF ListSet, l, d
<1>10. CASE ok /\ l.poe /\ ~close
  <2>1. pc'[p] = "group1" /\ ctrl' = ctrl
    BY <1>1, <1>10
  <2>2. QED BY <1>2, <1>3, <1>5, <1>6, <1>10, <2>1 DEF ListSet, l, d
<1>11. QED BY <1>7, <1>8, <1>9, <1>10

LEMMA SwitchClosed ==
    ASSUME NEW p, PoeShaped(p), Layout(lib[p]), op[p] = "SetPOEConfigs_1", NEW ok \in BOOLEAN, CloseSwitch(p, ok),
           ListSet(lib[p], call[p], "swr", err[p], ctrl, port)
    PROVE  ListSet(lib[p], call'[p], pc'[p], err'[p], ctrl', port')
<1> USE DEF PoeShaped, Shaped
<1> DEFINE l == lib[p]  c == call[p]
<1>1. /\ ctrl' = (IF ok THEN c.buf ELSE ctrl) /\ port' = port /\ err'[p] = ~ok /\ call'[p] = c
      /\ pc'[p] = IF ~ok THEN "fin" ELSE "group1"
  BY DEF CloseSwitch, Single, SetErr, Continue, Goto, KeepCall
<1>2. ~Bad(l, c.ids) /\ c.left = GroupsOf(l, c.ids) /\ l.poe /\ "main" \in c.buf
  BY DEF ListSet
<1> HIDE DEF l, c
<1>3. CASE ok
  <2>1. pc'[p] = "group1" /\ ctrl' = c.buf /\ call'[p] = c
    BY <1>1, <1>3
  <2>2. QED BY <1>2, <2>1 DEF ListSet, l
<1>4. CASE ~ok
  <2>1. pc'[p] = "fin" /\ err'[p] /\ call'[p] = c
    BY <1>1, <1>4
  <2>2. QED BY <1>2, <2>1 DEF ListSet, l
<1>5. QED BY <1>3, <1>4

LEMMA GroupNext ==
    ASSUME NEW p, PoeShaped(p), Layout(lib[p]), NextGroup(p),
           ListSet(lib[p], call[p], "group1", err[p], ctrl, port)
    PROVE  ListSet(lib[p], call'[p], pc'[p], err'[p], ctrl', port')
<1> USE DEF PoeShaped, Shaped
<1> DEFINE l == lib[p]  c == call[p]  g == First(c.left)
<1>1. /\ ctrl' = ctrl /\ port' = port /\ err'[p] = err[p] /\ call'[p] = c
      /\ pc'[p] = CASE c.left = {} -> "fin"
                    [] c.left # {} /\ AskedOn(p, g) = {} -> "soff"
                    [] c.left # {} /\ AskedOn(p, g) # {} /\ Asked(lib[p], c.ids, g) = Ports -> "sdet"
                    [] OTHER -> "ssel"
  BY DEF NextGroup, Continue, Goto, KeepCall
<1>2. AskedOn(p, g) = OnIn(l, c, g)
  BY DEF AskedOn, OnIn
<1>3. \/ c.left = {} /\ pc'[p] = "fin"
      \/ c.left # {} /\ (pc'[p] \in {"sdet", "ssel"} \/ (pc'[p] = "soff" /\ OnIn(l, c, g) = {}))
  BY <1>1, <1>2
<1>4. CASE c.left = {} /\ pc'[p] = "fin"
  BY <1>1, <1>4 DEF ListSet
<1>5. CASE c.left # {} /\ pc'[p] \in {"sdet", "ssel"}
  BY <1>1, <1>5 DEF ListSet
<1>6. CASE c.left # {} /\ pc'[p] = "soff" /\ OnIn(l, c, g) = {}
  BY <1>1, <1>6 DEF ListSet
<1>7. QED BY <1>3, <1>4, <1>5, <1>6

\* What Off leaves: the ports to be off are still to come, or the group is done.
LEMMA GroupOffs ==
    ASSUME NEW p, PoeShaped(p), op[p] = "SetPOEConfigs_1", Layout(lib[p]), ~Bad(lib[p], call[p].ids)
    PROVE  LET g == First(call[p].left)
           IN /\ Off(p) => \/ pc'[p] = "soff" /\ call'[p] = call[p]
                           \/ /\ pc'[p] = "group1" /\ Onward(p, "group1")
                              /\ Asked(lib[p], call[p].ids, g) = OnIn(lib[p], call[p], g)
              /\ Onward(p, "group1") => /\ pc'[p] = "group1" /\ call'[p].ids = call[p].ids
                                        /\ call'[p].on = call[p].on /\ call'[p].left = call[p].left \ {g}
              /\ AskedOff(p, g) = Asked(lib[p], call[p].ids, g) \ OnIn(lib[p], call[p], g)
<1> USE DEF PoeShaped, Shaped
<1> DEFINE g == First(call[p].left)
<1>1. AskedOff(p, g) = Asked(lib[p], call[p].ids, g) \ OnIn(lib[p], call[p], g)
  BY DEF AskedOff, AskedOn, OnIn
<1>2. AskedOff(p, g) = {} => Asked(lib[p], call[p].ids, g) = OnIn(lib[p], call[p], g)
  BY <1>1, OnInside
<1>3. Onward(p, "group1") => /\ pc'[p] = "group1" /\ call'[p].ids = call[p].ids
                             /\ call'[p].on = call[p].on /\ call'[p].left = call[p].left \ {g}
  BY DEF Onward, InCall, NoCall, Continue, Goto
<1>4. Off(p) => \/ pc'[p] = "soff" /\ call'[p] = call[p]
                \/ Onward(p, "group1") /\ AskedOff(p, g) = {}
  BY DEF Off, Single, Continue, Goto
<1>5. QED BY <1>1, <1>2, <1>3, <1>4

LEMMA GroupWork ==
    ASSUME NEW p, PoeShaped(p), Layout(lib[p]), op[p] = "SetPOEConfigs_1", DOMAIN port = PoeGroups,
           NEW ok \in BOOLEAN, GroupTurn(p, ok), ListSet(lib[p], call[p], pc[p], err[p], ctrl, port)
    PROVE  ListSet(lib[p], call'[p], pc'[p], err'[p], ctrl', port')
<1> USE DEF PoeShaped, Shaped
<1> DEFINE l == lib[p]  c == call[p]  d == call'[p]  g == First(c.left)  f == err'[p]
<1>1. pc[p] \in {"ssel", "sget", "sdet", "soff"} /\ ctrl' = ctrl /\ err[p] \in BOOLEAN /\ f \in BOOLEAN
  BY DEF GroupTurn, SelectSet, ReadSet, Detect, PowerOff, ReadOnly, aicVars, SetErr
<1>2. ~Bad(l, c.ids) /\ c.left # {} /\ g \in c.left /\ g \in PoeGroups /\ l.poe
  BY <1>1, LeftIn DEF ListSet
<1> DEFINE Fine == ListSet(l, d, pc'[p], f, ctrl, port')
           Spared == Others(port, port', g)
<1>3. ASSUME Onward(p, "group1"), ~f => ~err[p] /\ Spared /\ OnlyOn(l, c, port') PROVE Fine
  <2>1. pc'[p] = "group1" /\ d.ids = c.ids /\ d.on = c.on /\ d.left = c.left \ {g}
    BY <1>2, <1>3, GroupOffs
  <2>2. ListSet(l, d, "group1", f, ctrl, port')
    BY <1>1, <1>3, <2>1, GroupDone
  <2>3. QED BY <2>1, <2>2
<1>4. ASSUME pc'[p] \in {"sget", "sdet", "soff"}, d.ids = c.ids, d.on = c.on, d.left = c.left,
             ~f => ~err[p] /\ Spared /\ (pc'[p] = "soff" => AllOn(l, c, port'))
      PROVE  Fine
  BY <1>1, <1>4, GroupGoes
<1> HIDE DEF Fine, f, d, Spared
<1>5. ASSUME Off(p), ~f => ~err[p] /\ Spared /\ AllOn(l, c, port'),
             ~f => (Asked(l, c.ids, g) = OnIn(l, c, g) => OnlyOn(l, c, port'))
      PROVE  Fine
  <2>1. CASE pc'[p] = "soff" /\ call'[p] = c
    <3>1. d.ids = c.ids /\ d.on = c.on /\ d.left = c.left /\ pc'[p] = "soff"
      BY <2>1 DEF d
    <3>2. QED BY <1>4, <1>5, <3>1
  <2>2. CASE Onward(p, "group1") /\ Asked(l, c.ids, g) = OnIn(l, c, g)
    BY <1>3, <1>5, <2>2
  <2>3. QED BY <1>2, <1>5, <2>1, <2>2, GroupOffs
<1>6. ASSUME SelectSet(p, ok) PROVE Fine
  <2>1. CASE ok
    <3>1. f /\ Off(p)
      BY <1>6, <2>1 DEF SelectSet, SetErr, f
    <3>2. QED BY <1>5, <3>1
  <2>2. CASE ~ok
    <3>1. (f <=> err[p]) /\ pc'[p] = "sget" /\ call'[p] = c /\ port' = port
      BY <1>1, <1>6, <2>2 DEF SelectSet, SetErr, Continue, Goto, KeepCall, f
    <3>2. d.ids = c.ids /\ d.on = c.on /\ d.left = c.left /\ Spared
      BY <3>1 DEF d, Spared, Others
    <3>3. QED BY <1>4, <3>1, <3>2
  <2>3. QED BY <2>1, <2>2
<1>7. ASSUME ReadSet(p, ok) PROVE Fine
  <2>1. CASE ok
    <3>1. (f <=> err[p]) /\ pc'[p] = "sdet" /\ call'[p] = [c EXCEPT !.bits = port[poecfg]] /\ port' = port
      BY <1>1, <1>7, <2>1 DEF ReadSet, ReadOnly, aicVars, SetErr, Continue, Goto, InCall, f
    <3>2. d.ids = c.ids /\ d.on = c.on /\ d.left = c.left /\ Spared
      BY <3>1 DEF NoCall, d, Spared, Others
    <3>3. QED BY <1>4, <3>1, <3>2
  <2>2. CASE ~ok
    <3>1. f /\ Off(p)
      BY <1>7, <2>2 DEF ReadSet, SetErr, f
    <3>2. QED BY <1>5, <3>1
  <2>3. QED BY <2>1, <2>2
<1>8. ASSUME Detect(p, ok) PROVE Fine
  <2>1. Off(p) /\ (~f => ok /\ ~err[p])
    BY <1>1, <1>8 DEF Detect, SetErr, f
  <2>2. ASSUME ok PROVE Spared /\ AllOn(l, c, port') /\ OnlyOn(l, c, port')
    <3> DEFINE on == OnIn(l, c, g)  all == Asked(l, c.ids, g)
    <3>1. on = AskedOn(p, g) /\ on \subseteq all
      BY <1>1, <1>2, OnInside DEF AskedOn, OnIn
    <3>2. port' = [port EXCEPT ![g] = (c.bits \ all) \cup on]
      BY <1>8, <2>2, <3>1 DEF Detect, Single
    <3>3. AllOn(l, c, port') = (on \subseteq port'[g]) /\ OnlyOn(l, c, port') = (port'[g] \cap all = on)
      BY DEF AllOn, OnlyOn
    <3> HIDE DEF on, all, g
    <3>4. port'[g] = (c.bits \ all) \cup on /\ Spared
      BY <1>2, <3>2 DEF Spared, Others
    <3>5. port'[g] \cap all = on /\ on \subseteq port'[g]
      BY <3>1, <3>4
    <3>6. QED BY <3>3, <3>4, <3>5
  <2>3. QED BY <1>5, <2>1, <2>2
<1>9. ASSUME PowerOff(p, ok) PROVE Fine
  <2>1. Onward(p, "group1") /\ (~f => ok /\ ~err[p]) /\ pc[p] = "soff"
    BY <1>1, <1>9 DEF PowerOff, SetErr, f, Single
  <2>2. ASSUME ok, ~err[p] PROVE Spared /\ OnlyOn(l, c, port')
    <3> DEFINE on == OnIn(l, c, g)  all == Asked(l, c.ids, g)
    <3>1. AskedOff(p, g) = all \ on
      BY <1>2, GroupOffs
    <3>2. on \subseteq all
      BY <1>2, OnInside
    <3>3. on \subseteq port[g]
      BY <1>2, <2>1, <2>2 DEF ListSet
    <3>4. port' = [port EXCEPT ![g] = @ \ AskedOff(p, g)]
      BY <1>9, <2>2 DEF PowerOff, Single
    <3>5. OnlyOn(l, c, port') = (port'[g] \cap all = on)
      BY DEF OnlyOn
    <3> HIDE DEF on, all, g
    <3>6. port'[g] = port[g] \ (all \ on) /\ Spared
      BY <1>2, <3>1, <3>4 DEF Spared, Others
    <3>7. port'[g] \cap all = on
      BY <3>2, <3>3, <3>6
    <3>8. QED BY <3>5, <3>6, <3>7
  <2>3. QED BY <1>3, <2>1, <2>2
<1>10. QED BY <1>1, <1>6, <1>7, <1>8, <1>9 DEF GroupTurn, Fine, f, d

\* A call that ends without an error has set what it was given.
LEMMA SetEnds ==
    ASSUME NEW p, Layout(lib[p]), ListSet(lib[p], call[p], "fin", FALSE, ctrl, port), NEW i \in DOMAIN call[p].ids
    PROVE  Feeds(lib[p], ctrl, port, call[p].ids[i])
             <=> \E j \in call[p].on \cap DOMAIN call[p].ids : call[p].ids[j] = call[p].ids[i]
<1> DEFINE l == lib[p]  c == call[p]  sw == ctrl  x == port
<1>0. Layout(l) /\ ListSet(l, c, "fin", FALSE, sw, x) /\ i \in DOMAIN c.ids
  OBVIOUS
<1> SUFFICES Feeds(l, sw, x, c.ids[i]) <=> \E j \in c.on \cap DOMAIN c.ids : c.ids[j] = c.ids[i]
  OBVIOUS
<1> USE <1>0
<1> HIDE DEF l, c, sw, x
<1> DEFINE g == GroupOf(l, c.ids[i])  it == PortOf(l, c.ids[i])
<1>1. ~Bad(l, c.ids) /\ c.left = {}
  BY DEF ListSet
<1>2. CASE ~l.poe
  <2>1. \A j \in DOMAIN c.ids : j \in c.on <=> MainOn(l, sw)
    BY <1>2 DEF ListSet
  <2>2. Feeds(l, sw, x, c.ids[i]) <=> MainOn(l, sw)
    BY <1>2 DEF Feeds, MainOn
  <2>3. QED BY <2>1, <2>2
<1>3. CASE l.poe
  <2>1. /\ it \in Asked(l, c.ids, g)
        /\ it \in OnIn(l, c, g) <=> \E j \in c.on \cap DOMAIN c.ids : c.ids[j] = c.ids[i]
    BY <1>1, NamedPorts
  <2>2. g \in GroupsOf(l, c.ids) \ c.left
    BY <1>1 DEF GroupsOf
  <2>3. (OnIn(l, c, Main) # {} => "main" \in sw) /\ x[g] \cap Asked(l, c.ids, g) = OnIn(l, c, g)
    BY <1>3, <2>2 DEF ListSet
  <2>4. Feeds(l, sw, x, c.ids[i]) <=> it \in x[g] /\ (g = Main => "main" \in sw)
    BY <1>3 DEF Feeds
  <2> HIDE DEF it, g
  <2>5. it \in x[g] /\ (g = Main => "main" \in sw) <=> it \in OnIn(l, c, g)
    BY <2>1, <2>3
  <2>6. QED BY <2>1, <2>4, <2>5
<1>4. QED BY <1>2, <1>3

\* Where the program is not mistaken about the firmware, that is the board's.
LEMMA FedAs ==
    ASSUME NEW p, Firm(p), Layout(lib[p]), Known(p), NEW id
    PROVE  Fed(lib[p], id) <=> Feeds(lib[p], ctrl, port, id)
BY DEF Fed, Feeds, Firm

\* A step of the call.
LEMMA SetTurns ==
    ASSUME CountsInv, NEW p \in Procs, PoeShaped(p), Cut(p), OnPoe(p), PoeTurn(p), op[p] = "SetPOEConfigs_1",
           DOMAIN port = PoeGroups, SetWorking(p), Firm(p), board' = board
    PROVE  SetKnown(p)'
<1> USE DEF PoeShaped, Shaped
<1>1. Layout(lib[p]) /\ lib'[p] \in {lib[p], Detected(lib[p])} /\ op'[p] = op[p]
  BY CutLayout, PoeMoves DEF PoeTurn, Calm
<1>2. /\ lib'[p].bound = lib[p].bound /\ lib'[p].cnt = lib[p].cnt /\ lib'[p].poe = lib[p].poe
  BY <1>1, DetectedKept
<1>3. ASSUME ListSet(lib[p], call'[p], pc'[p], err'[p], ctrl', port'), pc'[p] # "idle" PROVE SetKnown(p)'
  BY <1>2, <1>3, ListSame DEF SetKnown, SetWorking, Done
<1>4. ASSUME pc'[p] = "idle", ret'[p] # "true" PROVE SetKnown(p)'
  BY <1>4 DEF SetKnown, SetWorking, Done, SetPlaces
<1>5. Return(p, FALSE) => pc'[p] = "idle" /\ ret'[p] # "true"
  BY DEF Return, Goto
<1>6. NoHardware(p) \/ ListTurn(p) \/ Fin(p)
  BY PoeTurns DEF PoeInfos, GetTurn, ConfigGets, SingleTurn, AllTurn, StatTurn, StatGets, BuzTurn, PoeVerifies
<1>7. CASE NoHardware(p)
  BY <1>4, <1>5, <1>7 DEF NoHardware
<1>8. CASE SetPOEConfigs_1(p)
  <2>1. pc'[p] # "idle" \/ Return(p, FALSE)
    <3>1. PICK ids, cur : ListArgs(p, "SetPOEConfigs_1", "set1", ids, cur, "group1")
      BY <1>8 DEF SetPOEConfigs_1, Repeating
    <3>2. Return(p, FALSE) \/ Continue(p, IF Main \in GroupsOf(lib[p], ids) THEN "ctrl" ELSE "group1")
      BY <3>1 DEF ListArgs, Reject
    <3>3. QED BY <3>2 DEF Continue, Goto
  <2>2. CASE pc'[p] # "idle"
    BY <1>1, <1>3, <1>8, <2>2, SetStarted
  <2>3. QED BY <1>4, <1>5, <2>1, <2>2
<1>9. ASSUME pc[p] \in SetPlaces PROVE ListSet(lib[p], call[p], pc[p], err[p], ctrl, port)
  BY <1>9 DEF SetWorking
<1>10. CASE NextGroup(p)
  <2>1. pc[p] = "group1"
    BY <1>10 DEF NextGroup
  <2>2. ListSet(lib[p], call'[p], pc'[p], err'[p], ctrl', port')
    BY <1>1, <1>9, <1>10, <2>1, GroupNext DEF SetPlaces
  <2>3. pc'[p] # "idle"
    <3>1. NextGroup(p) => \E x \in {"fin", "soff", "sdet", "ssel"} : Continue(p, x)
      BY DEF NextGroup
    <3>2. QED BY <1>10, <3>1 DEF Continue, Goto
  <2>4. QED BY <1>3, <2>2, <2>3
<1>11. ASSUME NEW ok \in BOOLEAN, ReadCtrlSet(p, ok) PROVE SetKnown(p)'
  <2>1. pc[p] = "ctrl" /\ pc'[p] # "idle"
    BY <1>11 DEF ReadCtrlSet, Continue, Goto
  <2>2. ListSet(lib[p], call'[p], pc'[p], err'[p], ctrl', port')
    BY <1>1, <1>9, <1>11, <2>1, SwitchSeen DEF SetPlaces
  <2>3. QED BY <1>3, <2>1, <2>2
<1>12. ASSUME NEW ok \in BOOLEAN, CloseSwitch(p, ok) PROVE SetKnown(p)'
  <2>1. pc[p] = "swr" /\ pc'[p] # "idle"
    BY <1>12 DEF CloseSwitch, Continue, Goto
  <2>2. ListSet(lib[p], call'[p], pc'[p], err'[p], ctrl', port')
    BY <1>1, <1>9, <1>12, <2>1, SwitchClosed DEF SetPlaces
  <2>3. QED BY <1>3, <2>1, <2>2
<1>13. ASSUME NEW ok \in BOOLEAN, GroupTurn(p, ok) PROVE SetKnown(p)'
  <2>1. pc[p] \in SetPlaces /\ pc'[p] # "idle"
    BY <1>13 DEF GroupTurn, SelectSet, ReadSet, Detect, PowerOff, Off, Onward, Continue, Goto, SetPlaces
  <2>2. ListSet(lib[p], call'[p], pc'[p], err'[p], ctrl', port')
    BY <1>1, <1>9, <1>13, <2>1, GroupWork
  <2>3. QED BY <1>3, <2>1, <2>2
<1>14. CASE Fin(p)
  <2>1. CASE err[p]
    BY <1>4, <1>5, <1>14, <2>1 DEF Fin, Reject
  <2>2. CASE ~err[p]
    <3>1. /\ pc[p] = "fin" /\ pc'[p] = "idle" /\ call' = call /\ lib' = lib /\ ctrl' = ctrl /\ port' = port
      BY <1>14, <2>2 DEF Fin, KeepCall, Return, Goto
    <3>2. err[p] = FALSE
      BY <2>2
    <3>3. ListSet(lib[p], call[p], "fin", FALSE, ctrl, port)
      BY <1>9, <3>1, <3>2 DEF SetPlaces
    <3>4. ASSUME NEW i \in Ids(p)
          PROVE  Fed(lib[p], call[p].ids[i]) <=> \E j \in call[p].on \cap Ids(p) : call[p].ids[j] = call[p].ids[i]
      <4>1. ~Bad(lib[p], call[p].ids)
        BY <3>3 DEF ListSet
      <4>2. Known(p)
        BY <1>1, <3>4, <4>1, Groupings, CutLayout DEF Ids
      <4>3. Feeds(lib[p], ctrl, port, call[p].ids[i])
              <=> \E j \in call[p].on \cap DOMAIN call[p].ids : call[p].ids[j] = call[p].ids[i]
        <5>1. i \in DOMAIN call[p].ids
          BY <3>4 DEF Ids
        <5>2. QED BY <1>1, <3>3, <5>1, SetEnds
      <4>4. Fed(lib[p], call[p].ids[i]) <=> Feeds(lib[p], ctrl, port, call[p].ids[i])
        BY <1>1, <4>2, FedAs
      <4>5. QED BY <4>3, <4>4 DEF Ids
    <3>5. SetSaid(p)'
      <4>1. SetSaid(p)
        BY <3>4 DEF SetSaid
      <4>2. QED BY <3>1, <4>1 DEF SetSaid, Fed, Ids
    <3>6. QED BY <3>1, <3>5 DEF SetKnown, SetWorking, SetPlaces
  <2>3. QED BY <2>1, <2>2
<1>15. QED BY <1>6, <1>7, <1>8, <1>10, <1>11, <1>12, <1>13, <1>14 DEF ListTurn
-----------------------------------------------------------------------------
(* A list that is set, by a program alone with the AIC.                    *)

\* What the AIC was asked last is what a program alone asked it, so it finds
\* the firmware the board has.
Asking(p) == pc[p] = "info" /\ ~err[p] => poeinfo = Get
FirmWay(p) == Asking(p) /\ Firm(p)

LEMMA FirmCounted ==
    ASSUME NEW p \in Procs, lib \in [Procs -> Statics], NEW l \in Statics, NEW e \in BOOLEAN, board' = board,
           pc = [q \in Procs |-> pc[q]], ~(l.bound[Main] > 0), ~e => (l.poe <=> board.groups), Counted(p, l, e)
    PROVE  FirmWay(p)'
<1>1. pc'[p] \in {"idle", "args"}
  BY DEF Counted, Return, Continue, Goto
<1>2. CASE Learn(p, l)
  <2>1. lib'[p] = l
    BY <1>2 DEF Learn
  <2>2. ~Known(p)'
    BY <2>1 DEF Known
  <2>3. QED BY <1>1, <2>2 DEF FirmWay, Asking, Firm
<1>3. CASE Learn(p, [l EXCEPT !.bound = Bounds(l)]) /\ ~e
  <2> DEFINE m == [l EXCEPT !.bound = Bounds(l)]
  <2>1. m.poe = l.poe
    BY DEF Statics
  <2>2. lib'[p] = m
    BY <1>3 DEF Learn
  <2> HIDE DEF m
  <2>3. lib'[p].poe <=> board'.groups
    BY <1>3, <2>1, <2>2
  <2>4. QED BY <1>1, <2>3 DEF FirmWay, Asking, Firm
<1>4. QED BY <1>2, <1>3 DEF Counted

LEMMA FirmCounts ==
    ASSUME CountsInv, NEW p \in Procs, AskCounts(p), board' = board, FirmWay(p) PROVE FirmWay(p)'
<1> USE DEF CountsInv, Types
<1>1. lib[p] \in Statics /\ Honest(p) /\ board \in AllBoards /\ err[p] \in BOOLEAN
  OBVIOUS
<1>2. ASSUME lib'[p].bound = lib[p].bound, lib'[p].poe = lib[p].poe, pc'[p] # "info" PROVE FirmWay(p)'
  BY <1>2 DEF FirmWay, Asking, Firm, Known
<1>3. pc[p] \in Counting => ~(lib[p].bound[Main] > 0)
  BY DEF Honest, Known
<1>4. \A o : FirstStep(o) # "info"
  BY DEF FirstStep
<1>5. ASSUME NEW o \in Queries, Query(p, o) PROVE FirmWay(p)'
  <2>1. CASE Hit(p, o)
    BY <2>1 DEF Hit, FirmWay, Asking, Firm, Known
  <2>2. CASE \E l : Enter(p, o, l) /\ l # "info"
    BY <1>2, <2>2 DEF Enter, Goto
  <2>3. QED BY <1>4, <1>5, <2>1, <2>2 DEF Query
<1>6. CountOnly(p) => FirmWay(p)'
  <2>1. CountEntry(lib[p]) # "info"
    BY DEF CountEntry
  <2>2. QED BY <1>2, <2>1 DEF CountOnly, Enter, Goto
<1>7. CountDone(p) => FirmWay(p)'
  BY <1>1, <1>2, DetectedKept DEF CountDone, Learn, Return, Goto
<1>8. ASSUME NEW ok \in BOOLEAN, Privilege(p, ok) \/ SelectCounts(p, ok) PROVE FirmWay(p)'
  BY <1>2, <1>8 DEF Privilege, SelectCounts, Continue, Goto
<1>9. ASSUME NEW ok \in BOOLEAN, AskPoeInfo(p, ok) PROVE FirmWay(p)'
  <2>1. ~err'[p] => poeinfo' = Get
    BY <1>1, <1>9 DEF AskPoeInfo, SetErr, WriteInfo
  <2>2. QED BY <1>9, <2>1 DEF AskPoeInfo, FirmWay, Asking, Firm, Known
<1>10. ASSUME NEW ok \in BOOLEAN, EfcoId(p, ok) PROVE FirmWay(p)'
  BY <1>1, <1>2, <1>4, <1>10 DEF EfcoId, Learn, Statics, Return, Continue, Goto
<1>11. ASSUME NEW ok \in BOOLEAN, ReadCounts(p, ok) PROVE FirmWay(p)'
  <2> DEFINE m == [lib[p] EXCEPT !.det = TRUE, !.setcom = board.com, !.usb = board.usb,
                                 !.fan = board.fan, !.cnt[Main] = board.main]
  <2>1. m.bound = lib[p].bound /\ m.poe = lib[p].poe
    BY <1>1 DEF Statics, Main, Pcie, Groups
  <2>2. lib'[p] \in {m, lib[p]} /\ pc'[p] = "askinfo"
    BY <1>11 DEF ReadCounts, Learn, Continue, Goto
  <2> HIDE DEF m
  <2>3. QED BY <1>2, <2>1, <2>2
<1>12. ASSUME NEW ok \in BOOLEAN, ReadPoeInfo(p, ok) PROVE FirmWay(p)'
  <2>1. CASE UNCHANGED <<lib, err>> /\ Continue(p, "group")
    BY <1>2, <2>1 DEF Continue, Goto
  <2>2. CASE ~(ok /\ board.groups /\ poeinfo = Get) /\ Counted(p, lib[p], err[p] \/ ~ok)
    <3> DEFINE e == err[p] \/ ~ok
    <3>1. pc[p] = "info" /\ ~(lib[p].bound[Main] > 0)
      BY <1>3, <1>12 DEF ReadPoeInfo, Counting, Behind
    <3>2. ~e => ~board.groups
      BY <2>2, <3>1 DEF FirmWay, Asking
    <3>3. lib[p].poe \in BOOLEAN /\ board.groups \in BOOLEAN /\ (lib[p].poe => board.groups)
      BY <1>1 DEF Statics, AllBoards, Honest
    <3>4. e \in BOOLEAN /\ Counted(p, lib[p], e)
      BY <1>1, <2>2
    <3> HIDE DEF e
    <3>5. QED BY <1>1, <3>1, <3>2, <3>3, <3>4, FirmCounted
  <2>3. QED BY <1>12, <2>1, <2>2 DEF ReadPoeInfo
<1>13. ASSUME NEW ok \in BOOLEAN, SelectMain(p, ok) PROVE FirmWay(p)'
  <2> DEFINE m == [lib[p] EXCEPT !.poe = TRUE, !.cnt[Pcie] = board.pcie]
             l == IF ok THEN m ELSE lib[p]
             e == err[p] \/ ~ok
  <2>1. m \in Statics
    BY <1>1 DEF Statics, Pcie, Groups, AllBoards
  <2>2. m.bound = lib[p].bound /\ m.poe = TRUE
    BY <1>1 DEF Statics, Pcie, Groups
  <2>3. Counted(p, l, e) /\ e \in BOOLEAN /\ (~e => ok)
    BY <1>1, <1>13 DEF SelectMain
  <2>4. board.groups = TRUE /\ ~(lib[p].bound[Main] > 0)
    BY <1>1, <1>3, <1>13 DEF SelectMain, Counting, Behind, Honest, AllBoards
  <2> HIDE DEF m, e
  <2>5. l \in Statics /\ ~(l.bound[Main] > 0) /\ (~e => (l.poe <=> board.groups))
    BY <1>1, <2>1, <2>2, <2>3, <2>4
  <2> HIDE DEF l
  <2>6. QED BY <2>3, <2>5, FirmCounted
<1>14. QueryStep(p) => FirmWay(p)'
  <2>1. ASSUME NEW ok \in BOOLEAN, BoardId(p, ok) PROVE FirmWay(p)'
    BY <1>1, <1>2, <2>1 DEF BoardId, Learn, Statics, Return, Goto
  <2>2. ASSUME NEW ok \in BOOLEAN, Vers(p, ok) \/ VersMore(p, ok) PROVE FirmWay(p)'
    <3>1. op[p] \in {"GetFW", "GetBootLoad"}
      BY <1>1, <2>2 DEF Honest, Vers, VersMore
    <3>2. PICK v \in 0..2 : lib'[p] \in {lib[p], [lib[p] EXCEPT !.GetFW = v], [lib[p] EXCEPT !.GetBootLoad = v]}
      <4>1. board.vers \in 0..2 /\ 1 \in 0..2 /\ lib[p].GetFW \in 0..2 /\ lib[p].GetBootLoad \in 0..2
        BY <1>1 DEF AllBoards, Statics
      <4>2. CASE op[p] = "GetFW"
        BY <2>2, <4>1, <4>2 DEF Vers, VersMore, Learn
      <4>3. CASE op[p] = "GetBootLoad"
        BY <2>2, <4>1, <4>3 DEF Vers, VersMore, Learn
      <4>4. QED BY <3>1, <4>2, <4>3
    <3>3. lib'[p].bound = lib[p].bound /\ lib'[p].poe = lib[p].poe
      BY <1>1, <3>2 DEF Statics
    <3>4. pc'[p] # "info"
      BY <2>2 DEF Vers, VersMore, Return, Continue, Goto
    <3>5. QED BY <1>2, <3>3, <3>4
  <2>3. ASSUME NEW ok \in BOOLEAN, Temperature(p, ok) PROVE FirmWay(p)'
    BY <1>2, <2>3 DEF Temperature, Return, Goto
  <2>4. QED BY <2>1, <2>2, <2>3 DEF QueryStep
<1>15. QED
  BY <1>5, <1>6, <1>7, <1>8, <1>9, <1>10, <1>11, <1>12, <1>13, <1>14 DEF AskCounts, CountStep

LEMMA FirmMoves ==
    ASSUME PoeInv, NEW p, Moves(p), FirmWay(p) PROVE FirmWay(p)'
<1> USE DEF Moves
<1>1. PoeShaped(p) /\ PortShaped(p) /\ RegShaped /\ Sized(p) /\ CountsInv /\ OnPoe(p) /\ board' = board
      /\ lib[p] \in Statics /\ Cut(p)
  BY LibShapes DEF PoeInv, WayInv, LibInv, Mine, CountsInv, Types
<1>2. ASSUME lib'[p] \in {lib[p], Detected(lib[p])}, pc'[p] # "info" PROVE FirmWay(p)'
  BY <1>1, <1>2, DetectedKept DEF FirmWay, Asking, Firm, Known
<1>3. ASSUME NEW S, "info" \notin S, Calm(p, S) PROVE FirmWay(p)'
  BY <1>2, <1>3 DEF Calm, Ends, Goes
<1>4. CASE AskCounts(p)
  BY <1>1, <1>4, FirmCounts
<1>5. CASE PoeAct(p) /\ ~Begin(p)
  BY <1>1, <1>3, <1>5, PoeMoves DEF PoePlaces, PoeWrites
<1>6. CASE Begin(p)
  <2>1. pc'[p] # "info" /\ lib' = lib
    <3>1. PICK o : Enter(p, o, Entry(lib[p], o))
      BY <1>6, Zenon DEF Begin
    <3>2. Entry(lib[p], o) # "info"
      BY DEF Entry, CountEntry
    <3>3. QED BY <1>1, <3>1, <3>2 DEF Enter, Goto, PoeShaped, Shaped
  <2>2. QED BY <1>2, <2>1
<1>7. CASE Request(p)
  <2>1. pc'[p] \in {"idle", "args", "gain", "privilege", "efcoid"}
    BY <1>1, <1>7, RequestStarts
  <2>2. lib' = lib
    BY <1>7, Zenon DEF Request, Refuse, Enter
  <2>3. QED BY <1>2, <2>1, <2>2
<1>8. CASE (PortAct(p) \/ SensorAct(p)) /\ ~Request(p)
  BY <1>1, <1>3, <1>8, PortMoves DEF PortPlaces, PortWrites
<1>9. QED BY <1>4, <1>5, <1>6, <1>7, <1>8

SetsInv == NamedInv /\ (Alone => \A p \in Who[scene] : FirmWay(p) /\ SetKnown(p))

LEMMA SetsStep ==
    ASSUME NamedInv, NEW p, Moves(p), FirmWay(p), SetKnown(p) PROVE FirmWay(p)' /\ SetKnown(p)'
<1>1. /\ WayInv /\ PoeInv /\ p \in Procs /\ OnPoe(p) /\ Cut(p) /\ Early(p) /\ DOMAIN port = PoeGroups
      /\ CountsInv /\ board' = board
  BY DEF NamedInv, PoeInv, WayInv, LibInv, Moves, Mine
<1>2. PoeShaped(p)
  BY <1>1, LibShapes DEF WayInv, LibInv, Moves
<1>3. FirmWay(p)'
  BY <1>1, FirmMoves
<1>4. CASE PoeTurn(p) /\ op[p] = "SetPOEConfigs_1"
  BY <1>1, <1>2, <1>3, <1>4, SetTurns DEF SetKnown, FirmWay
<1>5. CASE PoeTurn(p) /\ op[p] # "SetPOEConfigs_1"
  <2>1. op'[p] # "SetPOEConfigs_1"
    BY <1>1, <1>2, <1>5, OnPoeTurns
  <2>2. QED BY <1>3, <2>1 DEF SetKnown, SetWorking, Done
<1>6. CASE ~PoeTurn(p)
  <2>1. PoeAside(p)
    BY <1>1, <1>6, PoeElsewhere
  <2>2. op'[p] = "SetPOEConfigs_1" => pc'[p] \notin SetPlaces /\ (pc'[p] = "idle" => ret'[p] # "true")
    BY <2>1, PoeOpsAre DEF PoeAside, PoeStarts, Counting, Behind, SetPlaces
  <2>3. QED BY <1>3, <2>2 DEF SetKnown, SetWorking, Done
<1>7. QED BY <1>4, <1>5, <1>6

LEMMA SetsInductive == SetsInv /\ [LibNext]_libVars => SetsInv'
<1> SUFFICES ASSUME SetsInv, [LibNext]_libVars PROVE SetsInv'
  OBVIOUS
<1>1. NamedInv' /\ NamedInv /\ LibInv /\ WayInv
  BY NamedInductive DEF SetsInv, NamedInv, PoeInv, WayInv
<1>2. CASE LibNext
  <2>1. PICK p \in Who[scene] : Moves(p)
    BY <1>1, <1>2, Mover
  <2>2. scene' = scene /\ p \in Procs
    BY <2>1 DEF Moves
  <2>3. SUFFICES ASSUME Alone PROVE FirmWay(p)' /\ SetKnown(p)'
    <3>1. Alone' <=> Alone
      BY <2>2 DEF Alone
    <3>2. Alone => Who[scene] = {p}
      BY <2>1 DEF Alone
    <3>3. QED BY <1>1, <2>2, <3>1, <3>2 DEF SetsInv
  <2>4. QED BY <1>1, <2>1, <2>3, SetsStep DEF SetsInv
<1>3. CASE UNCHANGED libVars
  <2>1. ASSUME NEW p, FirmWay(p), SetKnown(p) PROVE FirmWay(p)' /\ SetKnown(p)'
    <3>1. FirmWay(p)'
      BY <1>3, <2>1 DEF libVars, FirmWay, Asking, Firm, Known
    <3>2. SetWorking(p)'
      BY <1>3, <2>1 DEF libVars, SetKnown, SetWorking
    <3>3. Done(p, {"SetPOEConfigs_1"}, "true")' => SetSaid(p)'
      BY <1>3, <2>1 DEF libVars, SetKnown, SetSaid, Done, Fed, Ids
    <3>4. QED BY <3>1, <3>2, <3>3 DEF SetKnown
  <2>2. QED BY <1>1, <1>3, <2>1 DEF SetsInv, libVars, Alone
<1>4. QED BY <1>2, <1>3

LEMMA SetsInitial == LibInit => SetsInv
<1> SUFFICES ASSUME LibInit PROVE \A p \in Procs : FirmWay(p) /\ SetKnown(p)
  BY NamedInitial, CountsAssumption DEF SetsInv, NamedInv, PoeInv, WayInv, LibInv, CountsInv, Types
<1>1. \A p \in Procs : op[p] = "none" /\ pc[p] = "idle" /\ lib[p] = Unknown
  BY DEF LibInit, PoeInit, CountsInit
<1>2. ASSUME NEW p \in Procs PROVE ~Known(p)
  <2>1. lib[p].bound[Main] = 0
    BY <1>1 DEF Unknown, Main, Groups
  <2>2. QED BY <2>1 DEF Known
<1>3. QED BY <1>1, <1>2 DEF FirmWay, Asking, Firm, SetKnown, SetWorking, Done

\* A program alone with the AIC that is told by EkDMCiSMBSetPOEConfigs_1 (DMCI.c) that its
\* ports are set has them fed or not as its array says, the main group's switch among them,
\* whatever the firmware and however the ids mix the groups.
THEOREM LibListSet == LibSpec => []SetTruth
<1>1. SetsInv => SetTruth
  <2> SUFFICES ASSUME SetsInv, Alone, NEW p \in Procs, Done(p, {"SetPOEConfigs_1"}, "true") PROVE SetSaid(p)
    BY Zenon DEF SetTruth, SetSaid
  <2>1. p \in Who[scene]
    BY DEF SetsInv, NamedInv, PoeInv, WayInv, Done
  <2>2. QED BY <2>1 DEF SetsInv, SetKnown
<1>2. QED BY <1>1, SetsInductive, SetsInitial, PTL DEF LibSpec

\* A set call of the library that returned TRUE to a program alone with the AIC has been
\* obeyed: by the ports that are powered (SetPOEConfigs_1), by the ports, sockets and slots
\* that are switched, and by the fans.
THEOREM LibSetsObeyed == FanSetsFit => (LibSpec => []SetsObeyed)
<1>1. ASSUME FanSetsFit PROVE LibSpec => []SetsObeyed
  <2>1. LibSpec => []SetTruth
    BY LibListSet
  <2>2. LibSpec => []PortsObey
    BY LibPortsObeyed
  <2>3. LibSpec => []FansObey
    BY <1>1, LibFansObeyed
  <2>4. SetTruth /\ PortsObey /\ FansObey => SetsObeyed
    BY DEF SetsObeyed
  <2>5. QED BY <2>1, <2>2, <2>3, <2>4, PTL
<1>2. QED BY <1>1
-----------------------------------------------------------------------------
(* Cursors, and which ports there are.                                     *)

\* A step that moves, of the cursors of p, at most one of cs.
Turns1(p, cs) == cursor' = cursor \/ \E c \in cs : \E n : MoveCursor(p, c, n)
Located(p) == p \in DOMAIN cursor /\ DOMAIN cursor[p] = Cursors

LEMMA ModIn == ASSUME NEW a \in Nat, NEW b \in Nat, b > 0 PROVE a % b \in 0..b - 1
  OBVIOUS
LEMMA ModSmall == ASSUME NEW b \in Nat, b > 0, NEW a \in 0..b - 1 PROVE a % b = a
  OBVIOUS
LEMMA ModOver == ASSUME NEW b \in Nat, b > 0, NEW a \in 0..b - 1 PROVE (a + b) % b = a
  OBVIOUS

\* The least of some numbers.
LEMMA LeastOf == ASSUME NEW S \in SUBSET Nat, S # {} PROVE \E n \in S : \A m \in S : n <= m
<1> DEFINE R == OpToRel(<, Nat)
<1>1. IsWellFoundedOn(R, Nat)
  BY NatLessThanWellFounded
<1>2. \A x, y \in Nat : <<y, x>> \in R <=> y < x
  BY DEF OpToRel
<1> HIDE DEF R
<1>3. PICK n \in S : \A m \in S : ~(<<m, n>> \in R)
  BY <1>1, WFMin
<1>4. ASSUME NEW m \in S PROVE n <= m
  <2>1. m \in Nat /\ n \in Nat
    OBVIOUS
  <2>2. ~(<<m, n>> \in R)
    BY <1>3
  <2>3. ~(m < n)
    BY <1>2, <2>1, <2>2, Zenon
  <2>4. QED BY <2>1, <2>3
<1>5. QED BY <1>4

LEMMA ListsAre == ASSUME NEW ids \in Lists PROVE ids \in Seq(Nat) /\ Len(ids) > 0 /\ DOMAIN ids = 1..Len(ids)
<1>1. N \in Nat \ {0}
  BY CountsAssumption
<1>2. CASE \E a \in Nat : ids = <<a>>
  BY <1>2
<1>3. CASE \E a, b \in Nat : ids = <<a, b>>
  BY <1>3
<1>4. CASE ids = [i \in 1..N |-> i]
  BY <1>1, <1>4
<1>5. 2 * N + 1 \in Nat
  BY <1>1
<1>6. QED BY <1>2, <1>3, <1>4, <1>5 DEF Lists

LEMMA CursorPlaced ==
    ASSUME NEW p, Located(p), NEW cs \in SUBSET Cursors, Turns1(p, cs)
    PROVE  Located(p)' /\ \A d \in Cursors \ cs : cursor'[p][d] = cursor[p][d]
<1>1. ASSUME NEW c \in cs, NEW n, MoveCursor(p, c, n)
      PROVE  Located(p)' /\ \A d \in Cursors \ cs : cursor'[p][d] = cursor[p][d]
  <2> DEFINE m == [cursor[p] EXCEPT ![c] = n]
  <2>1. DOMAIN m = Cursors /\ \A d \in Cursors \ cs : m[d] = cursor[p][d]
    BY <1>1 DEF Located
  <2>2. p \in DOMAIN cursor' /\ cursor'[p] = m
    BY <1>1 DEF MoveCursor, Located
  <2> HIDE DEF m
  <2>3. QED BY <2>1, <2>2 DEF Located
<1>2. QED BY <1>1 DEF Turns1, Located

LEMMA CursorMoved ==
    ASSUME NEW p, Located(p), NEW c \in Cursors, NEW n, MoveCursor(p, c, n)
    PROVE  cursor'[p][c] = n
BY DEF MoveCursor, Located

\* Each kind of call has cursors of its own.
LEMMA CursorTurns ==
    ASSUME NEW p, PoeTurn(p), OnPoe(p)
    PROVE  /\ op[p] \in PoeInfos => Turns1(p, {"info", "info1"})
           /\ op[p] \in ConfigGets => Turns1(p, {"get1"})
           /\ op[p] \notin PoeInfos \cup ConfigGets => Turns1(p, {"set1", "stat", "stat1"})
<1> DEFINE Fine == /\ op[p] \in PoeInfos => Turns1(p, {"info", "info1"})
                   /\ op[p] \in ConfigGets => Turns1(p, {"get1"})
                   /\ op[p] \notin PoeInfos \cup ConfigGets => Turns1(p, {"set1", "stat", "stat1"})
<1>1. cursor' = cursor => Fine
  BY DEF Turns1
<1>2. \A c, n : MoveCursor(p, c, n) => \A cs : c \in cs => Turns1(p, cs)
  BY DEF Turns1
<1>3. \A cs : cursor' = cursor => Turns1(p, cs)
  BY DEF Turns1
<1>4. PoeInfos \cap ConfigGets = {}
  BY DEF PoeInfos, ConfigGets
<1>5. NoHardware(p) \/ Fin(p) => cursor' = cursor
  BY DEF NoHardware, Fin, Reject, KeepCall
<1>6. Infos(p) => Turns1(p, {"info", "info1"})
  <2>1. GetPOEInfos(p) => Turns1(p, {"info", "info1"})
    BY <1>2, <1>3 DEF GetPOEInfos, KeepCall
  <2>2. GetPOEInfo(p) => Turns1(p, {"info", "info1"})
    BY <1>2, <1>3 DEF GetPOEInfo, KeepCall
  <2>3. GetPOEInfos_1(p) => Turns1(p, {"info", "info1"})
    BY <1>2, <1>3 DEF GetPOEInfos_1, KeepCall
  <2>4. GetPOEInfo_1(p) => Turns1(p, {"info", "info1"})
    BY <1>2, <1>3 DEF GetPOEInfo_1, KeepCall
  <2>5. QED
    BY <2>1, <2>2, <2>3, <2>4 DEF Infos, GetPOEInfosNI, GetPOEInfoNI, GetPOEInfosNI_1, GetPOEInfoNI_1
<1>7. ASSUME NEW o, NEW c, NEW ids, NEW cur, NEW first, ListArgs(p, o, c, ids, cur, first) PROVE Turns1(p, {c})
  BY <1>2, <1>3, <1>7 DEF ListArgs, Reject
<1>8. ASSUME NEW o, NEW c, NEW first, Repeating(p, o, c, first) PROVE Turns1(p, {c})
  BY <1>7, <1>8 DEF Repeating
<1>9. GetTurn(p) => Turns1(p, {"get1"})
  <2>1. Configs(p) => Turns1(p, {"get1"})
    BY <1>2, <1>3, <1>8 DEF Configs, GetPOEConfig, GetPOEConfigNI, GetPOEConfigs_1, GetPOEConfigsNI_1, GetPOEConfig_1,
       GetPOEConfigNI_1, Reject, KeepCall
  <2>2. ASSUME NEW ok \in BOOLEAN, ReadCtrlGet(p, ok) \/ SelectCfg(p, ok) \/ ReadCfg(p, ok)
        PROVE  cursor' = cursor
    BY <2>2 DEF ReadCtrlGet, SelectCfg, ReadCfg, Onward, KeepCall
  <2>3. QED BY <1>3, <2>1, <2>2 DEF GetTurn
<1> DEFINE Rest == Turns1(p, {"set1", "stat", "stat1"})
<1>10. cursor' = cursor \/ Turns1(p, {"set1"}) \/ Turns1(p, {"stat"}) \/ Turns1(p, {"stat1"}) => Rest
  BY DEF Turns1
<1> HIDE DEF Rest
<1>11. ASSUME NEW ok \in BOOLEAN, GroupTurn(p, ok) PROVE cursor' = cursor
  BY <1>11 DEF GroupTurn, SelectSet, ReadSet, Detect, PowerOff, Off, Onward, KeepCall
<1>12. ListTurn(p) => Rest
  <2>1. SetPOEConfigs_1(p) => Rest
    BY <1>8, <1>10 DEF SetPOEConfigs_1
  <2>2. NextGroup(p) => cursor' = cursor
    BY DEF NextGroup, KeepCall
  <2>3. ASSUME NEW ok \in BOOLEAN, ReadCtrlSet(p, ok) \/ CloseSwitch(p, ok) PROVE cursor' = cursor
    BY <2>3 DEF ReadCtrlSet, CloseSwitch, KeepCall
  <2>4. QED BY <1>10, <1>11, <2>1, <2>2, <2>3 DEF ListTurn
<1>13. SingleTurn(p) => Rest
  <2>1. SetPOEConfig_1(p) => Turns1(p, {"set1"})
    BY <1>2, <1>3 DEF SetPOEConfig_1, KeepCall
  <2>2. ASSUME NEW ok \in BOOLEAN, ReadCtrlSetOne(p, ok) \/ CloseSwitch(p, ok) PROVE cursor' = cursor
    BY <2>2 DEF ReadCtrlSetOne, CloseSwitch, KeepCall
  <2>3. QED BY <1>10, <1>11, <2>1, <2>2 DEF SingleTurn
<1>14. AllTurn(p) => cursor' = cursor
  BY DEF AllTurn, SetPOEConfig, AllRead, AllWrite, AllPorts, Onward, KeepCall
<1>15. StatTurn(p) => Rest
  <2>1. GetPOEStats(p) \/ GetPOEStat(p) => Turns1(p, {"stat"})
    BY <1>2, <1>3 DEF GetPOEStats, GetPOEStat, Reject
  <2>2. GetPOEStats_1(p) => Turns1(p, {"stat1"})
    BY <1>3, <1>7 DEF GetPOEStats_1, KeepCall
  <2>3. GetPOEStat_1(p) => Turns1(p, {"stat1"})
    BY <1>2, <1>3 DEF GetPOEStat_1, Reject
  <2>4. GetPOEStatsNI_1(p) => Turns1(p, {"stat1"})
    BY <1>8 DEF GetPOEStatsNI_1
  <2>5. ASSUME NEW ok \in BOOLEAN, SelectStat(p, ok) \/ ReadStat(p, ok) PROVE cursor' = cursor
    BY <2>5 DEF SelectStat, ReadStat, KeepCall
  <2>6. QED BY <1>10, <2>1, <2>2, <2>3, <2>4, <2>5 DEF StatTurn, Stats, GetPOEStatsNI, GetPOEStatNI, GetPOEStatNI_1
<1>16. BuzTurn(p) => cursor' = cursor
  BY DEF BuzTurn, Buzzer, GetBuzConfig, GetBuzConfigNI, SetBuzConfig, SetBuzConfigNI, ReadBuz, WriteBuz, KeepCall
<1>17. /\ GetTurn(p) => op[p] \in ConfigGets
       /\ ListTurn(p) \/ SingleTurn(p) \/ StatTurn(p) => op[p] \notin PoeInfos \cup ConfigGets
  BY DEF GetTurn, ListTurn, SingleTurn, StatTurn, PoeInfos, ConfigGets, StatGets
<1> HIDE DEF Fine
<1>18. Infos(p) /\ op[p] \in PoeInfos => Fine
  BY <1>4, <1>6 DEF Fine
<1>19. GetTurn(p) => Fine
  BY <1>4, <1>9, <1>17 DEF Fine
<1>20. ListTurn(p) \/ SingleTurn(p) \/ StatTurn(p) => Fine
  BY <1>12, <1>13, <1>15, <1>17 DEF Fine, Rest
<1>21. Fine
  BY <1>1, <1>5, <1>14, <1>16, <1>18, <1>19, <1>20, PoeTurns
<1>22. QED BY <1>21 DEF Fine

\* A port is there for the program that knows when the board has it.
LEMMA Spread ==
    ASSUME CountsInv, NEW p \in Procs, Cut(p), Firm(p), Known(p), NEW id \in Nat
    PROVE  /\ Exists([lib[p] EXCEPT !.poe = TRUE], id) <=> OnBoard(id)
           /\ Given1(lib[p], id) => OnBoard(id)
           /\ Exists(lib[p], id) => OnBoard(id)
<1> DEFINE l == lib[p]  m == [l EXCEPT !.poe = TRUE]
<1>1. /\ Layout(l) /\ l.bound[0] = N /\ l \in Statics /\ N \in Nat \ {0} /\ board \in AllBoards
      /\ l.cnt[0] = board.main /\ (l.poe => l.cnt[3] = board.pcie) /\ (l.poe <=> board.groups)
  BY CutLayout, CountsAssumption DEF CountsInv, Types, Honest, Right, Firm, Main, Pcie
<1>2. m.poe = TRUE /\ m.cnt = l.cnt /\ m.bound = l.bound
  BY <1>1 DEF Statics
<1>3. /\ \A g \in 0..3 : l.cnt[g] \in {0, N} /\ l.bound[g] \in Nat
      /\ l.cnt[1] = 0 /\ l.cnt[2] = 0 /\ (~l.poe => l.cnt[3] = 0) /\ l.bound[1] \in {N, 2 * N}
      /\ IF l.poe THEN l.bound[2] = 2 * N /\ l.bound[3] = 6 * N
         ELSE l.bound[1] = N /\ l.bound[2] = N /\ l.bound[3] = N
  BY <1>1 DEF Layout, Statics, Groups, Pcie
<1>4. OnBoard(id) <=> id \in 1..l.cnt[0] \/ (l.poe /\ id \in 2 * N + 1..2 * N + l.cnt[3])
  BY <1>1, <1>3 DEF OnBoard, AllBoards
<1>5. Exists(m, id) <=> id \in 1..l.cnt[0] \/ id \in l.bound[2] + 1..l.bound[2] + l.cnt[3]
  BY <1>2 DEF Exists, Main, Pcie
<1>6. Exists(l, id) <=> id \in 1..l.cnt[0] \/ (l.poe /\ id \in l.bound[2] + 1..l.bound[2] + l.cnt[3])
  BY DEF Exists, Main, Pcie
<1>7. Given1(l, id) => id \in 1..l.cnt[0]
  <2>1. GroupOf(l, id) = IF id <= l.bound[0] THEN 0 ELSE IF id <= l.bound[1] THEN 1 ELSE IF id <= l.bound[2] THEN 2 ELSE 3
    BY DEF GroupOf
  <2>2. Given1(l, id) => id > 0 /\ id <= l.cnt[GroupOf(l, id)]
    BY <1>3 DEF Given1, Pcie
  <2> HIDE DEF l
  <2>3. QED BY <1>1, <1>3, <2>1, <2>2
<1> HIDE DEF l, m
<1>8. Exists(m, id) <=> OnBoard(id)
  BY <1>1, <1>3, <1>4, <1>5
<1>9. QED BY <1>1, <1>3, <1>4, <1>6, <1>7, <1>8 DEF l, m
-----------------------------------------------------------------------------
(* Which ports there are, as the infos tell it.                            *)

InfoOps == {"GetPOEInfos_1", "GetPOEInfo_1"}
InfoSaid(p) == Known(p) => \A i \in Ids(p) : call[p].val[i] <=> OnBoard(call[p].ids[i])
InfoKnown(p) == Located(p) /\ cursor[p].info1 \in Nat /\ (Done(p, InfoOps, "true") => InfoSaid(p))

\* A call for infos learns no bound.
LEMMA InfoLearns ==
    ASSUME CountsInv, NEW p \in Procs, NEW o, Informed(p, o)
    PROVE  board' = board /\ (Known(p)' <=> Known(p)) /\ lib[p].bound[Pcie] \in Nat /\ lib[p] \in Statics
<1>1. lib[p] \in Statics /\ DOMAIN lib = Procs
  BY DEF CountsInv, Types
<1>2. lib'[p].bound = lib[p].bound
  BY <1>1, DetectedKept DEF Informed, At, Learn
<1>3. lib[p].bound[Pcie] \in Nat
  BY <1>1, CountsAssumption DEF Statics, Groups, Pcie
<1>4. QED BY <1>1, <1>2, <1>3 DEF Known, Informed, At

\* Handing out the next ids, the ones of no port too.
LEMMA InfosHanded ==
    ASSUME CountsInv, NEW p \in Procs, PoeShaped(p), Cut(p), Firm(p), Located(p), cursor[p].info1 \in Nat,
           call[p].ids \in Lists, GetPOEInfos_1(p)
    PROVE  cursor'[p].info1 \in Nat /\ (ret'[p] = "true" => InfoSaid(p)')
<1> USE DEF PoeShaped, Shaped
<1> DEFINE l == lib[p]  b == l.bound[Pcie]  c == cursor[p].info1  old == call[p].ids
           given == \E i \in DOMAIN old : Given1(l, old[i])
           handed == [i \in 1..(IF b = 0 THEN 0 ELSE Len(old)) |-> 1 + ((c + i - 1) % b)]
           ids == IF given THEN old ELSE handed
           m == [l EXCEPT !.poe = TRUE]
           val == [i \in DOMAIN ids |-> Exists(m, ids[i])]
           new == IF given \/ ids = <<>> THEN c ELSE (c + Len(ids)) % b
           d == [call[p] EXCEPT !.ids = ids, !.val = val]
<1>1. board' = board /\ (Known(p)' <=> Known(p)) /\ b \in Nat
  BY InfoLearns DEF GetPOEInfos_1
<1>2. \/ Return(p, FALSE) /\ KeepCall
      \/ Return(p, TRUE) /\ InCall(p, d) /\ MoveCursor(p, "info1", new)
  BY DEF GetPOEInfos_1
<1>3. old \in Seq(Nat) /\ Len(old) \in Nat /\ Len(old) > 0 /\ DOMAIN old = 1..Len(old) /\ c \in Nat
  BY ListsAre
<1>4. d.ids = ids /\ d.val = val
  BY DEF NoCall
<1> HIDE DEF b, c, old, given
<1>5. handed = <<>> \/ (b > 0 /\ Len(handed) = Len(old))
  BY <1>1, <1>3
<1>6. ASSUME NEW i \in DOMAIN handed PROVE handed[i] \in Nat
  <2>1. b > 0 /\ i \in Nat /\ i > 0 /\ c + i - 1 \in Nat
    BY <1>1, <1>3
  <2>2. (c + i - 1) % b \in 0..b - 1
    BY <1>1, <2>1, ModIn
  <2>3. QED BY <1>1, <2>2
<1> HIDE DEF handed
<1>7. \A i \in DOMAIN ids : ids[i] \in Nat
  BY <1>3, <1>6
<1>8. new \in Nat
  <2> DEFINE n == c + Len(handed)
  <2>1. handed # <<>> => b > 0 /\ n \in Nat
    BY <1>3, <1>5
  <2>2. handed # <<>> => new = c \/ new = n % b
    OBVIOUS
  <2> HIDE DEF n
  <2>3. handed # <<>> => n % b \in 0..b - 1
    BY <1>1, <2>1, ModIn
  <2>4. handed = <<>> => new = c
    OBVIOUS
  <2>5. QED BY <1>1, <1>3, <2>2, <2>3, <2>4
<1> HIDE DEF ids, new, d
<1>9. CASE Return(p, FALSE) /\ KeepCall
  BY <1>3, <1>9 DEF Return, KeepCall, c
<1>10. CASE Return(p, TRUE) /\ InCall(p, d) /\ MoveCursor(p, "info1", new)
  <2>1. cursor'[p].info1 = new
    <3>1. cursor'[p]["info1"] = new
      BY <1>10, CursorMoved DEF Cursors
    <3>2. QED BY <3>1
  <2>2. call'[p].ids = ids /\ call'[p].val = val
    BY <1>4, <1>10 DEF InCall
  <2>3. ASSUME Known(p), NEW i \in DOMAIN ids PROVE val[i] <=> OnBoard(ids[i])
    <3> DEFINE x == Exists(m, ids[i])
    <3>1. x <=> OnBoard(ids[i])
      BY <1>7, <2>3, Spread
    <3>2. val[i] = x
      OBVIOUS
    <3> HIDE DEF x, val
    <3>3. QED BY <3>1, <3>2
  <2>4. \A y : OnBoard(y)' <=> OnBoard(y)
    BY <1>1 DEF OnBoard
  <2> HIDE DEF val
  <2>5. InfoSaid(p)'
    BY <1>1, <2>2, <2>3, <2>4 DEF InfoSaid, Ids
  <2>6. QED BY <1>8, <2>1, <2>5
<1>11. QED BY <1>2, <1>9, <1>10

\* Looking for the next port, or at the one asked for.
LEMMA InfoFound ==
    ASSUME CountsInv, NEW p \in Procs, PoeShaped(p), Cut(p), Firm(p), Located(p), cursor[p].info1 \in Nat,
           call[p].ids \in Lists, GetPOEInfo_1(p)
    PROVE  cursor'[p].info1 \in Nat /\ (pc'[p] = "idle" /\ ret'[p] = "true" => InfoSaid(p)')
<1> USE DEF PoeShaped, Shaped
<1> DEFINE l == lib[p]  b == l.bound[Pcie]  c == cursor[p].info1  id == call[p].ids[1]
           ks == IF b = 0 THEN {} ELSE {k \in 0..6 * N : Given1(l, Round(l, c, k))}
           k0 == CHOOSE k \in ks : \A j \in ks : k <= j
           new == Round(l, c, k0)
           m == [l EXCEPT !.poe = TRUE]
           ids == <<IF id = 0 THEN new ELSE id>>
           val == <<id = 0 \/ Exists(m, id)>>
           cur == IF id = 0 THEN new % b ELSE c
           d == [call[p] EXCEPT !.ids = ids, !.val = val]
<1>1. board' = board /\ (Known(p)' <=> Known(p)) /\ b \in Nat /\ Total(l) \in Nat /\ N \in Nat
  <2>1. board' = board /\ (Known(p)' <=> Known(p)) /\ b \in Nat /\ l \in Statics
    BY InfoLearns DEF GetPOEInfo_1
  <2>2. QED BY <2>1, CountsAssumption DEF Total, Statics, Groups, Main, Pcie
<1>2. \/ Return(p, FALSE) /\ KeepCall
      \/ (Continue(p, "dead") \/ Continue(p, "hung")) /\ KeepCall
      \/ /\ ~(id = 0 /\ ks = {})
         /\ Return(p, TRUE) /\ InCall(p, d) /\ MoveCursor(p, "info1", cur)
  <2>1. CASE Total(l) = 0
    BY <2>1 DEF GetPOEInfo_1
  <2>2. CASE Total(l) > 0 /\ id = 0 /\ ks = {}
    BY <1>1, <2>2 DEF GetPOEInfo_1
  <2>3. CASE ~(Total(l) = 0) /\ ~(Total(l) > 0 /\ id = 0 /\ ks = {})
    <3>1. Return(p, TRUE) /\ InCall(p, d) /\ MoveCursor(p, "info1", cur)
      BY <2>3 DEF GetPOEInfo_1
    <3>2. ~(id = 0 /\ ks = {})
      BY <1>1, <2>3
    <3>3. QED BY <3>1, <3>2
  <2>4. QED BY <2>1, <2>2, <2>3
<1>3. id \in Nat /\ c \in Nat
  BY ListsAre
<1>4. d.ids = ids /\ d.val = val
  BY DEF NoCall
<1>5. ASSUME ks # {} PROVE new \in Nat /\ b > 0 /\ Given1(l, new)
  <2>1. \E k \in ks : \A j \in ks : k <= j
    <3>1. ks \in SUBSET Nat
      BY <1>1
    <3> HIDE DEF ks
    <3>2. QED BY <1>5, <3>1, LeastOf
  <2>2. k0 \in ks
    <3> HIDE DEF ks
    <3>1. QED BY <2>1
  <2> HIDE DEF k0
  <2>3. b > 0 /\ k0 \in Nat /\ Given1(l, new)
    BY <1>1, <2>2
  <2>4. (c + k0) % b \in 0..b - 1
    BY <1>1, <1>3, <2>3, ModIn
  <2>5. QED BY <1>1, <2>3, <2>4 DEF Round
<1> HIDE DEF ks, new, d, id, c
<1>6. CASE Return(p, FALSE) /\ KeepCall
  BY <1>3, <1>6 DEF Return, KeepCall, c
<1>7. CASE (Continue(p, "dead") \/ Continue(p, "hung")) /\ KeepCall
  BY <1>3, <1>7 DEF Continue, Goto, KeepCall, c
<1>8. CASE ~(id = 0 /\ ks = {}) /\ Return(p, TRUE) /\ InCall(p, d) /\ MoveCursor(p, "info1", cur)
  <2>1. cur \in Nat
    <3>1. CASE id = 0
      <4>1. new % b \in 0..b - 1
        BY <1>1, <1>5, <1>8, <3>1, ModIn
      <4>2. QED BY <1>1, <3>1, <4>1
    <3>2. QED BY <1>3, <3>1
  <2> HIDE DEF cur
  <2>2. cursor'[p].info1 = cur
    <3>1. cursor'[p]["info1"] = cur
      BY <1>8, CursorMoved DEF Cursors
    <3>2. QED BY <3>1
  <2>3. call'[p].ids = ids /\ call'[p].val = val
    BY <1>4, <1>8 DEF InCall
  <2>4. DOMAIN ids = {1} /\ ids[1] = IF id = 0 THEN new ELSE id
    OBVIOUS
  <2>5. ASSUME Known(p) PROVE val[1] <=> OnBoard(ids[1])
    <3>1. CASE id = 0
      <4>1. OnBoard(new)
        BY <1>5, <1>8, <2>5, <3>1, Spread
      <4>2. QED BY <2>4, <3>1, <4>1
    <3>2. CASE id # 0
      <4> DEFINE x == Exists(m, id)
      <4>1. x <=> OnBoard(id)
        BY <1>3, <2>5, Spread
      <4>2. val[1] = x
        BY <3>2 DEF Exists
      <4> HIDE DEF x, val
      <4>3. QED BY <2>4, <3>2, <4>1, <4>2
    <3>3. QED BY <3>1, <3>2
  <2>6. \A y : OnBoard(y)' <=> OnBoard(y)
    BY <1>1 DEF OnBoard
  <2> HIDE DEF val, ids
  <2>7. InfoSaid(p)'
    BY <1>1, <2>3, <2>4, <2>5, <2>6 DEF InfoSaid, Ids
  <2>8. QED BY <2>1, <2>2, <2>7
<1>9. QED BY <1>2, <1>6, <1>7, <1>8

LEMMA InfosStep ==
    ASSUME PoeInv, NEW p, Moves(p), Firm(p), InfoKnown(p) PROVE InfoKnown(p)'
<1>1. /\ WayInv /\ p \in Procs /\ OnPoe(p) /\ Cut(p) /\ Early(p) /\ CountsInv /\ PoeShaped(p)
      /\ Located(p) /\ cursor[p].info1 \in Nat
  BY LibShapes DEF PoeInv, WayInv, LibInv, Moves, InfoKnown
<1>2. InfoOps \subseteq PoeInfos /\ PoeInfos \subseteq PoeOps /\ PoeInfos \cap PoeCounts = {}
  BY PoeOpsAre DEF InfoOps, PoeInfos, PoeCounts
<1>3. ASSUME NEW cs \in SUBSET Cursors, "info1" \notin cs, Turns1(p, cs), op'[p] \notin InfoOps \/ ~(pc'[p] = "idle" /\ ret'[p] = "true")
      PROVE  InfoKnown(p)'
  <2>1. Located(p)' /\ cursor'[p]["info1"] = cursor[p]["info1"]
    BY <1>1, <1>3, CursorPlaced DEF Cursors
  <2>2. ~Done(p, InfoOps, "true")'
    BY <1>3 DEF Done
  <2>3. QED BY <1>1, <2>1, <2>2 DEF InfoKnown
<1>4. CASE ~PoeTurn(p)
  <2>1. PoeAside(p)
    BY <1>1, <1>4, PoeElsewhere
  <2>2. Turns1(p, {})
    BY <2>1 DEF PoeAside, Turns1
  <2>3. op'[p] \notin InfoOps \/ ~(pc'[p] = "idle" /\ ret'[p] = "true")
    BY <1>2, <2>1 DEF PoeAside
  <2>4. QED BY <1>3, <2>2, <2>3
<1>5. CASE PoeTurn(p) /\ op[p] \notin PoeInfos
  <2>1. op'[p] \notin InfoOps
    BY <1>1, <1>2, <1>5, OnPoeTurns
  <2>2. Turns1(p, {"get1"}) \/ Turns1(p, {"set1", "stat", "stat1"})
    BY <1>1, <1>5, CursorTurns
  <2>3. {"get1"} \in SUBSET Cursors /\ {"set1", "stat", "stat1"} \in SUBSET Cursors
        /\ "info1" \notin {"get1"} /\ "info1" \notin {"set1", "stat", "stat1"}
    BY DEF Cursors
  <2>4. QED BY <1>3, <2>1, <2>2, <2>3
<1>6. CASE PoeTurn(p) /\ op[p] \in PoeInfos
  <2>1. Infos(p) /\ op'[p] = op[p]
    <3>1. ~NoHardware(p) /\ ~Fin(p)
      BY <1>1, <1>2, <1>6 DEF NoHardware, Fin, OnPoe, PoeStarts, Counting, Behind
    <3>2. op[p] \notin ConfigGets \cup StatGets \cup PoeVerifies \cup {"SetPOEConfigs_1", "SetPOEConfig_1", "SetPOEConfig"}
      BY <1>6 DEF PoeInfos, ConfigGets, StatGets, PoeVerifies
    <3>3. Infos(p)
      BY <1>1, <1>6, <3>1, <3>2, PoeTurns DEF GetTurn, ListTurn, SingleTurn, AllTurn, StatTurn, BuzTurn
    <3>4. QED BY <1>1, <1>6, <3>3, OnPoeTurns
  <2>2. pc[p] = "args" /\ call[p].ids \in Lists
    <3>1. pc[p] = "args"
      BY <2>1 DEF Infos, GetPOEInfos, GetPOEInfosNI, GetPOEInfo, GetPOEInfoNI, GetPOEInfos_1,
         GetPOEInfosNI_1, GetPOEInfo_1, GetPOEInfoNI_1, Informed, At
    <3>2. QED BY <1>1, <1>2, <1>6, <3>1 DEF Early, PoeStarts
  <2>3. Located(p)'
    <3>1. {"info", "info1"} \in SUBSET Cursors
      BY DEF Cursors
    <3>2. QED BY <1>1, <1>6, <3>1, CursorTurns, CursorPlaced
  <2>4. CASE GetPOEInfos(p) \/ GetPOEInfo(p)
    <3>1. op[p] \notin InfoOps
      BY <2>4 DEF GetPOEInfos, GetPOEInfo, Informed, At, InfoOps
    <3>2. Turns1(p, {"info"})
      BY <2>4 DEF GetPOEInfos, GetPOEInfo, KeepCall, Turns1
    <3>3. {"info"} \in SUBSET Cursors /\ "info1" \notin {"info"}
      BY DEF Cursors
    <3>4. QED BY <1>3, <2>1, <3>1, <3>2, <3>3
  <2>5. CASE GetPOEInfos_1(p)
    BY <1>1, <2>2, <2>3, <2>5, InfosHanded DEF InfoKnown, Done
  <2>6. CASE GetPOEInfo_1(p)
    BY <1>1, <2>2, <2>3, <2>6, InfoFound DEF InfoKnown, Done
  <2>7. QED
    BY <2>1, <2>4, <2>5, <2>6 DEF Infos, GetPOEInfosNI, GetPOEInfoNI, GetPOEInfosNI_1, GetPOEInfoNI_1
<1>7. QED BY <1>4, <1>5, <1>6

InfosInv == PoeInv /\ (Alone => \A p \in Who[scene] : InfoKnown(p))

LEMMA InfosInductive == InfosInv /\ [LibNext]_libVars => InfosInv'
<1> SUFFICES ASSUME InfosInv, [LibNext]_libVars PROVE InfosInv'
  OBVIOUS
<1>1. PoeInv /\ PoeInv'
  BY PoeInductive DEF InfosInv
<1>2. CASE LibNext
  <2>1. PICK p \in Who[scene] : Moves(p)
    BY <1>1, <1>2, Mover DEF PoeInv, WayInv
  <2>2. scene' = scene /\ p \in Procs
    BY <2>1 DEF Moves
  <2>3. ASSUME Alone PROVE Who[scene] = {p} /\ InfoKnown(p)'
    <3>1. Who[scene] = {p}
      BY <2>1, <2>3 DEF Alone
    <3>2. Firm(p)
      BY <1>1, <2>2, <3>1 DEF Firm, PoeInv, WayInv, LibInv, CountsInv, Sole
    <3>3. QED BY <1>1, <2>1, <2>3, <3>1, <3>2, InfosStep DEF InfosInv
  <2>4. Alone' <=> Alone
    BY <2>2 DEF Alone
  <2>5. QED BY <1>1, <2>2, <2>3, <2>4 DEF InfosInv
<1>3. CASE UNCHANGED libVars
  <2>1. ASSUME NEW p, InfoKnown(p) PROVE InfoKnown(p)'
    <3>1. InfoSaid(p) => InfoSaid(p)'
      BY <1>3 DEF libVars, InfoSaid, Known, Ids, OnBoard
    <3>2. Done(p, InfoOps, "true")' => Done(p, InfoOps, "true")
      BY <1>3 DEF libVars, Done
    <3>3. QED BY <1>3, <2>1, <3>1, <3>2 DEF libVars, InfoKnown, Located
  <2>2. QED BY <1>1, <1>3, <2>1 DEF InfosInv, libVars, Alone
<1>4. QED BY <1>2, <1>3

LEMMA InfosInitial == LibInit => InfosInv
<1> SUFFICES ASSUME LibInit PROVE \A p \in Who[scene] : InfoKnown(p)
  BY PoeInitial DEF InfosInv
<1>1. Who[scene] \in SUBSET Procs
  BY PoeInitial, CountsAssumption DEF PoeInv, WayInv, LibInv, CountsInv, Types
<1>2. ASSUME NEW p \in Who[scene] PROVE InfoKnown(p)
  <2>1. op[p] = "none" /\ cursor[p] = [c \in Cursors |-> 0] /\ p \in DOMAIN cursor
    BY <1>1, <1>2 DEF LibInit, PoeInit, CountsInit
  <2>2. cursor[p]["info1"] = 0
    BY <2>1 DEF Cursors
  <2>3. QED BY <2>1, <2>2 DEF InfoKnown, Located, Done, InfoOps
<1>3. QED BY <1>2

\* EkDMCiSMBGetPOEInfos_1 and GetPOEInfo_1 (DMCI.c) tell a program that is alone with the AIC
\* and has counted that a port is there exactly when the board has it, for the ids it asks
\* for and for those it is handed in turn, whatever failed before.
THEOREM LibInfosTold == LibSpec => []InfoTruth
<1>1. InfosInv => InfoTruth
  <2> SUFFICES ASSUME InfosInv, Alone, NEW p \in Procs, Done(p, InfoOps, "true") PROVE InfoSaid(p)
    BY Zenon DEF InfoTruth, InfoSaid, InfoOps
  <2>1. p \in Who[scene]
    BY DEF InfosInv, PoeInv, WayInv, Done, InfoOps
  <2>2. QED BY <2>1 DEF InfosInv, InfoKnown
<1>2. QED BY <1>1, InfosInductive, InfosInitial, PTL DEF LibSpec
-----------------------------------------------------------------------------
(* What is drawn from ports, as the stats tell it.                         *)

StatOps == {"GetPOEStats_1", "GetPOEStatsNI_1", "GetPOEStat_1"}
StatPlaces == {"psel", "pget", "fin"}
StatSaid(l, id) == IF GroupOf(l, id) = Pcie THEN "pcie" ELSE "main"

\* Where a call for stats is: a group is being asked for, and POEINFO is that
\* group's; and every port of a group no longer left has that group's answer.
StatList(l, c, at, e, inf) ==
    /\ c.left \subseteq 0..3 /\ c.left \subseteq GroupsOf(l, c.ids)
    /\ Len(c.ids) = 1 => DOMAIN c.ids = {1}
    /\ Bad(l, c.ids) => Len(c.ids) = 1
    /\ at = "pget" => c.left # {} /\ inf = First(c.left)
    /\ at = "fin" /\ ~e => c.left = {}
    /\ ~e => \A i \in DOMAIN c.ids : GroupOf(l, c.ids[i]) \notin c.left => c.val[i] = StatSaid(l, c.ids[i])
StatWorking(p) == op[p] \in StatOps /\ Known(p) /\ board.groups /\ pc[p] \in StatPlaces =>
                      StatList(lib[p], call[p], pc[p], err[p], poeinfo)
StatsSaid(p) == Known(p) /\ board.groups =>
                    \A i \in Ids(p) : call[p].val[i] = StatSaid(lib[p], call[p].ids[i])
StatKnown(p) == StatWorking(p) /\ (Done(p, StatOps, "true") => StatsSaid(p))

LEMMA StatSame ==
    ASSUME NEW l, NEW m, m.bound = l.bound, m.cnt = l.cnt, m.poe = l.poe
    PROVE  \A c, at, e, inf : StatList(l, c, at, e, inf) => StatList(m, c, at, e, inf)
<1>1. /\ \A id : GroupOf(m, id) = GroupOf(l, id)
      /\ \A ids : (Bad(m, ids) <=> Bad(l, ids)) /\ GroupsOf(m, ids) = GroupsOf(l, ids)
  BY SameCounts
<1>2. \A id : StatSaid(m, id) = StatSaid(l, id)
  BY <1>1 DEF StatSaid
<1>3. QED BY <1>1, <1>2 DEF StatList

\* An array of length one has one entry.
LEMMA LenOne ==
    ASSUME NEW n \in Nat, NEW f, f = [i \in 1..n |-> f[i]], Len(f) = 1 PROVE DOMAIN f = {1}
<1>1. Len(f) = n
  OBVIOUS
<1>2. n = 1
  BY <1>1
<1>3. QED BY <1>2

LEMMA FillShapes ==
    ASSUME NEW l \in Statics, NEW ids \in Lists, NEW c, NEW f, f \in {Fill(l, ids, c), FillOn(l, ids, c)}
    PROVE  Len(f) = 1 => DOMAIN f = {1}
<1> DEFINE room == IF l.poe THEN Total(l) ELSE l.cnt[Main]
           n == IF room < Len(ids) THEN room ELSE Len(ids)
<1>1. n \in Nat /\ Filled(l, ids) = 1..n
  <2>1. room \in Nat
    BY CountsAssumption DEF Total, Statics, Groups, Main, Pcie
  <2>2. Len(ids) \in Nat
    BY ListsAre
  <2>3. Filled(l, ids) = 1..n
    BY DEF Filled
  <2> HIDE DEF room
  <2>4. QED BY <2>1, <2>2, <2>3
<1> HIDE DEF n
<1>2. f = [i \in Filled(l, ids) |-> f[i]]
  <2>1. Fill(l, ids, c) = [i \in Filled(l, ids) |-> Fill(l, ids, c)[i]]
    BY DEF Fill
  <2>2. FillOn(l, ids, c) = [i \in Filled(l, ids) |-> FillOn(l, ids, c)[i]]
    BY DEF FillOn
  <2>3. QED BY <2>1, <2>2
<1>3. QED BY <1>1, <1>2, LenOne

\* A list is begun: all its groups are left.
LEMMA StatBegun ==
    ASSUME NEW p, PoeShaped(p), NEW o, NEW cur, NEW ids, Len(ids) = 1 => DOMAIN ids = {1},
           ListArgs(p, o, "stat1", ids, cur, "psel"), pc'[p] # "idle"
    PROVE  StatList(lib[p], call'[p], pc'[p], err'[p], poeinfo')
<1> USE DEF PoeShaped, Shaped
<1> DEFINE l == lib[p]  gs == GroupsOf(l, ids)
<1>1. ~Return(p, FALSE) /\ ~Reject(p)
  BY DEF Reject, Return, Goto
<1>2. ~Bad(l, ids) /\ Work(p, ids, gs) /\ SetErr(p, FALSE) /\ Continue(p, "psel")
  BY <1>1 DEF ListArgs
<1>3. call'[p].ids = ids /\ call'[p].left = gs /\ err'[p] = FALSE /\ pc'[p] = "psel"
  BY <1>2 DEF Work, InCall, NoCall, SetErr, Continue, Goto
<1>4. gs \subseteq 0..3 /\ \A i \in DOMAIN ids : GroupOf(l, ids[i]) \in gs
  BY DEF GroupsOf, GroupOf
<1> HIDE DEF l
<1>5. QED BY <1>2, <1>3, <1>4 DEF StatList, l

LEMMA StatStarted ==
    ASSUME CountsInv, NEW p \in Procs, PoeShaped(p), call[p].ids \in Lists,
           GetPOEStats_1(p) \/ GetPOEStatsNI_1(p) \/ GetPOEStat_1(p), pc'[p] \notin {"idle", "dead"}
    PROVE  StatList(lib[p], call'[p], pc'[p], err'[p], poeinfo')
<1> USE DEF PoeShaped, Shaped
<1> DEFINE l == lib[p]  c == call[p]
<1>1. l \in Statics
  BY DEF CountsInv, Types
<1>2. Len(c.ids) = 1 => DOMAIN c.ids = {1}
  BY ListsAre
<1>3. CASE GetPOEStats_1(p)
  <2>1. PICK ids, cur : /\ ids \in {c.ids, FillOn(l, c.ids, cursor[p].stat1)}
                        /\ ListArgs(p, "GetPOEStats_1", "stat1", ids, cur, "psel")
    <3> DEFINE from == cursor[p].stat1  on == FillOn(l, c.ids, from)
               x == ListArgs(p, "GetPOEStats_1", "stat1", c.ids, from, "psel")
               y == ListArgs(p, "GetPOEStats_1", "stat1", on, on[Len(on)] % l.bound[Pcie], "psel")
    <3>1. ~Continue(p, "dead")
      BY DEF Continue, Goto
    <3>2. x \/ y
      BY <1>3, <3>1, Zenon DEF GetPOEStats_1
    <3>3. QED BY <3>2
  <2>2. Len(ids) = 1 => DOMAIN ids = {1}
    BY <1>1, <1>2, <2>1, FillShapes
  <2>3. QED BY <2>1, <2>2, StatBegun
<1>4. CASE GetPOEStatsNI_1(p)
  <2>1. PICK ids, cur : /\ ids \in {c.ids, Fill(l, c.ids, cursor[p]["stat1"])}
                        /\ ListArgs(p, "GetPOEStatsNI_1", "stat1", ids, cur, "psel")
    <3> DEFINE from == cursor[p]["stat1"]
    <3>1. \/ ListArgs(p, "GetPOEStatsNI_1", "stat1", c.ids, from, "psel")
          \/ ListArgs(p, "GetPOEStatsNI_1", "stat1", Fill(l, c.ids, from), Next1(l, from) - 1, "psel")
      BY <1>4, Zenon DEF GetPOEStatsNI_1, Repeating
    <3>2. QED BY <3>1
  <2>2. Len(ids) = 1 => DOMAIN ids = {1}
    BY <1>1, <1>2, <2>1, FillShapes
  <2>3. QED BY <2>1, <2>2, StatBegun
<1>5. CASE GetPOEStat_1(p)
  <2>1. ~Reject(p)
    BY DEF Reject, Return, Goto
  <2>2. PICK new : Work(p, <<new>>, {GroupOf(l, new)}) /\ SetErr(p, FALSE) /\ Continue(p, "psel")
    BY <1>5, <2>1, Zenon DEF GetPOEStat_1
  <2>3. call'[p].ids = <<new>> /\ call'[p].left = {GroupOf(l, new)} /\ err'[p] = FALSE /\ pc'[p] = "psel"
    BY <2>2 DEF Work, InCall, NoCall, SetErr, Continue, Goto
  <2> DEFINE ids == <<new>>  g == GroupOf(l, new)
  <2>4. DOMAIN ids = {1} /\ Len(ids) = 1 /\ ids[1] = new
    OBVIOUS
  <2>5. g \in 0..3
    BY DEF GroupOf
  <2>6. GroupsOf(l, ids) = {g}
    BY <2>4 DEF GroupsOf
  <2>7. call'[p].ids = ids /\ call'[p].left = {g}
    BY <2>3
  <2> HIDE DEF ids, l
  <2>8. \A i \in DOMAIN ids : GroupOf(l, ids[i]) \in {g}
    BY <2>4
  <2> HIDE DEF g
  <2>9. QED BY <2>3, <2>4, <2>5, <2>6, <2>7, <2>8 DEF StatList, l
<1>6. QED BY <1>3, <1>4, <1>5

\* A group is asked for.
LEMMA StatAsked ==
    ASSUME NEW p, PoeShaped(p), lib[p].poe, NEW ok \in BOOLEAN, SelectStat(p, ok),
           StatList(lib[p], call[p], "psel", err[p], poeinfo)
    PROVE  StatList(lib[p], call'[p], pc'[p], err'[p], poeinfo')
<1> USE DEF PoeShaped, Shaped
<1> DEFINE l == lib[p]  c == call[p]
<1>1. /\ call'[p] = c /\ err'[p] = (err[p] \/ ~ok) /\ pc'[p] = IF c.left = {} \/ ~ok THEN "fin" ELSE "pget"
      /\ c.left = {} => ok
      /\ c.left # {} /\ ok => poeinfo' = First(c.left)
  BY DEF SelectStat, WriteInfo, SetErr, Continue, Goto, KeepCall
<1> HIDE DEF l, c
<1>2. CASE c.left = {}
  BY <1>1, <1>2 DEF StatList, l, c
<1>3. CASE c.left # {} /\ ~ok
  BY <1>1, <1>3 DEF StatList, l, c
<1>4. CASE c.left # {} /\ ok
  BY <1>1, <1>4 DEF StatList, l, c
<1>5. QED BY <1>2, <1>3, <1>4

\* The answer for the group is that of its ports, and of no other's.
LEMMA StatAnswered ==
    ASSUME NEW p, PoeShaped(p), Layout(lib[p]), board.groups, NEW ok \in BOOLEAN, ReadStat(p, ok),
           StatList(lib[p], call[p], "pget", err[p], poeinfo)
    PROVE  StatList(lib[p], call'[p], pc'[p], err'[p], poeinfo')
<1> USE DEF PoeShaped, Shaped
<1> DEFINE l == lib[p]  c == call[p]  d == call'[p]  g == First(c.left)
           good == ok /\ ~(board.groups /\ poeinfo = Get)
           mine == IF Len(c.ids) = 1 THEN {1} ELSE IdsIn(l, c.ids, g)
           v == IF board.groups /\ poeinfo = Pcie THEN "pcie" ELSE "main"
           w == IF good THEN Answer(p, mine, v) ELSE c.val
           e == [c EXCEPT !.left = c.left \ {g}, !.val = w]
<1>1. /\ d = e /\ err'[p] = (err[p] \/ ~good) /\ pc'[p] = (IF good THEN "psel" ELSE "fin")
      /\ poeinfo' = poeinfo
  BY DEF ReadStat, ReadOnly, Read, SetErr, InCall, Continue, Goto
<1>2. e.ids = c.ids /\ e.left = c.left \ {g} /\ e.val = w
  BY DEF NoCall
<1>3. c.left \in SUBSET (0..3) /\ c.left # {} /\ poeinfo = g /\ c.left \subseteq GroupsOf(l, c.ids)
  BY DEF StatList
<1>4. g \in c.left /\ g \in 0..3
  BY <1>3, FirstIn
<1>5. v = IF g = Pcie THEN "pcie" ELSE "main"
  BY <1>3
<1>6. good => w = [i \in DOMAIN c.ids |-> IF i \in mine THEN v ELSE c.val[i]]
  BY DEF Answer
<1> HIDE DEF v, g, good, w, e
<1>7. ASSUME good, ~err[p], NEW i \in DOMAIN c.ids, GroupOf(l, c.ids[i]) \notin c.left \ {g}
      PROVE  w[i] = StatSaid(l, c.ids[i])
  <2>1. w[i] = IF i \in mine THEN v ELSE c.val[i]
    BY <1>6, <1>7
  <2>2. i \in mine <=> GroupOf(l, c.ids[i]) = g
    <3>1. CASE Len(c.ids) = 1
      <4>1. DOMAIN c.ids = {1}
        BY <3>1 DEF StatList
      <4>2. GroupsOf(l, c.ids) = {GroupOf(l, c.ids[1])} /\ i = 1
        BY <4>1 DEF GroupsOf
      <4>3. QED BY <1>3, <1>4, <3>1, <4>2
    <3>2. CASE Len(c.ids) # 1
      <4>1. ~Bad(l, c.ids)
        BY <3>2 DEF StatList
      <4>2. QED BY <1>4, <3>2, <4>1, Groupings
    <3>3. QED BY <3>1, <3>2
  <2> HIDE DEF mine
  <2>3. CASE GroupOf(l, c.ids[i]) = g
    BY <1>5, <2>1, <2>2, <2>3 DEF StatSaid
  <2>4. CASE GroupOf(l, c.ids[i]) # g
    <3>1. GroupOf(l, c.ids[i]) \notin c.left
      BY <1>7, <2>4
    <3>2. c.val[i] = StatSaid(l, c.ids[i])
      BY <1>7, <3>1 DEF StatList
    <3>3. QED BY <2>1, <2>2, <2>4, <3>2
  <2>5. QED BY <2>3, <2>4
<1>8. /\ Len(c.ids) = 1 => DOMAIN c.ids = {1}
      /\ Bad(l, c.ids) => Len(c.ids) = 1
  BY DEF StatList
<1>9. d.ids = c.ids /\ d.left = c.left \ {g} /\ d.val = w
  BY <1>1, <1>2
<1> HIDE DEF l, c, d, mine
<1>10. CASE good
  <2>1. pc'[p] = "psel" /\ (~err'[p] => ~err[p])
    BY <1>1, <1>10
  <2>2. QED BY <1>3, <1>7, <1>8, <1>9, <1>10, <2>1 DEF StatList, l, d
<1>11. CASE ~good
  <2>1. pc'[p] = "fin" /\ err'[p]
    BY <1>1, <1>11
  <2>2. QED BY <1>3, <1>8, <1>9, <2>1 DEF StatList, l, d
<1>12. QED BY <1>10, <1>11
LEMMA StatEnds ==
    ASSUME NEW p, PoeShaped(p), op[p] \in StatOps, NoHardware(p) \/ Stats(p), pc'[p] = "idle"
    PROVE  ret'[p] = "false"
<1> USE DEF PoeShaped, Shaped
<1>1. Return(p, FALSE) \/ Reject(p) => ret'[p] = "false"
  BY DEF Reject, Return, Goto
<1>2. ASSUME NEW x \in {"psel", "dead"} PROVE ~Continue(p, x)
  BY <1>2 DEF Continue, Goto
<1>3. ASSUME NEW o, NEW c, NEW ids, NEW cur, ListArgs(p, o, c, ids, cur, "psel") PROVE ret'[p] = "false"
  BY <1>1, <1>2, <1>3 DEF ListArgs
<1>4. GetPOEStats_1(p) => ret'[p] = "false"
  BY <1>2, <1>3 DEF GetPOEStats_1
<1>5. GetPOEStatsNI_1(p) => ret'[p] = "false"
  BY <1>3 DEF GetPOEStatsNI_1, Repeating
<1>6. GetPOEStat_1(p) => ret'[p] = "false"
  BY <1>1, <1>2 DEF GetPOEStat_1
<1>7. ~GetPOEStats(p) /\ ~GetPOEStat(p)
  BY DEF GetPOEStats, GetPOEStat, Counted1, At, StatOps
<1>8. QED
  BY <1>1, <1>4, <1>5, <1>6, <1>7 DEF NoHardware, Stats, GetPOEStatsNI, GetPOEStatNI, GetPOEStatNI_1

LEMMA StatTurns ==
    ASSUME CountsInv, NEW p \in Procs, PoeShaped(p), OnPoe(p), Cut(p), Early(p), Firm(p), board' = board,
           PoeTurn(p), op[p] \in StatOps, StatWorking(p)
    PROVE  StatWorking(p)' /\ (Done(p, StatOps, "true")' => StatsSaid(p)')
<1> USE DEF PoeShaped, Shaped
<1> DEFINE l == lib[p]  m == lib'[p]
<1>1. op'[p] = op[p] /\ m \in {l, Detected(l)} /\ l \in Statics
  BY PoeMoves DEF PoeTurn, Calm
<1>2. m.bound = l.bound /\ m.cnt = l.cnt /\ m.poe = l.poe
  BY <1>1, DetectedKept
<1>3. (Known(p)' <=> Known(p)) /\ (Known(p) => Layout(l))
  BY <1>2, CutLayout DEF Known
<1>4. ASSUME pc'[p] \in StatPlaces /\ Known(p) /\ board.groups => StatList(l, call'[p], pc'[p], err'[p], poeinfo'),
             pc'[p] # "idle" \/ ret'[p] = "false"
      PROVE  StatWorking(p)' /\ (Done(p, StatOps, "true")' => StatsSaid(p)')
  <2>1. pc'[p] \in StatPlaces /\ Known(p) /\ board.groups => StatList(m, call'[p], pc'[p], err'[p], poeinfo')
    BY <1>2, <1>4, StatSame
  <2> HIDE DEF m
  <2>2. StatWorking(p)'
    BY <1>3, <2>1 DEF StatWorking, m
  <2>3. QED BY <1>4, <2>2 DEF Done
<1>5. CASE NoHardware(p) \/ Stats(p)
  <2>1. pc'[p] \in {"idle", "psel", "dead"}
    <3>1. /\ Return(p, FALSE) \/ Reject(p) => pc'[p] = "idle"
          /\ \A x : Continue(p, x) => pc'[p] = x
      BY DEF Reject, Return, Continue, Goto
    <3>2. ASSUME NEW o, NEW c, NEW ids, NEW cur, ListArgs(p, o, c, ids, cur, "psel") PROVE pc'[p] \in {"idle", "psel"}
      BY <3>1, <3>2 DEF ListArgs
    <3>3. GetPOEStats_1(p) => pc'[p] \in {"idle", "psel", "dead"}
      BY <3>1, <3>2 DEF GetPOEStats_1
    <3>4. GetPOEStatsNI_1(p) => pc'[p] \in {"idle", "psel"}
      BY <3>2 DEF GetPOEStatsNI_1, Repeating
    <3>5. QED
      BY <1>5, <3>1, <3>3, <3>4 DEF NoHardware, Stats, GetPOEStats, GetPOEStatsNI, GetPOEStat, GetPOEStatNI,
         GetPOEStat_1, GetPOEStatNI_1
  <2>2. pc'[p] = "idle" => ret'[p] = "false"
    BY <1>5, StatEnds
  <2>3. ASSUME pc'[p] = "psel" PROVE StatList(l, call'[p], pc'[p], err'[p], poeinfo')
    <3>1. ~NoHardware(p) /\ ~GetPOEStats(p) /\ ~GetPOEStat(p)
      BY <2>3 DEF NoHardware, Return, Goto, GetPOEStats, GetPOEStat, Counted1, At, StatOps
    <3>2. GetPOEStats_1(p) \/ GetPOEStatsNI_1(p) \/ GetPOEStat_1(p)
      BY <1>5, <3>1 DEF Stats, GetPOEStatsNI, GetPOEStatNI, GetPOEStatNI_1
    <3>3. pc[p] = "args"
      <4>1. ASSUME NEW o, NEW c, NEW ids, NEW cur, ListArgs(p, o, c, ids, cur, "psel") PROVE pc[p] = "args"
        BY <4>1 DEF ListArgs, Counted1, At
      <4>2. GetPOEStats_1(p) => pc[p] = "args"
        BY <4>1 DEF GetPOEStats_1, Counted1, At
      <4>3. GetPOEStatsNI_1(p) => pc[p] = "args"
        BY <4>1 DEF GetPOEStatsNI_1, Repeating
      <4>4. GetPOEStat_1(p) => pc[p] = "args"
        BY DEF GetPOEStat_1, Counted1, At
      <4>5. QED BY <3>2, <4>2, <4>3, <4>4
    <3>4. op[p] \in PoeOps
      BY PoeOpsAre DEF StatOps, StatGets
    <3>5. call[p].ids \in Lists
      BY <3>3, <3>4 DEF Early, PoeStarts
    <3>6. QED BY <2>3, <3>2, <3>5, StatStarted
  <2>4. pc'[p] \in StatPlaces => pc'[p] = "psel"
    BY <2>1 DEF StatPlaces
  <2>5. QED BY <1>4, <2>2, <2>3, <2>4
<1>6. CASE Fin(p)
  <2>1. pc[p] = "fin" /\ pc'[p] = "idle" /\ lib' = lib
        /\ IF err[p] THEN ret'[p] = "false" ELSE call'[p] = call[p]
    BY <1>6 DEF Fin, Reject, Return, Goto, KeepCall
  <2>2. StatWorking(p)'
    BY <2>1 DEF StatWorking, StatPlaces
  <2>3. CASE err[p]
    BY <2>1, <2>2, <2>3 DEF Done
  <2>4. CASE ~err[p]
    <3>1. ASSUME Known(p), board.groups, NEW i \in DOMAIN call[p].ids
          PROVE  call[p].val[i] = StatSaid(l, call[p].ids[i])
      <4>1. StatList(l, call[p], "fin", FALSE, poeinfo)
        BY <2>1, <2>4, <3>1 DEF StatWorking, StatPlaces, StatList
      <4>2. QED BY <3>1, <4>1 DEF StatList
    <3>2. QED BY <1>3, <2>1, <2>2, <2>4, <3>1 DEF StatsSaid, Ids, StatSaid
  <2>5. QED BY <2>3, <2>4
<1>7. ASSUME NEW ok \in BOOLEAN, SelectStat(p, ok) \/ ReadStat(p, ok)
      PROVE  StatWorking(p)' /\ (Done(p, StatOps, "true")' => StatsSaid(p)')
  <2>1. pc'[p] \in {"psel", "pget", "fin"}
    BY <1>7 DEF SelectStat, ReadStat, Continue, Goto
  <2>2. ASSUME Known(p), board.groups PROVE StatList(l, call'[p], pc'[p], err'[p], poeinfo')
    <3>1. l.poe = TRUE
      BY <1>1, <2>2 DEF Firm, Statics
    <3>2. CASE SelectStat(p, ok)
      <4>1. StatList(l, call[p], "psel", err[p], poeinfo)
        BY <2>2, <3>2 DEF SelectStat, StatWorking, StatPlaces
      <4>2. QED BY <3>1, <3>2, <4>1, StatAsked
    <3>3. CASE ReadStat(p, ok)
      <4>1. StatList(l, call[p], "pget", err[p], poeinfo)
        BY <2>2, <3>3 DEF ReadStat, StatWorking, StatPlaces
      <4>2. QED BY <1>3, <2>2, <3>3, <4>1, StatAnswered
    <3>4. QED BY <1>7, <3>2, <3>3
  <2>3. pc'[p] # "idle"
    BY <2>1
  <2>4. QED BY <1>4, <2>2, <2>3
<1>8. op[p] \notin PoeInfos \cup ConfigGets \cup PoeVerifies \cup {"SetPOEConfigs_1", "SetPOEConfig_1", "SetPOEConfig"}
  BY DEF StatOps, PoeInfos, ConfigGets, PoeVerifies
<1>9. NoHardware(p) \/ Fin(p) \/ StatTurn(p)
  BY <1>8, PoeTurns DEF GetTurn, ListTurn, SingleTurn, AllTurn, BuzTurn
<1>10. QED BY <1>5, <1>6, <1>7, <1>9 DEF StatTurn

LEMMA StatsStep ==
    ASSUME PoeInv, NEW p, Moves(p), Firm(p), StatKnown(p) PROVE StatKnown(p)'
<1>1. /\ WayInv /\ p \in Procs /\ OnPoe(p) /\ Cut(p) /\ Early(p) /\ CountsInv /\ PoeShaped(p) /\ board' = board
      /\ StatWorking(p)
  BY LibShapes DEF PoeInv, WayInv, LibInv, Moves, Mine, StatKnown
<1>2. CASE PoeTurn(p) /\ op[p] \in StatOps
  BY <1>1, <1>2, StatTurns DEF StatKnown
<1>3. CASE PoeTurn(p) /\ op[p] \notin StatOps
  <2>1. op'[p] \notin StatOps
    BY <1>1, <1>3, OnPoeTurns
  <2>2. QED BY <2>1 DEF StatKnown, StatWorking, Done
<1>4. CASE ~PoeTurn(p)
  <2>1. PoeAside(p)
    BY <1>1, <1>4, PoeElsewhere
  <2>2. op'[p] \in StatOps => pc'[p] \notin StatPlaces /\ (pc'[p] = "idle" => ret'[p] # "true")
    BY <2>1, PoeOpsAre DEF PoeAside, PoeStarts, Counting, Behind, StatPlaces, StatOps, StatGets
  <2>3. QED BY <2>2 DEF StatKnown, StatWorking, Done
<1>5. QED BY <1>2, <1>3, <1>4

StatsInv == PoeInv /\ (Alone => \A p \in Who[scene] : StatKnown(p))

LEMMA StatsInductive == StatsInv /\ [LibNext]_libVars => StatsInv'
<1> SUFFICES ASSUME StatsInv, [LibNext]_libVars PROVE StatsInv'
  OBVIOUS
<1>1. PoeInv /\ PoeInv'
  BY PoeInductive DEF StatsInv
<1>2. CASE LibNext
  <2>1. PICK p \in Who[scene] : Moves(p)
    BY <1>1, <1>2, Mover DEF PoeInv, WayInv
  <2>2. scene' = scene /\ p \in Procs
    BY <2>1 DEF Moves
  <2>3. ASSUME Alone PROVE Who[scene] = {p} /\ StatKnown(p)'
    <3>1. Who[scene] = {p}
      BY <2>1, <2>3 DEF Alone
    <3>2. Firm(p)
      BY <1>1, <2>2, <3>1 DEF Firm, PoeInv, WayInv, LibInv, CountsInv, Sole
    <3>3. QED BY <1>1, <2>1, <2>3, <3>1, <3>2, StatsStep DEF StatsInv
  <2>4. Alone' <=> Alone
    BY <2>2 DEF Alone
  <2>5. QED BY <1>1, <2>2, <2>3, <2>4 DEF StatsInv
<1>3. CASE UNCHANGED libVars
  <2>1. ASSUME NEW p, StatKnown(p) PROVE StatKnown(p)'
    <3>1. StatsSaid(p) => StatsSaid(p)'
      BY <1>3 DEF libVars, StatsSaid, Known, Ids
    <3>2. Done(p, StatOps, "true")' => Done(p, StatOps, "true")
      BY <1>3 DEF libVars, Done
    <3>3. StatWorking(p) => StatWorking(p)'
      BY <1>3 DEF libVars, StatWorking, Known
    <3>4. QED BY <2>1, <3>1, <3>2, <3>3 DEF StatKnown
  <2>2. QED BY <1>1, <1>3, <2>1 DEF StatsInv, libVars, Alone
<1>4. QED BY <1>2, <1>3

LEMMA StatsInitial == LibInit => StatsInv
<1> SUFFICES ASSUME LibInit PROVE \A p \in Who[scene] : StatKnown(p)
  BY PoeInitial DEF StatsInv
<1>1. Who[scene] \in SUBSET Procs
  BY PoeInitial, CountsAssumption DEF PoeInv, WayInv, LibInv, CountsInv, Types
<1>2. \A p \in Procs : op[p] = "none"
  BY DEF LibInit, PoeInit, CountsInit
<1>3. QED BY <1>1, <1>2 DEF StatKnown, StatWorking, Done, StatOps

\* What EkDMCiSMBGetPOEStats_1 and GetPOEStat_1 (DMCI.c) report of a port to a program alone
\* with the AIC is the answer of that port's own group, however the ids mix the groups:
\* POEINFO was asked for that group and no other before it was read.
THEOREM LibStatsTold == LibSpec => []StatTruth
<1>1. StatsInv => StatTruth
  <2> SUFFICES ASSUME StatsInv, Alone, NEW p \in Procs, Done(p, StatOps, "true") PROVE StatsSaid(p)
    BY DEF StatTruth, StatsSaid, StatSaid, StatOps
  <2>1. p \in Who[scene]
    BY DEF StatsInv, PoeInv, WayInv, Done, StatOps
  <2>2. QED BY <2>1 DEF StatsInv, StatKnown
<1>2. QED BY <1>1, StatsInductive, StatsInitial, PTL DEF LibSpec
-----------------------------------------------------------------------------
(* How ports are set, as the configs tell it to a program alone.           *)

\* While the bounds are unknown the cursor stays where it began.
Range1(l) == 0..(IF l.bound[0] = N THEN l.bound[3] - 1 ELSE 0)

LEMMA PortsThere ==
    ASSUME NEW l, Layout(l), l.bound[0] = N
    PROVE  /\ l.bound[3] \in {N, 6 * N} /\ N \in Nat /\ N > 0
           /\ \A id : Exists(l, id) => id \in 1..l.bound[3]
           /\ ~NoPorts(l) => \E id \in 1..l.bound[3] : Exists(l, id)
<1>1. /\ N \in Nat \ {0} /\ l \in Statics /\ l.cnt[0] \in {0, N} /\ l.cnt[3] \in {0, N}
  BY CountsAssumption DEF Layout, Statics, Groups
<1>2. IF l.poe THEN l.bound[2] = 2 * N /\ l.bound[3] = 6 * N ELSE l.bound[3] = N
  BY <1>1 DEF Layout, Groups
<1>3. \A id : Exists(l, id) <=> id \in 1..l.cnt[0] \/ (l.poe /\ id \in l.bound[2] + 1..l.bound[2] + l.cnt[3])
  BY DEF Exists, Main, Pcie
<1>4. NoPorts(l) <=> (~l.poe /\ l.cnt[0] = 0) \/ l.cnt[0] + l.cnt[3] = 0
  BY DEF NoPorts, Total, Main, Pcie
<1>5. ASSUME NEW id, Exists(l, id) PROVE id \in 1..l.bound[3]
  <2>1. CASE id \in 1..l.cnt[0]
    BY <1>1, <1>2, <2>1
  <2>2. CASE l.poe /\ id \in l.bound[2] + 1..l.bound[2] + l.cnt[3]
    BY <1>1, <1>2, <2>2
  <2>3. QED BY <1>3, <1>5, <2>1, <2>2
<1>6. ASSUME ~NoPorts(l) PROVE \E id \in 1..l.bound[3] : Exists(l, id)
  <2>1. CASE l.cnt[0] # 0
    <3>1. 1 \in 1..l.cnt[0]
      BY <1>1, <2>1
    <3>2. QED BY <1>3, <1>5, <3>1
  <2>2. CASE l.cnt[0] = 0
    <3>1. l.poe /\ l.cnt[3] = N
      BY <1>1, <1>4, <1>6, <2>2
    <3>2. 2 * N + 1 \in l.bound[2] + 1..l.bound[2] + l.cnt[3]
      BY <1>1, <1>2, <3>1
    <3>3. Exists(l, 2 * N + 1)
      BY <1>3, <3>1, <3>2
    <3>4. QED BY <1>5, <3>3
  <2>3. QED BY <2>1, <2>2
<1>7. QED BY <1>1, <1>2, <1>5, <1>6

\* The search for the next port finds one.
LEMMA NextPort ==
    ASSUME NEW l, Layout(l), ~NoPorts(l), NEW c \in Range1(l)
    PROVE  Exists(l, Next1(l, c)) /\ Next1(l, c) - 1 \in Range1(l) /\ Next1(l, c) \in Nat
<1> DEFINE b == l.bound[3]
<1>1. CASE l.bound[0] = N
  <2>1. b \in {N, 6 * N} /\ N \in Nat /\ N > 0 /\ c \in 0..b - 1
    BY <1>1, PortsThere DEF Range1
  <2>2. \A id : Exists(l, id) => id \in 1..b
    BY <1>1, PortsThere
  <2>3. PICK q \in 1..b : Exists(l, q)
    BY <1>1, PortsThere
  <2>4. \A id \in 1..b : id - 1 \in Range1(l) /\ id \in Nat
    BY <1>1, <2>1 DEF Range1
  <2> SUFFICES Exists(l, Next1(l, c))
    BY <2>2, <2>4
  <2>5. CASE Exists(l, c + 1)
    BY <2>5 DEF Next1
  <2>6. CASE ~Exists(l, c + 1)
    <3> DEFINE K == {k \in 0..6 * N : Exists(l, Round(l, c, k))}
               k0 == IF q - 1 >= c THEN q - 1 - c ELSE q - 1 - c + b
    <3>1. \A k : Round(l, c, k) = 1 + ((c + k) % b)
      BY DEF Round, Pcie
    <3> HIDE DEF b
    <3>2. k0 \in 0..6 * N /\ (c + k0 = q - 1 \/ c + k0 = q - 1 + b) /\ q - 1 \in 0..b - 1 /\ b \in Nat /\ b > 0
      BY <2>1
    <3> HIDE DEF k0
    <3>3. (c + k0) % b = q - 1
      <4>1. (q - 1) % b = q - 1 /\ (q - 1 + b) % b = q - 1
        BY <3>2, ModSmall, ModOver
      <4>2. QED BY <3>2, <4>1
    <3>4. Round(l, c, k0) = q
      BY <3>1, <3>2, <3>3
    <3>5. k0 \in K
      BY <2>3, <3>2, <3>4
    <3>6. K \in SUBSET Nat
      BY <2>1
    <3>7. PICK k1 \in K : \A m \in K : k1 <= m
      BY <3>5, <3>6, LeastOf
    <3>8. k1 \in 0..6 * N /\ Exists(l, Round(l, c, k1))
      BY <3>7
    <3>9. ASSUME NEW j \in 0..k1 - 1 PROVE ~Exists(l, Round(l, c, j))
      <4>1. j \in 0..6 * N /\ ~(k1 <= j)
        BY <2>1, <3>8
      <4>2. j \notin K
        BY <3>7, <4>1
      <4>3. QED BY <4>1, <4>2
    <3> DEFINE P(k) == Exists(l, Round(l, c, k)) /\ \A j \in 0..k - 1 : ~Exists(l, Round(l, c, j))
    <3>10. Next1(l, c) = Round(l, c, CHOOSE k \in 0..6 * N : P(k))
      BY <2>6 DEF Next1
    <3>11. \E k \in 0..6 * N : P(k)
      BY <3>8, <3>9
    <3>12. P(CHOOSE k \in 0..6 * N : P(k))
      <4> HIDE DEF P
      <4>1. QED BY <3>11
    <3>13. QED BY <3>10, <3>12
  <2>7. QED BY <2>5, <2>6
<1>2. CASE l.bound[0] # N
  <2>1. /\ \A g \in Groups : l.bound[g] = 0
        /\ N \in Nat \ {0} /\ l \in Statics /\ l.cnt[0] \in {0, N} /\ l.cnt[3] \in {0, N} /\ c = 0
    BY <1>2, CountsAssumption DEF Layout, Statics, Groups, Range1
  <2>2. Exists(l, 1) <=> 1 \in 1..l.cnt[0] \/ (l.poe /\ 1 \in l.bound[2] + 1..l.bound[2] + l.cnt[3])
    BY DEF Exists, Main, Pcie
  <2>3. NoPorts(l) <=> (~l.poe /\ l.cnt[0] = 0) \/ l.cnt[0] + l.cnt[3] = 0
    BY DEF NoPorts, Total, Main, Pcie
  <2>4. l.bound[2] = 0 /\ l.poe \in BOOLEAN
    BY <2>1 DEF Groups, Statics
  <2>5. Exists(l, 1)
    BY <2>1, <2>2, <2>3, <2>4
  <2>6. Next1(l, c) = 1
    BY <2>1, <2>5 DEF Next1
  <2>7. QED BY <1>2, <2>5, <2>6 DEF Range1
<1>3. QED BY <1>1, <1>2

\* A port that is there is not refused.
LEMMA OneGood ==
    ASSUME NEW l, Layout(l), l.bound[0] = N, NEW id, Exists(l, id)
    PROVE  ~Bad(l, <<id>>) /\ (GroupOf(l, id) # Main => l.poe)
<1>1. /\ N \in Nat \ {0} /\ l \in Statics /\ l.cnt[0] \in {0, N} /\ l.cnt[3] \in {0, N}
  BY CountsAssumption DEF Layout, Statics, Groups
<1>2. /\ l.bound[1] \in {N, 2 * N} /\ IF l.poe THEN l.bound[2] = 2 * N /\ l.bound[3] = 6 * N ELSE l.bound[3] = N
  BY <1>1 DEF Layout, Groups
<1>3. id \in 1..l.cnt[0] \/ (l.poe /\ id \in l.bound[2] + 1..l.bound[2] + l.cnt[3])
  BY DEF Exists, Main, Pcie
<1>4. GroupOf(l, id) = IF id <= l.bound[0] THEN 0 ELSE IF id <= l.bound[1] THEN 1 ELSE IF id <= l.bound[2] THEN 2 ELSE 3
  BY DEF GroupOf
<1>5. Floor(l, 0) = 0 /\ Floor(l, 3) = l.bound[2]
  BY DEF Floor
<1> DEFINE ids == <<id>>
<1>6. DOMAIN ids = {1} /\ ids[1] = id
  OBVIOUS
<1>7. \A g : 1 \in IdsIn(l, ids, g) <=> id > Floor(l, g) /\ id <= Floor(l, g) + l.cnt[g]
  BY <1>6 DEF IdsIn
<1>8. Bad(l, ids) <=> id \notin 1..l.bound[3] \/ (GroupOf(l, id) > 0 /\ ~l.poe) \/ 1 \notin IdsIn(l, ids, GroupOf(l, id))
  BY <1>6 DEF Bad, Pcie
<1> HIDE DEF ids
<1>9. CASE id \in 1..l.cnt[0]
  <2>1. GroupOf(l, id) = 0 /\ id \in 1..l.bound[3] /\ id > 0 /\ id <= 0 + l.cnt[0]
    BY <1>1, <1>2, <1>4, <1>9
  <2>2. QED BY <1>5, <1>7, <1>8, <2>1 DEF ids, Main
<1>10. CASE l.poe /\ id \in l.bound[2] + 1..l.bound[2] + l.cnt[3]
  <2>1. GroupOf(l, id) = 3 /\ id \in 1..l.bound[3] /\ id > l.bound[2] /\ id <= l.bound[2] + l.cnt[3]
    BY <1>1, <1>2, <1>4, <1>10
  <2>2. QED BY <1>5, <1>7, <1>8, <1>10, <2>1 DEF ids
<1>11. QED BY <1>3, <1>9, <1>10
CfgOps == {"GetPOEConfigs_1", "GetPOEConfig_1"}
CfgPlaces == {"ctrl", "csel", "cget", "fin"}
Told1(l, sw, x, id) == IF Feeds(l, sw, x, id) THEN "on" ELSE "off"

\* Where a call that asks how ports are set is: the group being read is the one
\* asked for; a main group that is left has its switch closed; and each port of
\* a group no longer left has been told as it is fed.
ListTold(o, l, c, at, e, sw, x, cfg) ==
    /\ ~Bad(l, c.ids) /\ c.left \subseteq GroupsOf(l, c.ids) /\ (~l.poe => c.left = {})
    /\ o = "GetPOEConfig_1" => DOMAIN c.ids = {1}
    /\ at = "ctrl" /\ l.poe => c.left = GroupsOf(l, c.ids)
    /\ at = "cget" => c.left # {} /\ cfg = First(c.left)
    /\ at = "fin" /\ ~e => c.left = {}
    /\ at # "ctrl" /\ ~e =>
           /\ Main \in c.left => "main" \in sw
           /\ \A i \in DOMAIN c.ids : GroupOf(l, c.ids[i]) \notin c.left => c.val[i] = Told1(l, sw, x, c.ids[i])
CfgWorking(p) == op[p] \in CfgOps /\ Known(p) /\ pc[p] \in CfgPlaces =>
                     ListTold(op[p], lib[p], call[p], pc[p], err[p], ctrl, port, poecfg)
CfgSaid(p) == Known(p) => \A i \in Ids(p) : call[p].val[i] = IF Fed(lib[p], call[p].ids[i]) THEN "on" ELSE "off"
CfgKnown(p) == /\ Located(p) /\ cursor[p].get1 \in Range1(lib[p])
               /\ CfgWorking(p) /\ (Done(p, CfgOps, "true") => CfgSaid(p))

LEMMA CfgSame ==
    ASSUME NEW l, NEW m, m.bound = l.bound, m.cnt = l.cnt, m.poe = l.poe
    PROVE  \A o, c, at, e, sw, x, cfg : ListTold(o, l, c, at, e, sw, x, cfg) => ListTold(o, m, c, at, e, sw, x, cfg)
<1>1. /\ \A id : GroupOf(m, id) = GroupOf(l, id) /\ PortOf(m, id) = PortOf(l, id)
      /\ \A ids : (Bad(m, ids) <=> Bad(l, ids)) /\ GroupsOf(m, ids) = GroupsOf(l, ids)
  BY SameCounts
<1>2. \A sw, x, id : Told1(m, sw, x, id) = Told1(l, sw, x, id)
  BY <1>1 DEF Told1, Feeds
<1>3. QED BY <1>1, <1>2 DEF ListTold

LEMMA CfgBegun ==
    ASSUME NEW p, PoeShaped(p), Layout(lib[p]), NEW o, o # "GetPOEConfig_1", NEW cur, NEW ids,
           ListArgs(p, o, "get1", ids, cur, "csel"), pc'[p] # "idle"
    PROVE  ListTold(o, lib[p], call'[p], pc'[p], err'[p], ctrl', port', poecfg')
<1> USE DEF PoeShaped, Shaped
<1> DEFINE l == lib[p]  gs == GroupsOf(l, ids)  left == IF l.poe THEN gs ELSE {}  c == call'[p]
<1>1. ~Return(p, FALSE) /\ ~Reject(p)
  BY DEF Reject, Return, Goto
<1>2. ~Bad(l, ids) /\ Work(p, ids, left) /\ SetErr(p, FALSE) /\ Continue(p, IF Main \in gs THEN "ctrl" ELSE "csel")
  BY <1>1 DEF ListArgs
<1>3. c.ids = ids /\ c.left = left /\ err'[p] = FALSE /\ pc'[p] = IF Main \in gs THEN "ctrl" ELSE "csel"
  BY <1>2 DEF Work, InCall, NoCall, SetErr, Continue, Goto
<1>4. \A i \in DOMAIN ids : GroupOf(l, ids[i]) \in gs
  BY DEF GroupsOf
<1>5. ~l.poe /\ Main \notin gs => DOMAIN ids = {}
  <2>1. ASSUME ~l.poe, NEW i \in DOMAIN ids PROVE GroupOf(l, ids[i]) = Main
    BY <1>2, <2>1, Groupings DEF PoeGroups
  <2>2. QED BY <1>4, <2>1
<1> HIDE DEF l, c
<1>6. CASE Main \in gs
  <2>1. pc'[p] = "ctrl"
    BY <1>3, <1>6
  <2>2. QED BY <1>2, <1>3, <2>1 DEF ListTold, l, c
<1>7. CASE Main \notin gs
  <2>1. pc'[p] = "csel"
    BY <1>3, <1>7
  <2>2. Main \notin left
    BY <1>7
  <2>3. \A i \in DOMAIN ids : GroupOf(l, ids[i]) \in left
    BY <1>4, <1>5, <1>7
  <2>4. QED BY <1>2, <1>3, <2>1, <2>2, <2>3 DEF ListTold, l, c
<1>8. QED BY <1>6, <1>7

LEMMA CfgOne ==
    ASSUME NEW p, PoeShaped(p), Layout(lib[p]), lib[p].bound[0] = N, Located(p), cursor[p].get1 \in Range1(lib[p]),
           call[p].ids \in Lists, GetPOEConfig_1(p), pc'[p] # "idle"
    PROVE  ListTold("GetPOEConfig_1", lib[p], call'[p], pc'[p], err'[p], ctrl', port', poecfg')
<1> USE DEF PoeShaped, Shaped
<1> DEFINE l == lib[p]  id == call[p].ids[1]  from == cursor[p].get1
           new == IF id = 0 THEN Next1(l, from) ELSE id  g == GroupOf(l, new)
           reads == g = Main \/ (l.poe /\ g < Pcie)
           left == IF l.poe THEN {g} ELSE {}  ids == <<new>>  c == call'[p]
           at == IF reads THEN "ctrl" ELSE IF l.poe THEN "csel" ELSE "fin"
<1>1. ~Reject(p)
  BY DEF Reject, Return, Goto
<1>2. /\ ~(NoPorts(l) \/ (id > 0 /\ ~Exists(l, id)))
      /\ Work(p, ids, left) /\ SetErr(p, FALSE) /\ Continue(p, at)
  BY <1>1 DEF GetPOEConfig_1
<1>3. Exists(l, new)
  <2>1. id \in Nat
    BY ListsAre
  <2>2. CASE id = 0
    BY <1>2, <2>2, NextPort
  <2>3. CASE id # 0
    BY <1>2, <2>1, <2>3
  <2>4. QED BY <2>2, <2>3
<1> HIDE DEF new
<1>4. ~Bad(l, ids) /\ (g # Main => l.poe)
  BY <1>3, OneGood
<1>5. c.ids = ids /\ c.left = left /\ err'[p] = FALSE /\ pc'[p] = at
  BY <1>2 DEF Work, InCall, NoCall, SetErr, Continue, Goto
<1>6. DOMAIN ids = {1} /\ ids[1] = new
  OBVIOUS
<1> HIDE DEF ids
<1>7. GroupsOf(l, ids) = {g}
  BY <1>6 DEF GroupsOf
<1> HIDE DEF l, c, g
<1>8. CASE reads
  <2>1. pc'[p] = "ctrl"
    BY <1>5, <1>8
  <2>2. QED BY <1>4, <1>5, <1>6, <1>7, <2>1 DEF ListTold, l, c
<1>9. CASE ~reads
  <2>1. pc'[p] = "csel" /\ left = {g} /\ g # Main /\ l.poe
    BY <1>4, <1>5, <1>9
  <2>2. \A i \in DOMAIN ids : GroupOf(l, ids[i]) \in left
    BY <1>6, <2>1 DEF g
  <2> HIDE DEF left
  <2>3. QED BY <1>4, <1>5, <1>6, <1>7, <2>1, <2>2 DEF ListTold, l, c
<1>10. QED BY <1>8, <1>9

\* The switch of the main group is read.
LEMMA CfgSwitch ==
    ASSUME NEW p, PoeShaped(p), Layout(lib[p]), NEW ok \in BOOLEAN, ReadCtrlGet(p, ok),
           ListTold(op[p], lib[p], call[p], "ctrl", err[p], ctrl, port, poecfg)
    PROVE  ListTold(op[p], lib[p], call'[p], pc'[p], err'[p], ctrl', port', poecfg')
<1> USE DEF PoeShaped, Shaped
<1> DEFINE l == lib[p]  c == call[p]  d == call'[p]  mine == IdsIn(l, c.ids, Main)
           on == MainOn(l, ctrl)  known == ~on \/ ~l.poe
           left == IF known THEN c.left \ {Main} ELSE c.left
           v == IF on THEN "on" ELSE "off"
           w == IF ok /\ known THEN Answer(p, mine, v) ELSE c.val
           e == [c EXCEPT !.left = left, !.val = w]
<1>1. /\ ctrl' = ctrl /\ port' = port /\ poecfg' = poecfg /\ err'[p] = (~ok)
      /\ d = e /\ pc'[p] = IF ok THEN "csel" ELSE "fin"
  BY DEF ReadCtrlGet, ReadOnly, aicVars, SetErr, InCall, Continue, Goto
<1>2. e.ids = c.ids /\ e.left = left /\ e.val = w
  BY DEF NoCall
<1>3. /\ ~Bad(l, c.ids) /\ c.left \subseteq GroupsOf(l, c.ids) /\ (~l.poe => c.left = {})
      /\ op[p] = "GetPOEConfig_1" => DOMAIN c.ids = {1}
      /\ l.poe => c.left = GroupsOf(l, c.ids)
  BY DEF ListTold
<1>4. ok /\ known => w = [i \in DOMAIN c.ids |-> IF i \in mine THEN v ELSE c.val[i]]
  BY DEF Answer
<1>5. on = MainOn(l, ctrl) /\ (MainOn(l, ctrl) <=> IF l.poe THEN "main" \in ctrl ELSE {"main", "iom"} \subseteq ctrl)
  BY DEF MainOn
<1>6. ASSUME NEW i \in DOMAIN c.ids PROVE i \in mine <=> GroupOf(l, c.ids[i]) = Main
  BY <1>3, Groupings DEF Main
<1> HIDE DEF mine, e, w
<1>7. ASSUME ok, NEW i \in DOMAIN c.ids, GroupOf(l, c.ids[i]) \notin left
      PROVE  w[i] = Told1(l, ctrl, port, c.ids[i])
  <2> DEFINE g == GroupOf(l, c.ids[i])
  <2>1. g \in GroupsOf(l, c.ids)
    BY DEF GroupsOf
  <2>2. ~l.poe => g = Main
    BY <1>3, Groupings DEF PoeGroups
  <2>3. Feeds(l, ctrl, port, c.ids[i]) <=>
          IF ~l.poe THEN {"main", "iom"} \subseteq ctrl
          ELSE PortOf(l, c.ids[i]) \in port[g] /\ (g = Main => "main" \in ctrl)
    BY DEF Feeds
  <2>4. known /\ g = Main
    BY <1>3, <1>7, <2>1, <2>2
  <2>5. w[i] = v
    BY <1>4, <1>6, <1>7, <2>4
  <2>6. Feeds(l, ctrl, port, c.ids[i]) <=> on
    BY <1>5, <2>3, <2>4
  <2> HIDE DEF on
  <2>7. QED BY <2>5, <2>6 DEF Told1
<1>8. ok /\ Main \in left => "main" \in ctrl
  BY <1>3, <1>5
<1>9. left \subseteq c.left
  OBVIOUS
<1> HIDE DEF left, v, known, on
<1>10. d.ids = c.ids /\ d.left = left /\ d.val = w
  BY <1>1, <1>2
<1> HIDE DEF l, c, d
<1>11. CASE ok
  <2>1. pc'[p] = "csel"
    BY <1>1, <1>11
  <2>2. QED BY <1>1, <1>3, <1>7, <1>8, <1>9, <1>10, <1>11, <2>1 DEF ListTold, l, c, d
<1>12. CASE ~ok
  <2>1. pc'[p] = "fin" /\ err'[p]
    BY <1>1, <1>12
  <2>2. QED BY <1>1, <1>3, <1>9, <1>10, <2>1 DEF ListTold, l, c, d
<1>13. QED BY <1>11, <1>12

\* A group is asked for.
LEMMA CfgAsked ==
    ASSUME NEW p, PoeShaped(p), Layout(lib[p]), NEW ok \in BOOLEAN, SelectCfg(p, ok),
           ListTold(op[p], lib[p], call[p], "csel", err[p], ctrl, port, poecfg)
    PROVE  ListTold(op[p], lib[p], call'[p], pc'[p], err'[p], ctrl', port', poecfg')
<1> USE DEF PoeShaped, Shaped
<1> DEFINE l == lib[p]  c == call[p]  d == call'[p]  g == First(c.left)
           e == [c EXCEPT !.left = c.left \ {g}]
<1>1. ctrl' = ctrl /\ port' = port
  BY DEF SelectCfg
<1>2. e.ids = c.ids /\ e.left = c.left \ {g} /\ e.val = c.val
  BY DEF NoCall
<1>3. CASE c.left = {}
  <2>1. d = c /\ err'[p] = err[p] /\ pc'[p] = "fin" /\ poecfg' = poecfg
    BY <1>3 DEF SelectCfg, Continue, Goto, KeepCall
  <2> HIDE DEF l, c, d
  <2>2. QED BY <1>1, <1>3, <2>1 DEF ListTold, l, c, d
<1>4. CASE c.left # {} /\ ok
  <2>1. d = c /\ err'[p] = err[p] /\ pc'[p] = "cget" /\ poecfg' = g
    BY <1>4 DEF SelectCfg, SetErr, Continue, Goto, KeepCall
  <2> HIDE DEF l, c, d
  <2>2. QED BY <1>1, <1>4, <2>1 DEF ListTold, l, c, d
<1>5. CASE c.left # {} /\ ~ok
  <2>1. d = e /\ err'[p] = TRUE /\ pc'[p] = "csel"
    BY <1>5 DEF SelectCfg, SetErr, Onward, InCall, Continue, Goto
  <2> HIDE DEF e
  <2>2. d.ids = c.ids /\ d.left = c.left \ {g}
    BY <1>2, <2>1
  <2> HIDE DEF l, c, d
  <2>3. QED BY <2>1, <2>2 DEF ListTold, l, c, d
<1>6. QED BY <1>3, <1>4, <1>5

\* The ports of the group are read.
LEMMA CfgRead ==
    ASSUME NEW p, PoeShaped(p), Layout(lib[p]), NEW ok \in BOOLEAN, ReadCfg(p, ok),
           ListTold(op[p], lib[p], call[p], "cget", err[p], ctrl, port, poecfg)
    PROVE  ListTold(op[p], lib[p], call'[p], pc'[p], err'[p], ctrl', port', poecfg')
<1> USE DEF PoeShaped, Shaped
<1> DEFINE l == lib[p]  c == call[p]  d == call'[p]  g == First(c.left)
           read == [i \in DOMAIN c.ids |-> IF i \notin IdsIn(l, c.ids, g) /\ op[p] # "GetPOEConfig_1" THEN c.val[i]
                       ELSE IF PortOf(l, c.ids[i]) \in port[poecfg] THEN "on" ELSE "off"]
           w == IF ~ok THEN c.val ELSE read
           e == [c EXCEPT !.left = c.left \ {g}, !.val = w]
<1>1. /\ ctrl' = ctrl /\ port' = port /\ poecfg' = poecfg /\ err'[p] = (err[p] \/ ~ok)
      /\ d = e /\ pc'[p] = "csel"
  BY DEF ReadCfg, ReadOnly, aicVars, SetErr, InCall, Continue, Goto
<1>2. e.ids = c.ids /\ e.left = c.left \ {g} /\ e.val = w
  BY DEF NoCall
<1>3. /\ ~Bad(l, c.ids) /\ c.left \subseteq GroupsOf(l, c.ids) /\ c.left # {} /\ poecfg = g /\ l.poe
      /\ op[p] = "GetPOEConfig_1" => DOMAIN c.ids = {1}
  BY DEF ListTold
<1>4. g \in c.left /\ g \in 0..3
  BY <1>3, LeftIn DEF PoeGroups, Main, Pcie
<1> HIDE DEF e, g
<1>5. ASSUME ok, ~err[p], NEW i \in DOMAIN c.ids, GroupOf(l, c.ids[i]) \notin c.left \ {g}
      PROVE  w[i] = Told1(l, ctrl, port, c.ids[i])
  <2> DEFINE h == GroupOf(l, c.ids[i])
  <2>1. w[i] = IF i \notin IdsIn(l, c.ids, g) /\ op[p] # "GetPOEConfig_1" THEN c.val[i]
               ELSE IF PortOf(l, c.ids[i]) \in port[poecfg] THEN "on" ELSE "off"
    BY <1>5
  <2>2. i \in IdsIn(l, c.ids, g) <=> h = g
    BY <1>3, <1>4, Groupings
  <2>3. op[p] = "GetPOEConfig_1" => h = g
    <3>1. DOMAIN c.ids = {1} => GroupsOf(l, c.ids) = {h}
      BY DEF GroupsOf
    <3>2. QED BY <1>3, <1>4, <3>1
  <2>4. Main \in c.left => "main" \in ctrl
    BY <1>5 DEF ListTold
  <2>5. Feeds(l, ctrl, port, c.ids[i]) <=> PortOf(l, c.ids[i]) \in port[h] /\ (h = Main => "main" \in ctrl)
    BY <1>3 DEF Feeds
  <2> HIDE DEF w
  <2>6. CASE h = g
    <3>1. Feeds(l, ctrl, port, c.ids[i]) <=> PortOf(l, c.ids[i]) \in port[poecfg]
      BY <1>3, <1>4, <2>4, <2>5, <2>6
    <3>2. QED BY <2>1, <2>2, <2>6, <3>1 DEF Told1
  <2>7. CASE h # g
    <3>1. h \notin c.left
      BY <1>5, <2>7
    <3>2. c.val[i] = Told1(l, ctrl, port, c.ids[i])
      BY <1>5, <3>1 DEF ListTold
    <3>3. QED BY <2>1, <2>2, <2>3, <2>7, <3>2
  <2>8. QED BY <2>6, <2>7
<1> HIDE DEF w
<1>6. d.ids = c.ids /\ d.left = c.left \ {g} /\ d.val = w
  BY <1>1, <1>2
<1>7. ~err[p] => (Main \in c.left => "main" \in ctrl)
  BY DEF ListTold
<1> HIDE DEF l, c, d
<1>8. CASE ok
  <2>1. ~err'[p] => ~err[p]
    BY <1>1
  <2>2. QED BY <1>1, <1>3, <1>5, <1>6, <1>7, <1>8, <2>1 DEF ListTold, l, c, d
<1>9. CASE ~ok
  <2>1. err'[p]
    BY <1>1, <1>9
  <2>2. QED BY <1>1, <1>3, <1>6, <2>1 DEF ListTold, l, c, d
<1>10. QED BY <1>8, <1>9

\* The step that begins a call that asks how ports are set.
LEMMA CfgEnds ==
    ASSUME NEW p, PoeShaped(p), op[p] \in CfgOps, NoHardware(p) \/ Configs(p)
    PROVE  /\ pc'[p] \in {"idle", "ctrl", "csel", "fin"} /\ (pc'[p] = "idle" => ret'[p] = "false")
           /\ pc'[p] # "idle" => pc[p] = "args" /\ (GetPOEConfigs_1(p) \/ GetPOEConfig_1(p))
<1> USE DEF PoeShaped, Shaped
<1> DEFINE Fine == pc'[p] \in {"idle", "ctrl", "csel", "fin"} /\ (pc'[p] = "idle" => ret'[p] = "false")
<1>1. Return(p, FALSE) \/ Reject(p) => Fine /\ pc'[p] = "idle"
  BY DEF Reject, Return, Goto
<1>2. ASSUME NEW x \in {"ctrl", "csel", "fin"}, Continue(p, x) PROVE Fine
  BY <1>2 DEF Continue, Goto
<1> HIDE DEF Fine
<1>3. ASSUME NEW o, NEW ids, NEW cur, ListArgs(p, o, "get1", ids, cur, "csel") PROVE Fine /\ pc[p] = "args"
  BY <1>1, <1>2, <1>3 DEF ListArgs, Counted1, At
<1>4. GetPOEConfigs_1(p) => Fine /\ pc[p] = "args"
  BY <1>3 DEF GetPOEConfigs_1, Repeating
<1>5. GetPOEConfig_1(p) => Fine /\ pc[p] = "args"
  <2> DEFINE l == lib[p]  id == call[p].ids[1]  new == IF id = 0 THEN Next1(l, cursor[p].get1) ELSE id
             g == GroupOf(l, new)  reads == g = Main \/ (l.poe /\ g < Pcie)
             x == IF reads THEN "ctrl" ELSE IF l.poe THEN "csel" ELSE "fin"
  <2>1. GetPOEConfig_1(p) => Reject(p) \/ Continue(p, x)
    BY DEF GetPOEConfig_1
  <2>2. x \in {"ctrl", "csel", "fin"}
    OBVIOUS
  <2> HIDE DEF x
  <2>3. GetPOEConfig_1(p) => pc[p] = "args"
    BY DEF GetPOEConfig_1, Counted1, At
  <2>4. QED BY <1>1, <1>2, <2>1, <2>2, <2>3
<1>6. ~GetPOEConfig(p)
  BY DEF GetPOEConfig, Counted1, At, CfgOps
<1>7. NoHardware(p) => Fine /\ pc'[p] = "idle"
  BY <1>1 DEF NoHardware
<1>8. Configs(p) => GetPOEConfigs_1(p) \/ GetPOEConfig_1(p)
  BY <1>6 DEF Configs, GetPOEConfigNI, GetPOEConfigsNI_1, GetPOEConfigNI_1
<1>9. QED BY <1>4, <1>5, <1>7, <1>8 DEF Fine

\* A call that ends without an error has told of each port.
LEMMA CfgDone ==
    ASSUME NEW p, Known(p), Firm(p), Layout(lib[p]), ListTold(op[p], lib[p], call[p], "fin", FALSE, ctrl, port, poecfg)
    PROVE  CfgSaid(p)
<1>1. call[p].left = {}
  BY DEF ListTold
<1>2. ASSUME NEW i \in DOMAIN call[p].ids
      PROVE  call[p].val[i] = IF Fed(lib[p], call[p].ids[i]) THEN "on" ELSE "off"
  <2>1. call[p].val[i] = Told1(lib[p], ctrl, port, call[p].ids[i])
    BY <1>1, <1>2 DEF ListTold
  <2>2. Fed(lib[p], call[p].ids[i]) <=> Feeds(lib[p], ctrl, port, call[p].ids[i])
    BY FedAs
  <2>3. QED BY <2>1, <2>2 DEF Told1
<1>3. QED BY <1>2 DEF CfgSaid, Ids

LEMMA CfgTurns ==
    ASSUME CountsInv, NEW p \in Procs, PoeShaped(p), OnPoe(p), Cut(p), Early(p), Firm(p), board' = board,
           PoeTurn(p), op[p] \in CfgOps, Located(p), cursor[p].get1 \in Range1(lib[p]), CfgWorking(p)
    PROVE  CfgWorking(p)' /\ (Done(p, CfgOps, "true")' => CfgSaid(p)')
<1> USE DEF PoeShaped, Shaped
<1> DEFINE l == lib[p]  m == lib'[p]
<1>1. op'[p] = op[p] /\ m \in {l, Detected(l)} /\ l \in Statics
  BY PoeMoves DEF PoeTurn, Calm
<1>2. m.bound = l.bound /\ m.cnt = l.cnt /\ m.poe = l.poe
  BY <1>1, DetectedKept
<1>3. (Known(p)' <=> Known(p)) /\ Layout(l) /\ (Known(p) <=> l.bound[0] = N)
  BY <1>2, CutLayout DEF Known
<1>4. ASSUME pc'[p] \in CfgPlaces /\ Known(p) =>
                 ListTold(op[p], l, call'[p], pc'[p], err'[p], ctrl', port', poecfg'),
             pc'[p] # "idle" \/ ret'[p] = "false"
      PROVE  CfgWorking(p)' /\ (Done(p, CfgOps, "true")' => CfgSaid(p)')
  <2>1. pc'[p] \in CfgPlaces /\ Known(p) =>
            ListTold(op[p], m, call'[p], pc'[p], err'[p], ctrl', port', poecfg')
    BY <1>2, <1>4, CfgSame
  <2> HIDE DEF m
  <2>2. CfgWorking(p)'
    BY <1>1, <1>3, <2>1 DEF CfgWorking, m
  <2>3. QED BY <1>4, <2>2 DEF Done
<1>5. CASE NoHardware(p) \/ Configs(p)
  <2>1. ASSUME Known(p), pc'[p] \in CfgPlaces
        PROVE  ListTold(op[p], l, call'[p], pc'[p], err'[p], ctrl', port', poecfg')
    <3>1. pc'[p] # "idle"
      BY <2>1 DEF CfgPlaces
    <3>2. pc[p] = "args" /\ (GetPOEConfigs_1(p) \/ GetPOEConfig_1(p))
      BY <1>5, <3>1, CfgEnds
    <3>3. CASE GetPOEConfigs_1(p)
      <4>1. PICK ids, cur : ListArgs(p, "GetPOEConfigs_1", "get1", ids, cur, "csel")
        BY <3>3 DEF GetPOEConfigs_1, Repeating
      <4>2. op[p] = "GetPOEConfigs_1"
        BY <4>1 DEF ListArgs, Counted1, At
      <4>3. QED BY <1>3, <3>1, <4>1, <4>2, CfgBegun
    <3>4. CASE GetPOEConfig_1(p)
      <4>1. op[p] = "GetPOEConfig_1"
        BY <3>4 DEF GetPOEConfig_1, Counted1, At
      <4>2. op[p] \in PoeOps
        BY PoeOpsAre DEF CfgOps, ConfigGets
      <4>3. call[p].ids \in Lists
        BY <3>2, <4>2 DEF Early, PoeStarts
      <4>4. QED BY <1>3, <2>1, <3>1, <3>4, <4>1, <4>3, CfgOne
    <3>5. QED BY <3>2, <3>3, <3>4
  <2>2. QED BY <1>4, <1>5, <2>1, CfgEnds
<1>6. CASE Fin(p)
  <2>1. pc[p] = "fin" /\ pc'[p] = "idle" /\ lib' = lib /\ ctrl' = ctrl /\ port' = port
        /\ IF err[p] THEN ret'[p] = "false" ELSE call' = call
    BY <1>6 DEF Fin, Reject, Return, Goto, KeepCall
  <2>2. CfgWorking(p)'
    BY <2>1 DEF CfgWorking, CfgPlaces
  <2>3. CASE err[p]
    BY <2>1, <2>2, <2>3 DEF Done
  <2>4. CASE ~err[p]
    <3>1. ASSUME Known(p) PROVE CfgSaid(p)
      <4>1. err[p] = FALSE
        BY <2>4
      <4>2. ListTold(op[p], l, call[p], "fin", FALSE, ctrl, port, poecfg)
        BY <2>1, <3>1, <4>1 DEF CfgWorking, CfgPlaces
      <4>3. QED BY <1>3, <3>1, <4>2, CfgDone
    <3>2. CfgSaid(p)
      BY <3>1 DEF CfgSaid
    <3>3. QED BY <1>3, <2>1, <2>2, <2>4, <3>2 DEF CfgSaid, Ids, Fed
  <2>5. QED BY <2>3, <2>4
<1>7. ASSUME NEW ok \in BOOLEAN, ReadCtrlGet(p, ok) \/ SelectCfg(p, ok) \/ ReadCfg(p, ok)
      PROVE  CfgWorking(p)' /\ (Done(p, CfgOps, "true")' => CfgSaid(p)')
  <2>1. pc'[p] \in {"csel", "cget", "fin"} /\ pc[p] \in CfgPlaces
    BY <1>7 DEF ReadCtrlGet, SelectCfg, ReadCfg, Onward, Continue, Goto, CfgPlaces
  <2>2. ASSUME Known(p)
        PROVE  ListTold(op[p], l, call'[p], pc'[p], err'[p], ctrl', port', poecfg')
    <3>1. ListTold(op[p], l, call[p], pc[p], err[p], ctrl, port, poecfg)
      BY <2>1, <2>2 DEF CfgWorking
    <3>2. CASE ReadCtrlGet(p, ok)
      <4>1. pc[p] = "ctrl"
        BY <3>2 DEF ReadCtrlGet
      <4>2. QED BY <1>3, <3>1, <3>2, <4>1, CfgSwitch
    <3>3. CASE SelectCfg(p, ok)
      <4>1. pc[p] = "csel"
        BY <3>3 DEF SelectCfg
      <4>2. QED BY <1>3, <3>1, <3>3, <4>1, CfgAsked
    <3>4. CASE ReadCfg(p, ok)
      <4>1. pc[p] = "cget"
        BY <3>4 DEF ReadCfg
      <4>2. QED BY <1>3, <3>1, <3>4, <4>1, CfgRead
    <3>5. QED BY <1>7, <3>2, <3>3, <3>4
  <2>3. pc'[p] # "idle"
    BY <2>1
  <2>4. QED BY <1>4, <2>2, <2>3
<1>8. op[p] \notin PoeInfos \cup StatGets \cup PoeVerifies \cup {"SetPOEConfigs_1", "SetPOEConfig_1", "SetPOEConfig"}
  BY DEF CfgOps, PoeInfos, StatGets, PoeVerifies
<1>9. NoHardware(p) \/ Fin(p) \/ GetTurn(p)
  BY <1>8, PoeTurns DEF StatTurn, ListTurn, SingleTurn, AllTurn, BuzTurn
<1>10. QED BY <1>5, <1>6, <1>7, <1>9 DEF GetTurn

\* The cursor of these calls stays on an id that counting gave, whichever call moves it.
LEMMA CfgCursor ==
    ASSUME NEW p, PoeShaped(p), OnPoe(p), PoeTurn(p), Located(p), Layout(lib[p]),
           cursor[p].get1 \in Range1(lib[p])
    PROVE  Located(p)' /\ cursor'[p].get1 \in Range1(lib[p])
<1> USE DEF PoeShaped, Shaped
<1> DEFINE l == lib[p]  from == cursor[p].get1  Fine == cursor'[p].get1 \in Range1(l)
<1>1. ASSUME NEW n \in Range1(l), MoveCursor(p, "get1", n) PROVE Fine
  <2>1. cursor'[p]["get1"] = n
    BY <1>1, CursorMoved DEF Cursors
  <2>2. QED BY <2>1
<1>2. cursor' = cursor => Fine
  OBVIOUS
<1>3. ~NoPorts(l) => Next1(l, from) - 1 \in Range1(l)
  BY NextPort
<1> HIDE DEF Fine
<1>4. ASSUME NEW o, NEW ids, NEW cur, ~NoPorts(l) => cur \in Range1(l), ListArgs(p, o, "get1", ids, cur, "csel")
      PROVE  Fine
  <2>1. cursor' = cursor \/ (~NoPorts(l) /\ MoveCursor(p, "get1", cur))
    BY <1>4 DEF ListArgs, Reject
  <2>2. QED BY <1>1, <1>2, <1>4, <2>1
<1>5. GetPOEConfigs_1(p) => Fine
  <2>1. GetPOEConfigs_1(p) =>
            \/ ListArgs(p, "GetPOEConfigs_1", "get1", call[p].ids, from, "csel")
            \/ ListArgs(p, "GetPOEConfigs_1", "get1", Fill(l, call[p].ids, from), Next1(l, from) - 1, "csel")
    <3>1. cursor[p]["get1"] = from
      OBVIOUS
    <3>2. QED BY <3>1 DEF GetPOEConfigs_1, Repeating
  <2>2. QED BY <1>3, <1>4, <2>1
<1>6. GetPOEConfig_1(p) => Fine
  <2> DEFINE id == call[p].ids[1]  new == IF id = 0 THEN Next1(l, from) ELSE id
             cur == IF id = 0 THEN new - 1 ELSE from
  <2>1. GetPOEConfig_1(p) => cursor' = cursor \/ (~NoPorts(l) /\ MoveCursor(p, "get1", cur))
    BY DEF GetPOEConfig_1, Reject
  <2>2. ~NoPorts(l) => cur \in Range1(l)
    BY <1>3
  <2> HIDE DEF cur
  <2>3. QED BY <1>1, <1>2, <2>1, <2>2
<1>7. GetTurn(p) => Fine
  <2>1. GetPOEConfig(p) => cursor' = cursor
    BY DEF GetPOEConfig, KeepCall
  <2>2. ASSUME NEW ok \in BOOLEAN, ReadCtrlGet(p, ok) \/ SelectCfg(p, ok) \/ ReadCfg(p, ok)
        PROVE  cursor' = cursor
    BY <2>2 DEF ReadCtrlGet, SelectCfg, ReadCfg, Onward, KeepCall
  <2>3. QED
    BY <1>2, <1>5, <1>6, <2>1, <2>2 DEF GetTurn, Configs, GetPOEConfigNI, GetPOEConfigsNI_1, GetPOEConfigNI_1
<1>8. NoHardware(p) \/ Fin(p) => cursor' = cursor
  BY DEF NoHardware, Fin, Reject, KeepCall
<1>9. CASE op[p] \in ConfigGets
  <2>1. op[p] \notin PoeInfos \cup StatGets \cup PoeVerifies \cup {"SetPOEConfigs_1", "SetPOEConfig_1", "SetPOEConfig"}
    BY <1>9 DEF ConfigGets, PoeInfos, StatGets, PoeVerifies
  <2>2. NoHardware(p) \/ Fin(p) \/ GetTurn(p)
    BY <2>1, PoeTurns DEF StatTurn, ListTurn, SingleTurn, AllTurn, BuzTurn
  <2>3. {"get1"} \in SUBSET Cursors
    BY DEF Cursors
  <2>4. Located(p)'
    BY <1>9, <2>3, CursorTurns, CursorPlaced
  <2>5. QED BY <1>2, <1>7, <1>8, <2>2, <2>4 DEF Fine
<1>10. CASE op[p] \notin ConfigGets
  <2>1. Turns1(p, {"info", "info1"}) \/ Turns1(p, {"set1", "stat", "stat1"})
    BY <1>10, CursorTurns
  <2>2. {"info", "info1"} \in SUBSET Cursors /\ {"set1", "stat", "stat1"} \in SUBSET Cursors
        /\ "get1" \in Cursors \ {"info", "info1"} /\ "get1" \in Cursors \ {"set1", "stat", "stat1"}
    BY DEF Cursors
  <2>3. Located(p)' /\ cursor'[p]["get1"] = cursor[p]["get1"]
    BY <2>1, <2>2, CursorPlaced
  <2>4. QED BY <2>3
<1>11. QED BY <1>9, <1>10

\* Bounds once known stay; the ones not known yet leave room for the first id.
LEMMA BoundsKept ==
    ASSUME PoeInv, NEW p, Moves(p), Known(p) PROVE lib'[p].bound = lib[p].bound
<1> USE DEF Moves
<1>1. PoeShaped(p) /\ PortShaped(p) /\ RegShaped /\ Sized(p) /\ CountsInv /\ lib[p] \in Statics
  BY LibShapes DEF PoeInv, WayInv, LibInv, CountsInv, Types
<1>2. lib'[p] \in {lib[p], Detected(lib[p])} => lib'[p].bound = lib[p].bound
  BY <1>1, DetectedKept
<1>3. AskCounts(p) => lib'[p].bound = lib[p].bound
  BY <1>1, KnownFixed DEF Fixed
<1>4. Begin(p) => lib' = lib
  BY <1>1, Zenon DEF Begin, Enter
<1>5. Request(p) => lib' = lib
  BY Zenon DEF Request, Refuse, Enter
<1>6. QED
  BY <1>1, <1>2, <1>3, <1>4, <1>5, PoeMoves, PortMoves DEF Calm

LEMMA RangeKept ==
    ASSUME PoeInv, PoeInv', NEW p, Moves(p), NEW c \in Range1(lib[p])
    PROVE  c \in Range1(lib[p])'
<1>1. /\ p \in Procs /\ CountsInv /\ Cut(p) /\ Cut(p)' /\ N \in Nat \ {0}
  BY CountsAssumption DEF PoeInv, WayInv, LibInv, Moves
<1>2. CASE Known(p)
  <2>1. lib'[p].bound = lib[p].bound
    BY <1>2, BoundsKept
  <2>2. QED BY <2>1 DEF Range1
<1>3. CASE ~Known(p)
  <2>1. c = 0
    <3>1. lib[p].bound[0] # N
      BY <1>1, <1>3, CutLayout
    <3>2. QED BY <3>1 DEF Range1
  <2>2. CASE Known(p)'
    <3>1. Bounds(lib[p])'[3] \in {N, 6 * N}
      BY DEF Bounds, Groups
    <3>2. lib'[p].bound[3] = Bounds(lib[p])'[3]
      BY <1>1, <2>2 DEF Cut, Groups
    <3>3. 0 \in 0..lib'[p].bound[3] - 1
      BY <1>1, <3>1, <3>2
    <3>4. QED BY <1>1, <2>1, <3>3 DEF Range1
  <2>3. CASE ~Known(p)'
    <3>1. lib'[p].bound[0] = 0
      BY <1>1, <2>3 DEF Cut, Groups
    <3>2. QED BY <1>1, <2>1, <3>1 DEF Range1
  <2>4. QED BY <2>2, <2>3
<1>4. QED BY <1>2, <1>3

LEMMA ConfigsStep ==
    ASSUME PoeInv, PoeInv', NEW p, Moves(p), Firm(p), CfgKnown(p) PROVE CfgKnown(p)'
<1>1. /\ WayInv /\ p \in Procs /\ OnPoe(p) /\ Cut(p) /\ Early(p) /\ CountsInv /\ PoeShaped(p) /\ board' = board
      /\ Located(p) /\ cursor[p].get1 \in Range1(lib[p]) /\ CfgWorking(p)
  BY LibShapes DEF PoeInv, WayInv, LibInv, Moves, Mine, CfgKnown
<1>2. Layout(lib[p])
  BY <1>1, CutLayout
<1>3. ASSUME Located(p)', cursor'[p].get1 \in Range1(lib[p]),
             CfgWorking(p)' /\ (Done(p, CfgOps, "true")' => CfgSaid(p)')
      PROVE  CfgKnown(p)'
  <2> DEFINE c == cursor'[p].get1
  <2>1. c \in Range1(lib[p])'
    <3>1. c \in Range1(lib[p])
      BY <1>3
    <3> HIDE DEF c
    <3>2. QED BY <3>1, RangeKept
  <2>2. QED BY <1>3, <2>1 DEF CfgKnown
<1>4. CASE PoeTurn(p) /\ op[p] \in CfgOps
  BY <1>1, <1>2, <1>3, <1>4, CfgTurns, CfgCursor
<1>5. CASE PoeTurn(p) /\ op[p] \notin CfgOps
  <2>1. op'[p] \notin CfgOps
    BY <1>1, <1>5, OnPoeTurns
  <2>2. CfgWorking(p)' /\ ~Done(p, CfgOps, "true")'
    BY <2>1 DEF CfgWorking, Done
  <2>3. QED BY <1>1, <1>2, <1>3, <1>5, <2>2, CfgCursor
<1>6. CASE ~PoeTurn(p)
  <2>1. PoeAside(p)
    BY <1>1, <1>6, PoeElsewhere
  <2>2. op'[p] \in CfgOps => pc'[p] \notin CfgPlaces /\ (pc'[p] = "idle" => ret'[p] # "true")
    BY <2>1, PoeOpsAre DEF PoeAside, PoeStarts, Counting, Behind, CfgPlaces, CfgOps, ConfigGets
  <2>3. CfgWorking(p)' /\ ~Done(p, CfgOps, "true")'
    BY <2>2 DEF CfgWorking, Done
  <2>4. Located(p)' /\ cursor'[p].get1 = cursor[p].get1
    BY <1>1, <2>1 DEF PoeAside, Located
  <2>5. QED BY <1>1, <1>3, <2>3, <2>4
<1>7. QED BY <1>4, <1>5, <1>6

ConfigsInv == SetsInv /\ (Alone => \A p \in Who[scene] : CfgKnown(p))

LEMMA ConfigsInductive == ConfigsInv /\ [LibNext]_libVars => ConfigsInv'
<1> SUFFICES ASSUME ConfigsInv, [LibNext]_libVars PROVE ConfigsInv'
  OBVIOUS
<1>1. SetsInv' /\ SetsInv /\ PoeInv /\ PoeInv' /\ LibInv /\ WayInv
  BY SetsInductive DEF ConfigsInv, SetsInv, NamedInv, PoeInv, WayInv
<1>2. CASE LibNext
  <2>1. PICK p \in Who[scene] : Moves(p)
    BY <1>1, <1>2, Mover
  <2>2. scene' = scene /\ p \in Procs
    BY <2>1 DEF Moves
  <2>3. SUFFICES ASSUME Alone PROVE CfgKnown(p)'
    <3>1. Alone' <=> Alone
      BY <2>2 DEF Alone
    <3>2. Alone => Who[scene] = {p}
      BY <2>1 DEF Alone
    <3>3. QED BY <1>1, <2>2, <3>1, <3>2 DEF ConfigsInv
  <2>4. Firm(p) /\ CfgKnown(p)
    BY <2>1, <2>3 DEF ConfigsInv, SetsInv, FirmWay
  <2>5. QED BY <1>1, <2>1, <2>4, ConfigsStep
<1>3. CASE UNCHANGED libVars
  <2>1. ASSUME NEW p, CfgKnown(p) PROVE CfgKnown(p)'
    <3>1. CfgWorking(p)'
      BY <1>3, <2>1 DEF libVars, CfgKnown, CfgWorking, Known
    <3>2. Done(p, CfgOps, "true")' => CfgSaid(p)'
      BY <1>3, <2>1 DEF libVars, CfgKnown, CfgSaid, Done, Fed, Ids, Known
    <3>3. Located(p)' /\ cursor'[p].get1 \in Range1(lib[p])'
      BY <1>3, <2>1 DEF libVars, CfgKnown, Located, Range1
    <3>4. QED BY <3>1, <3>2, <3>3 DEF CfgKnown
  <2>2. QED BY <1>1, <1>3, <2>1 DEF ConfigsInv, libVars, Alone
<1>4. QED BY <1>2, <1>3

LEMMA ConfigsInitial == LibInit => ConfigsInv
<1> SUFFICES ASSUME LibInit PROVE \A p \in Who[scene] : CfgKnown(p)
  BY SetsInitial DEF ConfigsInv
<1>1. Who[scene] \in SUBSET Procs /\ N \in Nat \ {0}
  BY SetsInitial, CountsAssumption DEF SetsInv, NamedInv, PoeInv, WayInv, LibInv, CountsInv, Types
<1>2. ASSUME NEW p \in Who[scene] PROVE CfgKnown(p)
  <2>1. /\ p \in Procs /\ op[p] = "none" /\ lib[p] = Unknown
        /\ cursor[p] = [c \in Cursors |-> 0] /\ p \in DOMAIN cursor
    BY <1>1, <1>2 DEF LibInit, PoeInit, CountsInit
  <2>2. cursor[p]["get1"] = 0
    BY <2>1 DEF Cursors
  <2>3. lib[p].bound[0] = 0
    BY <2>1 DEF Unknown, Groups
  <2>4. cursor[p].get1 \in Range1(lib[p])
    BY <1>1, <2>2, <2>3 DEF Range1
  <2>5. QED BY <2>1, <2>4 DEF CfgKnown, Located, CfgWorking, Done, CfgOps
<1>3. QED BY <1>2

\* A program alone with the AIC that EkDMCiSMBGetPOEConfigs_1 or GetPOEConfig_1 (DMCI.c) has
\* answered has been told of every port of its array, the ones found for it in turn too,
\* whether the board feeds it: by the switch of the main group and by the ports of its group.
THEOREM LibConfigsTold == LibSpec => []ConfigTruth
<1>1. ConfigsInv => ConfigTruth
  <2> SUFFICES ASSUME ConfigsInv, Alone, NEW p \in Procs, Done(p, CfgOps, "true") PROVE CfgSaid(p)
    BY Zenon DEF ConfigTruth, CfgSaid, CfgOps
  <2>1. p \in Who[scene]
    BY DEF ConfigsInv, SetsInv, NamedInv, PoeInv, WayInv, Done, CfgOps
  <2>2. QED BY <2>1 DEF ConfigsInv, CfgKnown
<1>2. QED BY <1>1, ConfigsInductive, ConfigsInitial, PTL DEF LibSpec

\* What the library tells a program alone with the AIC of the ports is so: how they are set,
\* which there are and what they draw.
THEOREM LibPoeTold == LibSpec => []PoeTold
<1>1. ConfigTruth /\ InfoTruth /\ StatTruth => PoeTold
  BY DEF PoeTold
<1>2. QED BY <1>1, LibConfigsTold, LibInfosTold, LibStatsTold, PTL
=============================================================================
