------------------------------ MODULE AicSensors ------------------------------
(***************************************************************************)
(* The watchdogs, fans and voltage monitors of the AIC, as EKit_L/DMCI.c   *)
(* offers them.  They add three things to the ports of AicPorts: values    *)
(* the program remembers across calls, calls of one transfer for each id   *)
(* where a failure is noted and the loop goes on, and a call that makes a  *)
(* transfer after it has given the AIC back.                               *)
(***************************************************************************)
EXTENDS AicPorts

Monitors == 2      \* how many the AIC has, at most 12 in the code
Duties == {"slow", "fast", "curve"}   \* the same at all four levels, or rising

Remember(p, field, v) == memo' = [memo EXCEPT ![p][field] = v]

-----------------------------------------------------------------------------
(* Watchdogs.  A value is seconds, 0 when the watchdog is off.             *)

GetPowerupWDTConfig(p) == Plain(p, "GetPowerupWDTConfig", "wget")
GetPowerupWDTConfigNI(p) == GetPowerupWDTConfig(p)
SetPowerupWDTConfig(p) == Plain(p, "SetPowerupWDTConfig", "wput")
SetPowerupWDTConfigNI(p) == Plain(p, "SetPowerupWDTConfigNI", "wput")
GetRuntimeWDTConfig(p) == Plain(p, "GetRuntimeWDTConfig", "wget")
GetRuntimeWDTConfigNI(p) == GetRuntimeWDTConfig(p)
SetRuntimeWDTConfig(p) == Plain(p, "SetRuntimeWDTConfig", "wput")
SetRuntimeWDTConfigNI(p) == SetRuntimeWDTConfig(p)
GetRuntimeWDTStat(p) == Plain(p, "GetRuntimeWDTStat", "wget")
GetRuntimeWDTStatNI(p) == GetRuntimeWDTStat(p)

Timer(o) == IF o \in {"GetPowerupWDTConfig", "SetPowerupWDTConfig", "SetPowerupWDTConfigNI"}
            THEN "pwrup" ELSE "run"

\* The answer to a get, the register read as w: the value of a watchdog that
\* is off is the last one known.
Told(p, w) ==
    LET f == Timer(op[p])
        known == IF w > 0 /\ (f = "pwrup" \/ memo[p].run = 0) THEN w ELSE memo[p][f]
    IN /\ Remember(p, f, known)
       /\ Give(p, <<1>>, <<[on |-> w > 0, wdt |-> IF op[p] = "GetRuntimeWDTStat" THEN w ELSE known]>>)

ReadWDT(p, ok) ==
    LET w == reg[Timer(op[p])]
    IN /\ pc[p] = "wget" /\ Read(ok) /\ UNCHANGED <<lib, reg, next>>
       /\ CASE ~ok -> Fail(p) /\ UNCHANGED memo
            [] ok /\ op[p] = "GetPowerupWDTConfig" /\ w \in 1..MinWDT - 1 ->
                 /\ Goto(p, "wfix") /\ UNCHANGED <<op, ret, err, memo>>   \* EkSMBusBlockRelease
                 /\ task' = [task EXCEPT ![p].buf = w]
            [] OTHER -> Told(p, w)

\* A value below the least is raised, after EkSMBusBlockRelease.
RaiseWDT(p, ok) ==
    /\ pc[p] = "wfix" /\ Read(ok) /\ UNCHANGED <<lib, next>>
    /\ reg' = IF ok THEN [reg EXCEPT !.pwrup = MinWDT] ELSE reg
    /\ Told(p, IF ok THEN MinWDT ELSE task[p].buf)

\* (mutant) the value set is not remembered.
WriteWDTBare(p, ok) ==
    LET s == task[p].set[1]
    IN /\ pc[p] = "wput" /\ Read(ok) /\ UNCHANGED <<lib, next, memo>>
       /\ reg' = IF ok THEN [reg EXCEPT ![Timer(op[p])] = IF s.on THEN s.wdt ELSE 0] ELSE reg
       /\ IF ok THEN Give(p, <<1>>, <<>>) ELSE Fail(p)

WriteWDT(p, ok) ==
    LET s == task[p].set[1]  f == Timer(op[p])
    IN /\ pc[p] = "wput" /\ Read(ok) /\ UNCHANGED <<lib, next>>
       /\ reg' = IF ok THEN [reg EXCEPT ![f] = IF s.on THEN s.wdt ELSE 0] ELSE reg
       /\ memo' = IF ok /\ s.on THEN [memo EXCEPT ![p][f] = s.wdt] ELSE memo
       /\ IF ok THEN Give(p, <<1>>, <<>>) ELSE Fail(p)

-----------------------------------------------------------------------------
(* One transfer for each id.                                               *)

\* The duty of a fan at level 0 or 1 of four: level 1 is what is told, but in
\* the NI form of one call level 0.
Level(d, k) == IF d # "curve" THEN d ELSE IF k = 0 THEN "low" ELSE "mid"
Sensed(o, i) ==
    CASE o \in {"GetFanStats", "GetFanStat", "GetHWMonStats", "GetHWMonStat"} -> [stat |-> i]
      [] OTHER -> [pwm |-> Level(reg.pwm[i], IF o = "GetFanConfigsNI" THEN 0 ELSE 1)]

AtLast(p) == task[p].at = Len(task[p].ids)
Step(p, l) == Continue(p, l) /\ task' = [task EXCEPT ![p].at = @ + 1]

\* (mutant) the mode is that of the place in the list, not of the fan there.
EachByPlace(p, ok) ==
    LET t == task[p]
        sensed == Sensed(op[p], t.ids[t.at])
        val == Append(t.val, IF t.buf = None \/ ~ok THEN sensed
                             ELSE [auto |-> t.buf.auto[t.at], pwm |-> sensed.pwm])
    IN /\ pc[p] = "each" /\ Read(ok) /\ UNCHANGED lib /\ KeepPorts
       /\ CASE ~AtLast(p) -> /\ Continue(p, "each") /\ SetErr(p, err[p] \/ ~ok)
                           /\ task' = [task EXCEPT ![p].val = val, ![p].at = @ + 1]
            [] AtLast(p) /\ (err[p] \/ ~ok) -> Fail(p)
            [] OTHER -> Give(p, t.ids, val)

\* With an AICCFG word read before, the answer has the fan's mode too.
Each(p, ok) ==
    LET t == task[p]  i == t.ids[t.at]
        sensed == Sensed(op[p], i)
        val == Append(t.val, IF t.buf = None \/ ~ok THEN sensed
                             ELSE [auto |-> t.buf.auto[i], pwm |-> sensed.pwm])
    IN /\ pc[p] = "each" /\ Read(ok) /\ UNCHANGED lib /\ KeepPorts
       /\ CASE ~AtLast(p) -> /\ Continue(p, "each") /\ SetErr(p, err[p] \/ ~ok)
                           /\ task' = [task EXCEPT ![p].val = val, ![p].at = @ + 1]
            [] AtLast(p) /\ (err[p] \/ ~ok) -> Fail(p)
            [] OTHER -> Give(p, t.ids, val)

-----------------------------------------------------------------------------
(* Fans.  A fan follows the temperature, by the mode bits of AICCFG, or     *)
(* turns at a duty of its own.  In a set each entry has the mode, "auto",  *)
(* "manual", or "keep" where the caller gives no modes, and a duty.        *)

NewForm == {"SetFanConfigs_1", "SetFanConfigsNI_1", "SetFanConfig_1"}

GetFanInfos(p) == InfoList(p, "GetFanInfos", "fan", "faninfo")
GetFanInfosNI(p) == GetFanInfos(p)
GetFanInfo(p) == InfoOne(p, "GetFanInfo", "fan", "faninfo")
GetFanInfoNI(p) == GetFanInfo(p)
GetFanConfigs(p) == GetList(p, "GetFanConfigs", "fan", "fanget", "each")
GetFanConfigsNI(p) == GetList(p, "GetFanConfigsNI", "fan", "fanget", "each")
GetFanConfig(p) == One(p, "GetFanConfig", "fan", "fanget", "each", TRUE)
GetFanConfigNI(p) == One(p, "GetFanConfigNI", "fan", "fanget", "deaf", TRUE)
GetFanStats(p) == GetList(p, "GetFanStats", "fan", "fanstat", "each")
GetFanStatsNI(p) == GetFanStats(p)
GetFanStat(p) == One(p, "GetFanStat", "fan", "fanstat", "each", TRUE)
GetFanStatNI(p) == GetFanStat(p)

\* The sets share the cursor of the gets.
SetFanConfigs(p) == GetList(p, "SetFanConfigs", "fan", "fanget", "fcfg")
SetFanConfigsNI(p) == GetList(p, "SetFanConfigsNI", "fan", "fanget", "fcfg")
SetFanConfig(p) == One(p, "SetFanConfig", "fan", "fanget", "fcfg", TRUE)
SetFanConfigNI(p) == SetFanConfig(p)

GetFanConfigs_1(p) == GetList(p, "GetFanConfigs_1", "fan", "fanget", "fmode")
GetFanConfigsNI_1(p) == GetFanConfigs_1(p)

\* The id is not compared with the number of fans.
GetFanConfig_1(p) ==
    LET n == lib[p].fan  id == task[p].ids[1]
    IN /\ Ready(p, "GetFanConfig_1")
       /\ IF n = 0 THEN Fail(p) /\ UNCHANGED next
          ELSE /\ Transfer(p, <<OneOf(id, next[p]["fanget"])>>, "fmode")
               /\ Turn(p, "fanget", MovedOne(id, n, next[p]["fanget"]))
GetFanConfigNI_1(p) == GetFanConfig_1(p)
SetFanConfigs_1(p) == GetList(p, "SetFanConfigs_1", "fan", "fanget", "fcfg")
SetFanConfigsNI_1(p) == GetList(p, "SetFanConfigsNI_1", "fan", "fanget", "fcfg")
SetFanConfig_1(p) == One(p, "SetFanConfig_1", "fan", "fanget", "fcfg", TRUE)
SetFanConfigNI_1(p) == SetFanConfig_1(p)

\* The answer's length is compared with another command's, so it never fits.
ReadFanDeaf(p, ok) ==
    /\ pc[p] = "deaf" /\ Read(ok) /\ UNCHANGED lib /\ KeepPorts /\ Fail(p)

ReadFanMode(p, ok) ==
    /\ pc[p] = "fmode" /\ Read(ok) /\ UNCHANGED lib /\ KeepPorts
    /\ Continue(p, "each") /\ SetErr(p, ~ok)
    /\ task' = IF ok THEN [task EXCEPT ![p].buf = reg.aiccfg] ELSE task

\* The mode bits of the fans named put into the word w.
Modes(p, w) ==
    LET t == task[p]
        Named(d) == {i \in DOMAIN t.ids : t.ids[i] = d /\ t.set[i].auto # "keep"}
    IN [w EXCEPT !.auto = [d \in DOMAIN w.auto |->
           IF Named(d) = {} THEN w.auto[d]
           ELSE op[p] \in NewForm
                /\ t.set[CHOOSE i \in Named(d) : \A j \in Named(d) : j <= i].auto = "auto"]]

Zeroed == [mode |-> 0, timer |-> 0, auto |-> [d \in DOMAIN reg.aiccfg.auto |-> TRUE]]

\* A failed read is noted and the fans set all the same; the NI forms on a list
\* even write the modes back, put into a word of zeroes.
ReadFanWord(p, ok) ==
    LET new == Modes(p, IF ok THEN reg.aiccfg ELSE Zeroed)
        writes == /\ ok \/ op[p] \in {"SetFanConfigsNI", "SetFanConfigsNI_1"}
                  /\ task[p].set[1].auto # "keep"
    IN /\ pc[p] = "fcfg" /\ Read(ok) /\ UNCHANGED lib /\ KeepPorts
       /\ SetErr(p, ~ok)
       /\ Continue(p, CASE writes -> "fwr"
                        [] ~writes /\ op[p] \in NewForm /\ task[p].set[1].auto # "keep" -> "ftrig"
                        [] OTHER -> "fpwm")
       /\ task' = [task EXCEPT ![p].buf = new]

WriteFanWord(p, ok) ==
    /\ pc[p] = "fwr" /\ Read(ok) /\ UNCHANGED <<lib, next, memo, task>>
    /\ reg' = IF ok THEN [reg EXCEPT !.aiccfg = task[p].buf] ELSE reg
    /\ SetErr(p, err[p] \/ ~ok)
    /\ Continue(p, IF op[p] \in NewForm THEN "ftrig" ELSE "fpwm")

\* The four temperatures are the same for all fans and never read back.
WriteFanTemperatures(p, ok) ==
    /\ pc[p] = "ftrig" /\ Read(ok) /\ UNCHANGED <<lib, reg, next, memo, task>>
    /\ SetErr(p, err[p] \/ ~ok) /\ Continue(p, "fpwm")

\* (mutant) only the last write decides.
WriteFanDutyLast(p, ok) ==
    LET t == task[p]  i == t.ids[t.at]
        curve == op[p] \in NewForm /\ t.set[t.at].auto = "auto"
    IN /\ pc[p] = "fpwm" /\ Read(ok) /\ UNCHANGED <<lib, next, memo>>
       /\ reg' = IF ok THEN [reg EXCEPT !.pwm[i] = IF curve THEN "curve" ELSE t.set[t.at].pwm] ELSE reg
       /\ CASE ~AtLast(p) -> Step(p, "fpwm") /\ SetErr(p, ~ok)
            [] AtLast(p) /\ ~ok -> Fail(p)
            [] OTHER -> Give(p, t.ids, <<>>)

WriteFanDuty(p, ok) ==
    LET t == task[p]  i == t.ids[t.at]
        curve == IF op[p] = "SetFanConfigsNI_1" THEN t.buf.auto[i]
                 ELSE op[p] \in NewForm /\ t.set[t.at].auto = "auto"
        duty == IF curve THEN "curve" ELSE t.set[t.at].pwm
    IN /\ pc[p] = "fpwm" /\ Read(ok) /\ UNCHANGED <<lib, next, memo>>
       /\ reg' = IF ok THEN [reg EXCEPT !.pwm[i] = duty] ELSE reg
       /\ CASE ~AtLast(p) -> Step(p, "fpwm") /\ SetErr(p, err[p] \/ ~ok)
            [] AtLast(p) /\ (err[p] \/ ~ok) -> Fail(p)
            [] OTHER -> Give(p, t.ids, <<>>)

-----------------------------------------------------------------------------
(* Voltage monitors.  Their number is read once, in two transfers; the     *)
(* description of each by a write that selects it and a read.              *)

ReadGains(p, ok) ==
    /\ pc[p] = "gain" /\ Read(ok) /\ UNCHANGED lib /\ KeepPorts
    /\ IF ok THEN Continue(p, "type") /\ UNCHANGED <<err, task>> ELSE Fail(p)

ReadTypes(p, ok) ==
    /\ pc[p] = "type" /\ Read(ok) /\ UNCHANGED <<lib, reg, next>>
    /\ IF ok THEN /\ Remember(p, "mon", Monitors)
                  /\ Continue(p, "args") /\ UNCHANGED <<err, task>>
       ELSE Fail(p) /\ UNCHANGED memo

GetHWMonStats(p) == GetList(p, "GetHWMonStats", "mon", "monstat", "each")
GetHWMonStatsNI(p) == GetHWMonStats(p)
GetHWMonStat(p) == One(p, "GetHWMonStat", "mon", "monstat", "each", TRUE)
GetHWMonStatNI(p) == GetHWMonStat(p)

GetHWMonInfosA(p) ==
    LET n == memo[p].mon  ids == InTurn(task[p].ids, n, n, next[p]["moninfo"])
    IN /\ Ready(p, "GetHWMonInfosA")
       /\ Turn(p, "moninfo", Moved(task[p].ids, n, n, next[p]["moninfo"]))
       /\ Transfer(p, ids, "mon")
GetHWMonInfosANI(p) == GetHWMonInfosA(p)
GetHWMonInfosW(p) == GetHWMonInfosA(p)
GetHWMonInfosWNI(p) == GetHWMonInfosA(p)

GetHWMonInfoA(p) ==
    LET n == memo[p].mon  id == task[p].ids[1]
    IN /\ Ready(p, "GetHWMonInfoA")
       /\ Turn(p, "moninfo", MovedOne(id, n, next[p]["moninfo"]))
       /\ Transfer(p, <<OneOf(id, next[p]["moninfo"])>>, "mon")
GetHWMonInfoANI(p) == GetHWMonInfoA(p)
GetHWMonInfoW(p) == GetHWMonInfoA(p)
GetHWMonInfoWNI(p) == GetHWMonInfoA(p)

Tell(p, v) == task' = [task EXCEPT ![p].val = Append(@, v), ![p].at = @ + 1]

\* EkSMBusGetHWMonInfo for the next monitor of the array: a description that is
\* known, or an id without a monitor, needs no transfer.
NextMonitor(p) ==
    LET t == task[p]  i == t.ids[t.at]  d == memo[p].dscpt
    IN /\ pc[p] = "mon" /\ Quietly /\ UNCHANGED lib /\ KeepPorts
       /\ IF t.at > Len(t.ids) THEN Give(p, t.ids, t.val)
          ELSE /\ UNCHANGED err
               /\ IF i \in 1..memo[p].mon /\ d[i] = 0 THEN Continue(p, "msel") /\ UNCHANGED task
                  ELSE Continue(p, "mon") /\ Tell(p, IF i \in 1..memo[p].mon THEN d[i] ELSE 0)

SelectMonitor(p, ok) ==
    LET t == task[p]
    IN /\ pc[p] = "msel" /\ Read(ok) /\ UNCHANGED <<lib, next, memo>>
       /\ reg' = IF ok THEN [reg EXCEPT !.monsel = t.ids[t.at]] ELSE reg
       /\ SetErr(p, ~ok)
       /\ IF ok THEN Continue(p, "mread") /\ UNCHANGED task ELSE Continue(p, "mon") /\ Tell(p, 0)

\* (mutant) the answer is not compared with what was selected.
ReadMonitorAny(p, ok) ==
    LET t == task[p]  i == t.ids[t.at]
        new == IF ok /\ ~reg.blank THEN reg.monsel ELSE 0
    IN /\ pc[p] = "mread" /\ Read(ok) /\ UNCHANGED <<lib, reg, next>>
       /\ SetErr(p, ~ok) /\ Continue(p, "mon")
       /\ memo' = [memo EXCEPT ![p].dscpt[i] = new] /\ Tell(p, new)

\* The answer names the monitor it is about.  A blank description is not kept,
\* and asked for again by the next call.
ReadMonitor(p, ok) ==
    LET t == task[p]  i == t.ids[t.at]
        mine == ok /\ reg.monsel = i
        new == IF mine /\ ~reg.blank THEN reg.monsel ELSE 0
    IN /\ pc[p] = "mread" /\ Read(ok) /\ UNCHANGED <<lib, reg, next>>
       /\ SetErr(p, ~mine) /\ Continue(p, "mon")
       /\ memo' = [memo EXCEPT ![p].dscpt[i] = new] /\ Tell(p, new)

-----------------------------------------------------------------------------
Watchdogs(p) ==
    \/ GetPowerupWDTConfig(p) \/ GetPowerupWDTConfigNI(p) \/ SetPowerupWDTConfig(p)
    \/ SetPowerupWDTConfigNI(p) \/ GetRuntimeWDTConfig(p) \/ GetRuntimeWDTConfigNI(p)
    \/ SetRuntimeWDTConfig(p) \/ SetRuntimeWDTConfigNI(p)
    \/ GetRuntimeWDTStat(p) \/ GetRuntimeWDTStatNI(p)
FanGets(p) ==
    \/ GetFanInfos(p) \/ GetFanInfosNI(p) \/ GetFanInfo(p) \/ GetFanInfoNI(p)
    \/ GetFanConfigs(p) \/ GetFanConfigsNI(p) \/ GetFanConfig(p) \/ GetFanConfigNI(p)
    \/ GetFanStats(p) \/ GetFanStatsNI(p) \/ GetFanStat(p) \/ GetFanStatNI(p)
    \/ GetFanConfigs_1(p) \/ GetFanConfigsNI_1(p) \/ GetFanConfig_1(p) \/ GetFanConfigNI_1(p)
FanSets(p) ==
    \/ SetFanConfigs(p) \/ SetFanConfigsNI(p) \/ SetFanConfig(p) \/ SetFanConfigNI(p)
    \/ SetFanConfigs_1(p) \/ SetFanConfigsNI_1(p) \/ SetFanConfig_1(p) \/ SetFanConfigNI_1(p)
MonitorCalls(p) ==
    \/ GetHWMonStats(p) \/ GetHWMonStatsNI(p) \/ GetHWMonStat(p) \/ GetHWMonStatNI(p)
    \/ GetHWMonInfosA(p) \/ GetHWMonInfosANI(p) \/ GetHWMonInfosW(p) \/ GetHWMonInfosWNI(p)
    \/ GetHWMonInfoA(p) \/ GetHWMonInfoANI(p) \/ GetHWMonInfoW(p) \/ GetHWMonInfoWNI(p)
    \/ NextMonitor(p)

SensorStep(p) == \E ok \in BOOLEAN :
    \/ ReadWDT(p, ok) \/ RaiseWDT(p, ok) \/ WriteWDT(p, ok) \/ Each(p, ok)
    \/ ReadFanDeaf(p, ok) \/ ReadFanMode(p, ok) \/ ReadFanWord(p, ok)
    \/ WriteFanWord(p, ok) \/ WriteFanTemperatures(p, ok) \/ WriteFanDuty(p, ok)
    \/ ReadGains(p, ok) \/ ReadTypes(p, ok) \/ SelectMonitor(p, ok) \/ ReadMonitor(p, ok)

SensorAct(p) ==
    \/ Watchdogs(p) \/ FanGets(p) \/ FanSets(p) \/ MonitorCalls(p) \/ SensorStep(p)

-----------------------------------------------------------------------------
\* A set of fans as programs ask for one: it names a fan once, with a mode for
\* each or, in the one call that can go without modes, for none.
FanSetFits(o, ids, set) ==
    /\ ids # <<>> /\ \A i, j \in DOMAIN ids : ids[i] = ids[j] /\ ids[i] > 0 => i = j
    /\ \/ \A i \in DOMAIN ids : set[i].auto # "keep"
       \/ o = "SetFanConfigsNI_1" /\ \A i \in DOMAIN ids : set[i].auto = "keep"
FanSetsFit == \A s \in Scenes : \A r \in Requests[s] :
    r.op \in {"SetFanConfigs", "SetFanConfigsNI", "SetFanConfig"} \cup NewForm =>
        FanSetFits(r.op, r.ids, r.set)

\* A set of fans that returned TRUE has been obeyed for every fan of its list,
\* the mode and the duty, although up to four transfers may fail by themselves.
FansObey == Alone => \A p \in Procs :
    Ended(p, {"SetFanConfigs", "SetFanConfigsNI", "SetFanConfig"} \cup NewForm) =>
        \A i \in DOMAIN task[p].ids :
            LET d == task[p].ids[i]  s == task[p].set[i]
                auto == IF s.auto = "keep" THEN reg.aiccfg.auto[d]
                        ELSE op[p] \in NewForm /\ s.auto = "auto"
            IN /\ reg.aiccfg.auto[d] = auto
               /\ reg.pwm[d] = IF auto THEN "curve" ELSE s.pwm

\* What a program alone with the AIC is told of a list of fans is true of one
\* moment, when the call ends, although the modes and each fan take a transfer of
\* their own and what earlier calls left in the library's variables is still there.
FansTold == [][Alone => \A p \in Procs :
    pc[p] = "each" /\ pc'[p] = "idle" /\ ret'[p] = "true"
    /\ op[p] \in {"GetFanConfigs", "GetFanConfigs_1", "GetFanConfig", "GetFanConfig_1"} =>
        \A i \in DOMAIN task[p].ids :
            LET d == task[p].ids[i]  told == task'[p].val[i]
            IN /\ told.pwm = Level(reg.pwm[d], 1)
               /\ "auto" \in DOMAIN told => told.auto = reg.aiccfg.auto[d]
               /\ op[p] \in {"GetFanConfigs_1", "GetFanConfig_1"} => "auto" \in DOMAIN told]_portVars

\* A fan set that read AICCFG writes back every bit of it but those of its fans.
\* Without a read the NI forms on a list do not: see the README.
KeepsWord == \A p \in Procs :
    pc[p] = "fwr" /\ pc'[p] # "fwr"
    /\ (op[p] \in {"SetFanConfigsNI", "SetFanConfigsNI_1"} => ~err[p]) =>
        /\ reg'.aiccfg.mode = reg.aiccfg.mode /\ reg'.aiccfg.timer = reg.aiccfg.timer
        /\ \A d \in DOMAIN reg.aiccfg.auto :
               (\A i \in DOMAIN task[p].ids : task[p].ids[i] # d) =>
                   reg'.aiccfg.auto[d] = reg.aiccfg.auto[d]

\* A program alone with the AIC is told how its watchdog is set, whatever values
\* and failures went before: on or off, and the seconds when it is on.
DogsTold == Alone => \A p \in Procs :
    Ended(p, {"GetPowerupWDTConfig", "GetRuntimeWDTConfig"}) =>
        LET told == task[p].val[1]  w == reg[Timer(op[p])]
        IN told.on = (w > 0) /\ (told.on => told.wdt = w)

\* A program never keeps the description of one monitor as that of another, even
\* when another program selects one between its own two transfers.
DescriptionsOwn == \A p \in Procs : \A i \in 1..Monitors : memo[p].dscpt[i] \in {0, i}
=============================================================================
