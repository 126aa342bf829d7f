------------------------------- MODULE AicPorts -------------------------------
(***************************************************************************)
(* The devices the AIC switches, as EKit_L/DMCI.c offers them: COM port    *)
(* modes, mini PCIe and USB power, the LAN's power, the power mode.  Every *)
(* device has a few bits of a register that holds bits of its neighbours,  *)
(* so a call reads the register, changes its own bits and writes it back.  *)
(*                                                                         *)
(* A call takes an array of ids or one id.  An array with no id of a       *)
(* device, or the id 0, is answered for the next devices in turn, from a   *)
(* cursor the library keeps.  The NI form of a call takes arrays instead   *)
(* of a structure.  What a failed call leaves in the caller's arrays is    *)
(* not modelled; null pointers are not passed.                             *)
(***************************************************************************)
EXTENDS AicCounts, Sequences

CONSTANTS
    Requests,  \* for each scene the calls programs make: op, ids, values to set
    Registers  \* ... the registers the AIC may start with

PortCalls == COMCalls \cup USBCalls \cup FanCalls \cup HWMonCalls \cup MiniCalls \cup PlainCalls

\* The calls that are given one structure, not an array of them.
OneDevice == {"GetCOMInfo", "GetCOMConfig", "SetCOMConfig", "GetminiPCIeInfo", "GetminiPCIeConfig",
              "SetminiPCIeConfig", "GetminiPCIeStat", "GetUSBInfo", "GetUSBConfig", "SetUSBConfig",
              "GetFanInfo", "GetFanConfig", "GetFanConfigNI", "SetFanConfig", "GetFanConfig_1",
              "SetFanConfig_1", "GetFanStat", "GetHWMonInfoA", "GetHWMonStat"}

ASSUME PortsAssumption == \A s \in Scenes :
    /\ \A r \in Requests[s] : /\ r.op \in PortCalls /\ r.ids \in Seq(Nat)
                              /\ r.op \in OneDevice => Len(r.ids) = 1
    /\ \A r \in Registers[s] :
           /\ {"busgpio", "com", "mini", "usb", "aiccfg", "pwm", "pwrup", "run", "monsel"} \subseteq DOMAIN r
           /\ DOMAIN r.busgpio = {"lan", "spare"} /\ DOMAIN r.aiccfg = {"mode", "timer", "auto"}
           /\ 1..2 \subseteq DOMAIN r.com /\ 1..3 \subseteq DOMAIN r.mini /\ 1..2 \subseteq DOMAIN r.usb
           /\ 1..2 \subseteq DOMAIN r.pwm /\ 1..2 \subseteq DOMAIN r.aiccfg.auto

VARIABLES
    reg,       \* the AIC: its registers
    task,      \* for each program the arguments of its call and what it works on
    next,      \* for each program the cursors: COMInfoIdx, USBSetCfgIdx ...
    memo       \* for each program what it has cached besides the counts

portVars == <<scene, board, poeinfo, lib, pc, op, err, ret, faults,
              reg, task, next, memo>>

MaxMode == 4           \* MAX_COM_MODE - 1
MaxPower == 5          \* MAX_POWERMODE
Ignition == 4          \* POWERMODE_IGNITION
MinWDT == 2            \* MIN_POWERUPWDT and MIN_RUNTIMEWDT, 120 and 10 in the code

Turns == {"cominfo", "comget", "comset", "miniinfo", "miniget", "miniset",
          "ministat", "usbinfo", "usbget", "usbset", "faninfo", "fanget",
          "fanstat", "moninfo", "monstat"}

NoTask == [ids |-> <<>>, set |-> <<>>, buf |-> None, val |-> <<>>, at |-> 0]
NoMemo == [mon |-> 0, dscpt |-> <<0, 0>>, pwrup |-> MinWDT, run |-> 0]

PortsInit ==
    /\ CountsInit
    /\ reg \in Registers[scene]
    /\ task = [p \in Procs |-> NoTask]
    /\ next = [p \in Procs |-> [c \in Turns |-> 0]]
    /\ memo = [p \in Procs |-> NoMemo]

-----------------------------------------------------------------------------
(* Ids.                                                                    *)

Names(ids, n) == \E i \in DOMAIN ids : ids[i] \in 1..n
Room(ids, n) == IF Len(ids) < n THEN Len(ids) ELSE n

\* The array as it is when it names a device, else up to k in turn after c.
InTurn(ids, n, k, c) ==
    IF n = 0 \/ Names(ids, n) THEN ids ELSE [i \in 1..Room(ids, k) |-> 1 + ((c + i - 1) % n)]
Moved(ids, n, k, c) == IF n = 0 \/ Names(ids, n) THEN c ELSE (c + Room(ids, k)) % n

\* One id: a given one, or the next.
OneOf(id, c) == IF id = 0 THEN c + 1 ELSE id
MovedOne(id, n, c) == IF id = 0 THEN (c + 1) % n ELSE c

\* How many there are, as the program knows it.
CountOf(p, kind) == CASE kind = "com" -> Detected(lib[p]).com
                      [] kind = "mini" -> lib[p].mini
                      [] kind = "usb" -> lib[p].usb
                      [] kind = "fan" -> lib[p].fan
                      [] kind = "mon" -> memo[p].mon

-----------------------------------------------------------------------------
(* Steps all calls share.                                                  *)

Quietly == UNCHANGED <<board, poeinfo, faults>>
KeepPorts == UNCHANGED <<reg, next, memo>>

\* A call for infos that knows the count needs no transfer.
AtHand(l, o) == \/ o \in USBInfos \cup FanInfos /\ CountKnown(l, o)
                \/ o \in MiniInfos /\ l.mini > 0

\* The first transfer of a call.
EnterAt(p, o) ==
    LET l == lib[p]
    IN CASE o \in COMCalls -> CountEntry(l)
         [] AtHand(l, o) \/ (o \in USBCalls \cup FanCalls /\ l.det /\ l.id) -> "args"
         [] o \in HWMonCalls /\ memo[p].mon > 0 -> "args"
         [] OTHER -> IF l.id THEN FirstStep(o) ELSE "efcoid"

\* Refused before the bus is asked for.
Refused(o, set) == CASE o = "SetPowerConfig" -> set[1].mode > MaxPower
                     [] o \in {"SetPowerupWDTConfig", "SetRuntimeWDTConfig"} ->
                          set[1].on /\ set[1].wdt \in 1..MinWDT - 1
                     [] o = "SetPowerupWDTConfigNI" -> set[1].on /\ set[1].wdt = 0
                     [] OTHER -> FALSE

Refuse(p, o) ==
    /\ pc[p] = "idle"
    /\ op' = [op EXCEPT ![p] = o] /\ ret' = [ret EXCEPT ![p] = "false"]
    /\ SetErr(p, TRUE)
    /\ UNCHANGED <<board, poeinfo, lib, faults, pc>>

Request(p) ==
    \E r \in Requests[scene] :
        /\ IF Refused(r.op, r.set) THEN Refuse(p, r.op)
           ELSE Enter(p, r.op, EnterAt(p, r.op))
        /\ task' = [task EXCEPT ![p] = [NoTask EXCEPT !.ids = r.ids, !.set = r.set]]
        /\ KeepPorts

\* The counts are known: what the call o does with its arguments.
Ready(p, o) ==
    /\ pc[p] = "args" /\ op[p] = o /\ Quietly
    /\ Learn(p, IF o \in COMCalls THEN Detected(lib[p]) ELSE lib[p])
    /\ UNCHANGED <<reg, memo>>
Turn(p, c, k) == next' = [next EXCEPT ![p][c] = k]

Fail(p) == Return(p, FALSE) /\ task' = [task EXCEPT ![p] = NoTask]
Give(p, ids, val) ==
    /\ Return(p, TRUE)
    /\ task' = [task EXCEPT ![p] = [NoTask EXCEPT !.ids = ids, !.set = task[p].set, !.val = val]]
Transfer(p, ids, l) ==
    /\ Continue(p, l) /\ SetErr(p, FALSE)
    /\ task' = [task EXCEPT ![p].ids = ids, ![p].at = 1]

InfoList(p, o, kind, c) ==
    LET n == CountOf(p, kind)  ids == InTurn(task[p].ids, n, n, next[p][c])
    IN /\ Ready(p, o)
       /\ IF n = 0 THEN Fail(p) /\ UNCHANGED next
          ELSE /\ Turn(p, c, Moved(task[p].ids, n, n, next[p][c]))
               /\ Give(p, ids, [i \in DOMAIN ids |-> ids[i] \in 1..n])

InfoOne(p, o, kind, c) ==
    LET n == CountOf(p, kind)  id == task[p].ids[1]
    IN /\ Ready(p, o)
       /\ IF n = 0 THEN Fail(p) /\ UNCHANGED next
          ELSE /\ Turn(p, c, MovedOne(id, n, next[p][c]))
               /\ Give(p, <<OneOf(id, next[p][c])>>, <<OneOf(id, next[p][c]) \in 1..n>>)

\* A call on a list of devices goes on at step l; k: how many it fills in;
\* ok: what it asks of the ids and the values.
List(p, o, kind, c, k, l, ok(_)) ==
    LET n == CountOf(p, kind)  ids == InTurn(task[p].ids, n, k, next[p][c])
    IN /\ Ready(p, o)
       /\ Turn(p, c, Moved(task[p].ids, n, k, next[p][c]))
       /\ IF n = 0 \/ (\E i \in DOMAIN ids : ids[i] \notin 1..n) \/ ~ok(ids) THEN Fail(p)
          ELSE Transfer(p, ids, l)
GetList(p, o, kind, c, l) == List(p, o, kind, c, CountOf(p, kind), l, LAMBDA ids : TRUE)

One(p, o, kind, c, l, ok) ==
    LET n == CountOf(p, kind)  id == task[p].ids[1]
    IN /\ Ready(p, o)
       /\ IF n = 0 \/ id > n \/ ~ok THEN Fail(p) /\ UNCHANGED next
          ELSE Transfer(p, <<OneOf(id, next[p][c])>>, l) /\ Turn(p, c, MovedOne(id, n, next[p][c]))

Plain(p, o, l) == Ready(p, o) /\ Transfer(p, <<1>>, l) /\ UNCHANGED next

\* No device of the list twice.
Once(ids) == \A i, j \in DOMAIN ids : ids[i] = ids[j] => i = j

-----------------------------------------------------------------------------
(* Registers.                                                              *)

\* The register a call works on, and what it tells of the device i.
Word(o) == CASE o \in COMCalls -> "com" [] o \in MiniCalls -> "mini" [] o \in USBCalls -> "usb"
             [] o \in {"GetLANConfig", "SetLANConfig"} -> "busgpio"
             [] o \in {"GetPowerConfig", "SetPowerConfig"} -> "aiccfg"
Reading(o, i) ==
    CASE o \in {"GetminiPCIeStats", "GetminiPCIeStat"} -> reg.present[i]
      [] o = "GetLANConfig" -> reg.busgpio.lan
      [] o = "GetPowerConfig" -> [mode |-> reg.aiccfg.mode, timer |-> reg.aiccfg.timer]
      [] o \in Meters -> o
      [] OTHER -> reg[Word(o)][i]

\* (mutant) the bits of the devices not asked for are taken for zero.
MergedBare(o, w, ids, set) ==
    CASE o = "SetLANConfig" -> [w EXCEPT !.lan = set[1]]
      [] o = "SetPowerConfig" -> [w EXCEPT !.mode = set[1].mode, !.timer = set[1].timer]
      [] OTHER -> [d \in DOMAIN w |-> IF \E i \in DOMAIN ids : ids[i] = d
                                      THEN set[CHOOSE i \in DOMAIN ids : ids[i] = d]
                                      ELSE IF o \in COMCalls THEN 0 ELSE FALSE]

\* The bits of the devices asked for put into the word w.
Merged(o, w, ids, set) ==
    CASE o = "SetLANConfig" -> [w EXCEPT !.lan = set[1]]
      [] o = "SetPowerConfig" ->
           [w EXCEPT !.mode = set[1].mode,
                     !.timer = IF set[1].mode = Ignition THEN set[1].timer ELSE @]
      [] OTHER -> [d \in DOMAIN w |-> IF \E i \in DOMAIN ids : ids[i] = d
                                      THEN set[CHOOSE i \in DOMAIN ids : ids[i] = d] ELSE w[d]]

\* EkDMCiSMBGetLastPowerStatus knows seven causes of a reset.
ReadPort(p, ok) ==
    LET ids == task[p].ids
    IN /\ pc[p] = "get" /\ Read(ok) /\ UNCHANGED lib /\ KeepPorts
       /\ IF ok /\ ~(op[p] = "GetLastPowerStatus" /\ reg.strange)
          THEN Give(p, ids, [i \in DOMAIN ids |-> Reading(op[p], ids[i])])
          ELSE Fail(p)

\* (mutant) the last USB port may be switched off.
Keeps(o, new) == TRUE

\* One USB port at least stays on.
Allowed(o, new) == o \in USBCalls => \E i \in DOMAIN new : new[i]

\* A register that would not change is not written, but for the LAN's.  With
\* several COM ports EkDMCiSMBSetCOMConfig compares a buffer with itself and
\* never writes.
Skips(p, new) == /\ op[p] # "SetLANConfig"
                 /\ \/ new = reg[Word(op[p])] /\ (op[p] = "SetCOMConfig" => lib[p].com > 1)
                    \/ op[p] = "SetCOMConfig" /\ lib[p].com > 1

ReadToSet(p, ok) ==
    LET t == task[p]  new == Merged(op[p], reg[Word(op[p])], t.ids, t.set)
    IN /\ pc[p] = "read" /\ Read(ok) /\ UNCHANGED lib /\ KeepPorts
       /\ CASE ~ok \/ ~Allowed(op[p], new) -> Fail(p)
            [] ok /\ Allowed(op[p], new) /\ Skips(p, new) -> Give(p, t.ids, <<>>)
            [] OTHER -> /\ Continue(p, "write") /\ UNCHANGED err
                        /\ task' = [task EXCEPT ![p].buf = new]

\* EkDMCiSMBSetCOMConfig does not notice that the write failed.
WritePort(p, ok) ==
    /\ pc[p] = "write" /\ Read(ok) /\ UNCHANGED <<lib, next, memo>>
    /\ reg' = IF ok THEN [reg EXCEPT ![Word(op[p])] = task[p].buf] ELSE reg
    /\ IF ok \/ op[p] = "SetCOMConfig" THEN Give(p, task[p].ids, <<>>) ELSE Fail(p)

-----------------------------------------------------------------------------
(* LAN power, the system's power and the counters of the AIC.              *)

GetLANConfig(p) == Plain(p, "GetLANConfig", "get")
GetLANConfigNI(p) == GetLANConfig(p)
SetLANConfig(p) == Plain(p, "SetLANConfig", "read")
SetLANConfigNI(p) == SetLANConfig(p)
GetPowerConfig(p) == Plain(p, "GetPowerConfig", "get")
GetPowerConfigNI(p) == GetPowerConfig(p)
SetPowerConfig(p) == Plain(p, "SetPowerConfig", "read")
SetPowerConfigNI(p) == SetPowerConfig(p)
GetPower(p) == Plain(p, "GetPower", "get")
GetTotalOnTimeMins(p) == Plain(p, "GetTotalOnTimeMins", "get")
GetOnTimeSecs(p) == Plain(p, "GetOnTimeSecs", "get")
GetPowerCounter(p) == Plain(p, "GetPowerCounter", "get")
GetLastPowerStatus(p) == Plain(p, "GetLastPowerStatus", "get")
GetBootCounter(p) == Plain(p, "GetBootCounter", "get")

-----------------------------------------------------------------------------
(* COM ports: RS-232, RS-422 and so on.                                    *)

GetCOMInfos(p) == InfoList(p, "GetCOMInfos", "com", "cominfo")
GetCOMInfosNI(p) == GetCOMInfos(p)
GetCOMInfo(p) == InfoOne(p, "GetCOMInfo", "com", "cominfo")
GetCOMInfoNI(p) == GetCOMInfo(p)

\* The array is filled with one entry more than there are ports.
GetCOMConfigs(p) == List(p, "GetCOMConfigs", "com", "comget", CountOf(p, "com") + 1, "get",
                         LAMBDA ids : TRUE)
GetCOMConfigsNI(p) == GetCOMConfigs(p)
GetCOMConfig(p) == One(p, "GetCOMConfig", "com", "comget", "get", TRUE)
GetCOMConfigNI(p) == GetCOMConfig(p)

SetCOMConfigs(p) ==
    List(p, "SetCOMConfigs", "com", "comset", CountOf(p, "com"), "read",
         LAMBDA ids : Once(ids) /\ \A i \in DOMAIN ids : task[p].set[i] <= MaxMode)
SetCOMConfigsNI(p) == SetCOMConfigs(p)
SetCOMConfig(p) == One(p, "SetCOMConfig", "com", "comset", "read", task[p].set[1] <= MaxMode)
SetCOMConfigNI(p) == SetCOMConfig(p)

-----------------------------------------------------------------------------
(* Mini PCIe slots: whether they have power, and a card.                   *)

GetminiPCIeInfos(p) == InfoList(p, "GetminiPCIeInfos", "mini", "miniinfo")
GetminiPCIeInfosNI(p) == GetminiPCIeInfos(p)
GetminiPCIeInfo(p) == InfoOne(p, "GetminiPCIeInfo", "mini", "miniinfo")
GetminiPCIeInfoNI(p) == GetminiPCIeInfo(p)
GetminiPCIeConfigs(p) == GetList(p, "GetminiPCIeConfigs", "mini", "miniget", "get")
GetminiPCIeConfigsNI(p) == GetminiPCIeConfigs(p)
GetminiPCIeConfig(p) == One(p, "GetminiPCIeConfig", "mini", "miniget", "get", TRUE)
GetminiPCIeConfigNI(p) == GetminiPCIeConfig(p)
SetminiPCIeConfigs(p) == List(p, "SetminiPCIeConfigs", "mini", "miniset",
                              CountOf(p, "mini"), "read", Once)
SetminiPCIeConfigsNI(p) == SetminiPCIeConfigs(p)
SetminiPCIeConfig(p) == One(p, "SetminiPCIeConfig", "mini", "miniset", "read", TRUE)
SetminiPCIeConfigNI(p) == SetminiPCIeConfig(p)
GetminiPCIeStats(p) == GetList(p, "GetminiPCIeStats", "mini", "ministat", "get")
GetminiPCIeStatsNI(p) == GetminiPCIeStats(p)
GetminiPCIeStat(p) == One(p, "GetminiPCIeStat", "mini", "ministat", "get", TRUE)
GetminiPCIeStatNI(p) == GetminiPCIeStat(p)

-----------------------------------------------------------------------------
(* USB ports.                                                              *)

GetUSBInfos(p) == InfoList(p, "GetUSBInfos", "usb", "usbinfo")
GetUSBInfosNI(p) == GetUSBInfos(p)
GetUSBInfo(p) == InfoOne(p, "GetUSBInfo", "usb", "usbinfo")
GetUSBInfoNI(p) == GetUSBInfo(p)
GetUSBConfigs(p) == GetList(p, "GetUSBConfigs", "usb", "usbget", "get")
GetUSBConfigsNI(p) == GetUSBConfigs(p)
GetUSBConfig(p) == One(p, "GetUSBConfig", "usb", "usbget", "get", TRUE)
GetUSBConfigNI(p) == GetUSBConfig(p)

\* A list that switches every port off is refused before the register is read.
SetUSBConfigs(p) ==
    List(p, "SetUSBConfigs", "usb", "usbset", CountOf(p, "usb"), "read",
         LAMBDA ids : /\ Once(ids)
                      /\ \/ Len(ids) < CountOf(p, "usb")
                         \/ \E i \in DOMAIN ids : task[p].set[i])
SetUSBConfigsNI(p) == SetUSBConfigs(p)
SetUSBConfig(p) == One(p, "SetUSBConfig", "usb", "usbset", "read", TRUE)
SetUSBConfigNI(p) == SetUSBConfig(p)

-----------------------------------------------------------------------------
Power(p) ==
    \/ GetLANConfig(p) \/ GetLANConfigNI(p) \/ SetLANConfig(p) \/ SetLANConfigNI(p)
    \/ GetPowerConfig(p) \/ GetPowerConfigNI(p) \/ SetPowerConfig(p) \/ SetPowerConfigNI(p)
    \/ GetPower(p) \/ GetTotalOnTimeMins(p) \/ GetOnTimeSecs(p) \/ GetPowerCounter(p)
    \/ GetLastPowerStatus(p) \/ GetBootCounter(p)
COMPorts(p) ==
    \/ GetCOMInfos(p) \/ GetCOMInfosNI(p) \/ GetCOMInfo(p) \/ GetCOMInfoNI(p)
    \/ GetCOMConfigs(p) \/ GetCOMConfigsNI(p) \/ GetCOMConfig(p) \/ GetCOMConfigNI(p)
    \/ SetCOMConfigs(p) \/ SetCOMConfigsNI(p) \/ SetCOMConfig(p) \/ SetCOMConfigNI(p)
MiniSlots(p) ==
    \/ GetminiPCIeInfos(p) \/ GetminiPCIeInfosNI(p) \/ GetminiPCIeInfo(p) \/ GetminiPCIeInfoNI(p)
    \/ GetminiPCIeConfigs(p) \/ GetminiPCIeConfigsNI(p)
    \/ GetminiPCIeConfig(p) \/ GetminiPCIeConfigNI(p)
    \/ SetminiPCIeConfigs(p) \/ SetminiPCIeConfigsNI(p)
    \/ SetminiPCIeConfig(p) \/ SetminiPCIeConfigNI(p)
    \/ GetminiPCIeStats(p) \/ GetminiPCIeStatsNI(p) \/ GetminiPCIeStat(p) \/ GetminiPCIeStatNI(p)
USBPorts(p) ==
    \/ GetUSBInfos(p) \/ GetUSBInfosNI(p) \/ GetUSBInfo(p) \/ GetUSBInfoNI(p)
    \/ GetUSBConfigs(p) \/ GetUSBConfigsNI(p) \/ GetUSBConfig(p) \/ GetUSBConfigNI(p)
    \/ SetUSBConfigs(p) \/ SetUSBConfigsNI(p) \/ SetUSBConfig(p) \/ SetUSBConfigNI(p)
PortStep(p) == \E ok \in BOOLEAN : ReadPort(p, ok) \/ ReadToSet(p, ok) \/ WritePort(p, ok)

PortAct(p) ==
    \/ Request(p) \/ Power(p) \/ COMPorts(p) \/ MiniSlots(p) \/ USBPorts(p) \/ PortStep(p)
-----------------------------------------------------------------------------
Ended(p, ops) == pc[p] = "idle" /\ op[p] \in ops /\ ret[p] = "true"

\* A set that returned TRUE has been obeyed for every device of its array, in
\* the order it was given, by ids or in turn, whichever bits of the register
\* were already so.  SetCOMConfig is left out: see the README.
PortsObey == Alone => \A p \in Procs :
    Ended(p, {"SetCOMConfigs", "SetminiPCIeConfigs", "SetminiPCIeConfig",
              "SetUSBConfigs", "SetUSBConfig"}) =>
        \A i \in DOMAIN task[p].ids : reg[Word(op[p])][task[p].ids[i]] = task[p].set[i]

\* However lists and single sets of several programs follow each other, and
\* whatever fails, some USB port stays on: the keyboard is never lost.
UsbStaysOn == \E i \in DOMAIN reg.usb : reg.usb[i]

\* Writing a register back changes no device but those of the call: the word
\* written is not older than the neighbours' bits.
KeepsNeighbours == \A p \in Procs :
    pc[p] = "write" /\ pc'[p] # "write" =>
        CASE op[p] = "SetLANConfig" -> reg'.busgpio.spare = reg.busgpio.spare
          [] op[p] = "SetPowerConfig" -> reg'.aiccfg.auto = reg.aiccfg.auto
          [] OTHER -> \A d \in DOMAIN reg[Word(op[p])] :
                          (\A i \in DOMAIN task[p].ids : task[p].ids[i] # d) =>
                              reg'[Word(op[p])][d] = reg[Word(op[p])][d]
=============================================================================
