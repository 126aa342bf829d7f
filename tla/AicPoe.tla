-------------------------------- MODULE AicPoe --------------------------------
(***************************************************************************)
(* The PoE calls of EKit_L/DMCI.c: which ports there are, whether they     *)
(* deliver power, and switching them.  A port belongs to a group; the AIC  *)
(* is asked for a group with one write and answers with one read, and the  *)
(* main group has a switch of its own in DEVCTRL, next to the buzzer's.    *)
(*                                                                         *)
(* A call without ids is answered for the next ports after a cursor the    *)
(* library keeps.  The NI form of a call takes arrays instead of a         *)
(* structure and has the same steps.  No IOM ever has ports: the loop that *)
(* would count them is commented out in EkSMBusGetCount.                   *)
(***************************************************************************)
EXTENDS AicCounts, SequencesExt

CONSTANT Switches   \* for each scene what is switched on at first: DEVCTRL, ports

VARIABLES
    ctrl,     \* the AIC: DEVCTRL, the bits that are set
    port,     \* the AIC: for each group the ports that look for a device
    poecfg,   \* the AIC: the group POECFG_SET last asked POECFG_GET for
    call,     \* for each program the arguments and the work left of its call
    cursor    \* for each program POEInfoIdx, POEStatIdx and their like

poeVars == <<scene, board, poeinfo, lib, pc, op, err, ret, faults,
             ctrl, port, poecfg, call, cursor>>
aicVars == <<ctrl, port, poecfg>>

PoeGroups == {Main, Pcie}
Ports == 0..N - 1

ASSUME PoeAssumption ==
    DOMAIN Switches = Scenes /\ \A s \in Scenes : Switches[s].ports \subseteq SUBSET Ports

Cursors == {"info", "stat", "info1", "get1", "set1", "stat1"}
PoeSteps == {"ctrl", "csel", "cget", "swr", "ssel", "sget", "sdet", "soff",
             "allr", "allw", "alls", "psel", "pget", "bget", "bset", "fin",
             "dead", "hung"}

\* ids, and for each id whether it is to be on; left: groups yet to be done;
\* buf, bits: what was last read of DEVCTRL and of the ports; val: the answers.
NoCall == [ids |-> <<>>, on |-> {}, left |-> {}, buf |-> {}, bits |-> {},
           val |-> <<>>]

\* The arrays a program passes: no id, ids of one group or of two, a mixture.
Lists == {<<0>>, <<0, 0>>, <<1>>, <<2 * N + 1>>, <<1, 2 * N + 1>>, <<1, 0>>}
         \cup {[i \in 1..N |-> i]}

PoeInit ==
    /\ CountsInit
    /\ ctrl \in SUBSET Switches[scene].ctrl /\ port \in [PoeGroups -> Switches[scene].ports]
    /\ poecfg = Main
    /\ call = [p \in Procs |-> NoCall]
    /\ cursor = [p \in Procs |-> [c \in Cursors |-> 0]]

-----------------------------------------------------------------------------
(* Ids.                                                                    *)

GroupOf(l, id) == IF id <= l.bound[0] THEN 0 ELSE IF id <= l.bound[1] THEN 1
                  ELSE IF id <= l.bound[2] THEN 2 ELSE 3
Floor(l, g) == IF g > 1 THEN l.bound[g - 1] ELSE 0

\* A port the program may ask for.
Exists(l, id) == \/ id \in 1..l.cnt[Main]
                 \/ l.poe /\ id \in l.bound[2] + 1..l.bound[2] + l.cnt[Pcie]

\* The port of an id, and the ids of a call in a group.
PortOf(l, id) == id - 1 - Floor(l, GroupOf(l, id))
IdsIn(l, ids, g) == {i \in DOMAIN ids : /\ ids[i] > Floor(l, g)
                                        /\ ids[i] <= Floor(l, g) + l.cnt[g]}
Asked(l, ids, g) == {ids[i] - 1 - Floor(l, g) : i \in IdsIn(l, ids, g)}

\* The next port at or after the cursor, going round at the last id.
Round(l, c, k) == 1 + ((c + k) % l.bound[Pcie])
Next1(l, c) ==
    IF Exists(l, c + 1) THEN c + 1
    ELSE Round(l, c, CHOOSE k \in 0..6 * N :
                         /\ Exists(l, Round(l, c, k))
                         /\ \A j \in 0..k - 1 : ~Exists(l, Round(l, c, j)))

\* The array is filled from the cursor when it names no port.  The cursor is
\* left at the port found, not behind it, so every entry gets the same port.
Filled(l, ids) == 1..(LET room == IF l.poe THEN Total(l) ELSE l.cnt[Main]
                      IN IF room < Len(ids) THEN room ELSE Len(ids))
Fill(l, ids, c) == [i \in Filled(l, ids) |-> Next1(l, c)]

\* GetPOEStats_1 is the one that moves on behind each port it finds.
FillOn(l, ids, c) ==
    LET at[n \in Nat] == IF n = 0 THEN c ELSE Next1(l, at[n - 1]) % l.bound[Pcie]
    IN [i \in Filled(l, ids) |-> Next1(l, at[i - 1])]

-----------------------------------------------------------------------------
(* Steps all calls share.                                                  *)

ReadOnly(ok) == Read(ok) /\ UNCHANGED aicVars
InCall(p, f) == call' = [call EXCEPT ![p] = f]
KeepCall == UNCHANGED <<call, cursor>>
MoveCursor(p, c, n) == cursor' = [cursor EXCEPT ![p][c] = n]

\* The first transfer: a call for infos counts only while it knows of no port.
Entry(l, o) ==
    CASE o \in PoeInfos /\ (IF o \in {"GetPOEInfos", "GetPOEInfo"}
                             THEN l.cnt[Main] > 0 ELSE Total(l) > 0) -> "args"
      [] o \in PoeVerifies -> IF l.id THEN "args" ELSE "efcoid"
      [] OTHER -> CountEntry(l)

Begin(p) ==
    \E o \in (Uses[scene] \cap PoeCalls) \ {"GetCount"}, ids \in Lists, on \in SUBSET {1, 2} :
        /\ o \in {"SetPOEConfigs_1", "SetPOEConfig_1", "SetPOEConfig", "SetBuzConfig"}
           \/ on = {}
        /\ on \subseteq DOMAIN ids /\ (Len(ids) > 2 => on \in {{}, {1, 2}})
        /\ o \in {"GetPOEInfo", "GetPOEInfo_1", "GetPOEStat", "GetPOEStat_1",
                  "GetPOEConfig_1", "SetPOEConfig_1"} => Len(ids) = 1
        /\ o \in {"GetPOEConfig", "SetPOEConfig"} \cup PoeVerifies => ids = <<0>>
        /\ Enter(p, o, Entry(lib[p], o))
        /\ InCall(p, [NoCall EXCEPT !.ids = ids,
                      !.on = IF Len(ids) > 2 /\ on # {} THEN DOMAIN ids ELSE on])
        /\ UNCHANGED <<ctrl, port, poecfg, cursor>>

\* Counting has returned; every call but one for infos wants hardware.
At(p, o) ==
    /\ pc[p] = "args" /\ op[p] = o
    /\ UNCHANGED <<board, poeinfo, faults, ctrl, port, poecfg>>
Informed(p, o) ==
    /\ At(p, o)
    /\ Learn(p, IF err[p] THEN lib[p] ELSE Detected(lib[p]))
Counted1(p, o) ==
    /\ At(p, o) /\ HasHW(lib[p])
    /\ Learn(p, Detected(lib[p]))

NoHardware(p) ==
    /\ pc[p] = "args" /\ op[p] \in PoeCounts \ {"GetCount"}
    /\ ~HasHW(lib[p])
    /\ Learn(p, Detected(lib[p])) /\ Return(p, FALSE)
    /\ UNCHANGED <<board, poeinfo, faults, ctrl, port, poecfg>> /\ KeepCall

\* DMCI_ERR_PARAMETER_INVALID, and the ids of the array are zeroed.
Reject(p) ==
    /\ Return(p, FALSE)
    /\ InCall(p, [call[p] EXCEPT !.ids = [i \in DOMAIN @ |-> 0]])
    /\ UNCHANGED cursor

\* The end of a call that has made its transfers.
Fin(p) ==
    /\ pc[p] = "fin"
    /\ IF err[p] THEN Reject(p) ELSE Return(p, TRUE) /\ KeepCall
    /\ UNCHANGED <<board, poeinfo, lib, faults, ctrl, port, poecfg>>

-----------------------------------------------------------------------------
(* Infos: which ports there are.                                           *)

\* An array that names no port of the main group is filled in turn.
OldFill(l, ids, c) ==
    IF \E i \in DOMAIN ids : ids[i] \in 1..l.cnt[Main] THEN ids
    ELSE [i \in 1..(IF Len(ids) < l.cnt[Main] THEN Len(ids) ELSE l.cnt[Main]) |->
             1 + ((c + i - 1) % l.cnt[Main])]
OldCursor(l, ids, c) ==
    IF \E i \in DOMAIN ids : ids[i] \in 1..l.cnt[Main] THEN c
    ELSE (c + Len(OldFill(l, ids, c))) % l.cnt[Main]

GetPOEInfos(p) ==
    LET l == lib[p]  ids == OldFill(l, call[p].ids, cursor[p].info)
    IN /\ Informed(p, "GetPOEInfos")
       /\ IF l.cnt[Main] = 0 THEN Return(p, FALSE) /\ KeepCall
          ELSE /\ Return(p, TRUE)
               /\ InCall(p, [call[p] EXCEPT !.ids = ids,
                     !.val = [i \in DOMAIN ids |-> ids[i] \in 1..l.cnt[Main]]])
               /\ MoveCursor(p, "info", OldCursor(l, call[p].ids, cursor[p].info))
GetPOEInfosNI(p) == GetPOEInfos(p)

GetPOEInfo(p) ==
    LET l == lib[p]  id == call[p].ids[1]  new == cursor[p].info + 1
    IN /\ Informed(p, "GetPOEInfo")
       /\ IF l.cnt[Main] = 0 THEN Return(p, FALSE) /\ KeepCall
          ELSE /\ Return(p, TRUE)
               /\ InCall(p, [call[p] EXCEPT !.ids = <<IF id = 0 THEN new ELSE id>>,
                     !.val = <<id \in 0..l.cnt[Main]>>])
               /\ MoveCursor(p, "info", IF id = 0 THEN new % l.cnt[Main] ELSE cursor[p].info)
GetPOEInfoNI(p) == GetPOEInfo(p)

\* The test for a given id forgets that ids of a group start at its floor.
Given1(l, id) == id \in 1..l.bound[Pcie] /\ id <= l.cnt[GroupOf(l, id)]

\* Every id is handed out in turn, the ones of no port too.
GetPOEInfos_1(p) ==
    LET l == lib[p]  given == \E i \in DOMAIN call[p].ids : Given1(l, call[p].ids[i])
        c == cursor[p].info1
        ids == IF given THEN call[p].ids
               ELSE [i \in 1..(IF l.bound[Pcie] = 0 THEN 0 ELSE Len(call[p].ids)) |->
                        1 + ((c + i - 1) % l.bound[Pcie])]
    IN /\ Informed(p, "GetPOEInfos_1")
       /\ IF Total(l) = 0 THEN Return(p, FALSE) /\ KeepCall
          ELSE /\ Return(p, TRUE)
               /\ InCall(p, [call[p] EXCEPT !.ids = ids,
                     !.val = [i \in DOMAIN ids |->
                         Exists([l EXCEPT !.poe = TRUE], ids[i])]])
               /\ MoveCursor(p, "info1",
                     IF given \/ ids = <<>> THEN c ELSE (c + Len(ids)) % l.bound[Pcie])
GetPOEInfosNI_1(p) == GetPOEInfos_1(p)

\* The next id is looked for until Given1 holds: never, when only the PCIe
\* group has ports; and a bound that was never set divides by zero.
GetPOEInfo_1(p) ==
    LET l == lib[p]  id == call[p].ids[1]  c == cursor[p].info1
        ks == IF l.bound[Pcie] = 0 THEN {}
              ELSE {k \in 0..6 * N : Given1(l, Round(l, c, k))}
        new == Round(l, c, CHOOSE k \in ks : \A j \in ks : k <= j)
    IN /\ Informed(p, "GetPOEInfo_1")
       /\ CASE Total(l) = 0 -> Return(p, FALSE) /\ KeepCall
            [] Total(l) > 0 /\ id = 0 /\ ks = {} ->
                 /\ Continue(p, IF l.bound[Pcie] = 0 THEN "dead" ELSE "hung")
                 /\ KeepCall /\ UNCHANGED err
            [] OTHER ->
                 /\ Return(p, TRUE)
                 /\ InCall(p, [call[p] EXCEPT !.ids = <<IF id = 0 THEN new ELSE id>>,
                       !.val = <<id = 0 \/ Exists([l EXCEPT !.poe = TRUE], id)>>])
                 /\ MoveCursor(p, "info1", IF id = 0 THEN new % l.bound[Pcie] ELSE cursor[p].info1)
GetPOEInfoNI_1(p) == GetPOEInfo_1(p)

-----------------------------------------------------------------------------
(* Configs: whether ports deliver power.                                   *)

NoPorts(l) == (~l.poe /\ l.cnt[Main] = 0) \/ Total(l) = 0

\* (mutant) the second half of the old switch forgotten.
MainOnHalf(l, c) == "main" \in c

\* The main group is on: old firmware has one switch for both halves.
MainOn(l, c) == IF l.poe THEN "main" \in c ELSE {"main", "iom"} \subseteq c

\* An id of the array that is no port of the group it falls in.
Bad(l, ids) == \E i \in DOMAIN ids :
    LET g == GroupOf(l, ids[i])
    IN ids[i] \notin 1..l.bound[Pcie] \/ (g > 0 /\ ~l.poe) \/ i \notin IdsIn(l, ids, g)

\* The ids a list call works on, and their groups.
Named(l, ids) == \E i \in DOMAIN ids : Exists(l, ids[i])
GroupsOf(l, ids) == {GroupOf(l, ids[i]) : i \in DOMAIN ids}

Unanswered(ids) == [i \in DOMAIN ids |-> "none"]
Work(p, ids, left) ==
    InCall(p, [call[p] EXCEPT !.ids = ids, !.left = left, !.val = Unanswered(ids)])

\* A list call: its ids, the cursor left behind and the transfer it starts with.
ListArgs(p, o, c, ids, cur, first) ==
    LET l == lib[p]  gs == GroupsOf(l, ids)
    IN /\ Counted1(p, o)
       /\ IF NoPorts(l) THEN Reject(p)
          ELSE /\ MoveCursor(p, c, cur)
               /\ IF Bad(l, ids)
                  THEN /\ Return(p, FALSE)
                       /\ InCall(p, [call[p] EXCEPT !.ids = [i \in DOMAIN ids |-> 0]])
                  ELSE /\ Work(p, ids, IF l.poe \/ first = "psel" THEN gs ELSE {})
                       /\ SetErr(p, FALSE)
                       /\ Continue(p, IF Main \in gs /\ first # "psel" THEN "ctrl" ELSE first)

\* The array is filled with the port the cursor is at when it names none.
Repeating(p, o, c, first) ==
    LET l == lib[p]  ids == call[p].ids  from == cursor[p][c]
    IN IF Named(l, ids) \/ NoPorts(l) THEN ListArgs(p, o, c, ids, from, first)
       ELSE ListArgs(p, o, c, Fill(l, ids, from), Next1(l, from) - 1, first)

GetPOEConfigs_1(p) == Repeating(p, "GetPOEConfigs_1", "get1", "csel")
GetPOEConfigsNI_1(p) == GetPOEConfigs_1(p)
SetPOEConfigs_1(p) == Repeating(p, "SetPOEConfigs_1", "set1", "group1")
SetPOEConfigsNI_1(p) == SetPOEConfigs_1(p)

\* One port, or the next one when the id is 0.
GetPOEConfig_1(p) ==
    LET l == lib[p]  id == call[p].ids[1]
        new == IF id = 0 THEN Next1(l, cursor[p].get1) ELSE id  g == GroupOf(l, new)
        reads == g = Main \/ (l.poe /\ g < Pcie)
    IN /\ Counted1(p, "GetPOEConfig_1")
       /\ IF NoPorts(l) \/ (id > 0 /\ ~Exists(l, id)) THEN Reject(p)
          ELSE /\ MoveCursor(p, "get1", IF id = 0 THEN new - 1 ELSE cursor[p].get1)
               /\ Work(p, <<new>>, IF l.poe THEN {g} ELSE {})
               /\ SetErr(p, FALSE)
               /\ Continue(p, IF reads THEN "ctrl" ELSE IF l.poe THEN "csel" ELSE "fin")
GetPOEConfigNI_1(p) == GetPOEConfig_1(p)

\* Only firmware with groups switches one port.
SetPOEConfig_1(p) ==
    LET l == lib[p]  id == call[p].ids[1]
        new == IF id = 0 THEN Next1(l, cursor[p].set1) ELSE id  g == GroupOf(l, new)
    IN /\ Counted1(p, "SetPOEConfig_1")
       /\ IF ~l.poe \/ Total(l) = 0 \/ (id > 0 /\ ~Exists(l, id))
          THEN Return(p, FALSE) /\ KeepCall
          ELSE /\ MoveCursor(p, "set1", IF id = 0 THEN new - 1 ELSE cursor[p].set1)
               /\ Work(p, <<new>>, {g})
               /\ SetErr(p, FALSE)
               /\ Continue(p, IF g < Pcie THEN "ctrl" ELSE IF call[p].on # {} THEN "swr"
                              ELSE "soff")
SetPOEConfigNI_1(p) == SetPOEConfig_1(p)

\* The two calls of the old interface have one value for all ports.
GetPOEConfig(p) ==
    LET l == lib[p]
    IN /\ Counted1(p, "GetPOEConfig")
       /\ IF l.poe \/ l.cnt[Main] = 0 THEN Return(p, FALSE) /\ KeepCall
          ELSE Continue(p, "ctrl") /\ Work(p, <<1>>, {}) /\ SetErr(p, FALSE)
               /\ UNCHANGED cursor
GetPOEConfigNI(p) == GetPOEConfig(p)

SetPOEConfig(p) ==
    LET l == lib[p]
    IN /\ Counted1(p, "SetPOEConfig")
       /\ IF NoPorts(l) THEN Return(p, FALSE) /\ KeepCall
          ELSE /\ Work(p, <<0>>, IF l.poe THEN {g \in PoeGroups : l.cnt[g] > 0} ELSE {})
               /\ Continue(p, IF l.cnt[Main] > 0 THEN "allr" ELSE "alls")
               /\ SetErr(p, FALSE) /\ UNCHANGED cursor
SetPOEConfigNI(p) == SetPOEConfig(p)

AllRead(p, ok) ==
    /\ pc[p] = "allr" /\ ReadOnly(ok)
    /\ SetErr(p, ~ok)
    /\ LET new == IF call[p].on = {} THEN ctrl \ {"main", "iom"}
                  ELSE ctrl \cup {"main", "iom"}
       IN /\ InCall(p, [call[p] EXCEPT !.buf = new])
          /\ Continue(p, IF ~ok THEN "fin" ELSE IF new = ctrl THEN "alls" ELSE "allw")
    /\ UNCHANGED <<lib, cursor>>

AllWrite(p, ok) ==
    /\ pc[p] = "allw" /\ Read(ok)
    /\ ctrl' = IF ok THEN call[p].buf ELSE ctrl
    /\ SetErr(p, ~ok) /\ Continue(p, IF ok THEN "alls" ELSE "fin")
    /\ UNCHANGED <<lib, port, poecfg>> /\ KeepCall

\* The groups in order; a failed one does not stop the others.
First(left) == CHOOSE g \in left : \A h \in left : g <= h
Onward(p, l) == InCall(p, [call[p] EXCEPT !.left = @ \ {First(@)}])
                /\ Continue(p, l) /\ UNCHANGED <<lib, cursor>>

AllPorts(p, ok) ==
    /\ pc[p] = "alls"
    /\ IF call[p].left = {}
       THEN Continue(p, "fin") /\ ok /\ UNCHANGED <<board, poeinfo, lib, err, faults, port>>
            /\ KeepCall
       ELSE /\ Read(ok)
            /\ port' = IF ~ok THEN port
                       ELSE [port EXCEPT ![First(call[p].left)] =
                                IF call[p].on = {} THEN {} ELSE Ports]
            /\ SetErr(p, err[p] \/ ~ok)
            /\ Onward(p, "alls")
    /\ UNCHANGED <<ctrl, poecfg>>

-----------------------------------------------------------------------------
(* The switch of the main group, then the ports of each group.             *)

Answer(p, is, v) == [i \in DOMAIN call[p].ids |-> IF i \in is THEN v ELSE call[p].val[i]]
Single(p) == op[p] = "SetPOEConfig_1"

AskedOn(p, g) == {call[p].ids[i] - 1 - Floor(lib[p], g) :
                     i \in IdsIn(lib[p], call[p].ids, g) \cap call[p].on}

AskedOff(p, g) == Asked(lib[p], call[p].ids, g) \ AskedOn(p, g)

ReadCtrlGet(p, ok) ==
    /\ pc[p] = "ctrl" /\ op[p] \in {"GetPOEConfig", "GetPOEConfigs_1", "GetPOEConfig_1"}
    /\ ReadOnly(ok)
    /\ LET l == lib[p]
           mine == IdsIn(l, call[p].ids, Main)
           on == MainOn(l, ctrl)
           known == ~on \/ ~l.poe
       IN /\ SetErr(p, ~ok)
          /\ InCall(p, [call[p] EXCEPT !.left = IF known THEN @ \ {Main} ELSE @,
                !.val = IF ok /\ known THEN Answer(p, mine, IF on THEN "on" ELSE "off") ELSE @])
          /\ Continue(p, IF ok THEN "csel" ELSE "fin")
    /\ UNCHANGED <<lib, cursor>>

SelectCfg(p, ok) ==
    /\ pc[p] = "csel"
    /\ IF call[p].left = {}
       THEN /\ ok /\ Continue(p, "fin")
            /\ UNCHANGED <<board, poeinfo, lib, err, faults, poecfg>> /\ KeepCall
       ELSE /\ Read(ok)
            /\ SetErr(p, err[p] \/ ~ok)
            /\ poecfg' = IF ok THEN First(call[p].left) ELSE poecfg
            /\ IF ok THEN Continue(p, "cget") /\ UNCHANGED lib /\ KeepCall
               ELSE Onward(p, "csel")
    /\ UNCHANGED <<ctrl, port>>

ReadCfg(p, ok) ==
    /\ pc[p] = "cget" /\ ReadOnly(ok)
    /\ LET l == lib[p]  ids == call[p].ids  g == First(call[p].left)
           in(i) == PortOf(l, ids[i]) \in port[poecfg]
       IN InCall(p, [call[p] EXCEPT !.left = @ \ {g},
             !.val = IF ~ok THEN @
                     ELSE [i \in DOMAIN ids |-> IF i \notin IdsIn(l, ids, g) /\ op[p] # "GetPOEConfig_1"
                                                THEN @[i]
                                                ELSE IF in(i) THEN "on" ELSE "off"]])
    /\ SetErr(p, err[p] \/ ~ok)
    /\ Continue(p, "csel") /\ UNCHANGED <<lib, cursor>>

\* Setting: the switch is closed for a port that is to be on; old firmware
\* has nothing else, so there a port that differs is an error.
ReadCtrlSet(p, ok) ==
    /\ pc[p] = "ctrl" /\ op[p] = "SetPOEConfigs_1"
    /\ ReadOnly(ok)
    /\ LET l == lib[p]  mine == IdsIn(l, call[p].ids, Main)
           wrong == {i \in mine : (i \in call[p].on) # MainOn(l, ctrl)}
           close == l.poe /\ wrong \cap call[p].on # {}
       IN /\ SetErr(p, ~ok \/ (~l.poe /\ wrong # {}))
          /\ InCall(p, [call[p] EXCEPT !.buf = IF close THEN ctrl \cup {"main"} ELSE ctrl])
          /\ Continue(p, IF ~ok \/ ~l.poe THEN "fin" ELSE IF close THEN "swr" ELSE "group1")
    /\ UNCHANGED <<lib, cursor>>

ReadCtrlSetOne(p, ok) ==
    /\ pc[p] = "ctrl" /\ Single(p)
    /\ ReadOnly(ok)
    /\ SetErr(p, ~ok)
    /\ InCall(p, [call[p] EXCEPT !.buf = IF @ = {} /\ call[p].on # {} THEN ctrl \cup {"main"}
                                         ELSE ctrl])
    /\ Continue(p, IF ~ok THEN "fin" ELSE IF call[p].on # {} THEN "swr" ELSE "soff")
    /\ UNCHANGED <<lib, cursor>>

\* SetPOEConfig_1 writes the switch for a PCIe port too, from a buffer
\* nothing was read into.
CloseSwitch(p, ok) ==
    /\ pc[p] = "swr" /\ Read(ok)
    /\ ctrl' = IF ok THEN call[p].buf ELSE ctrl
    /\ SetErr(p, ~ok)
    /\ Continue(p, IF ~ok THEN "fin" ELSE IF Single(p) THEN "ssel" ELSE "group1")
    /\ UNCHANGED <<lib, port, poecfg>> /\ KeepCall

\* (mutant) the ports that are left alone are not read first.
NextGroupUnread(p) ==
    LET left == call[p].left
    IN /\ pc[p] = "group1"
       /\ Continue(p, CASE left = {} -> "fin"
                        [] left # {} /\ AskedOn(p, First(left)) = {} -> "soff"
                        [] OTHER -> "sdet")
       /\ UNCHANGED <<board, poeinfo, lib, err, faults, ctrl, port, poecfg>> /\ KeepCall

\* What the next group of SetPOEConfigs_1 needs: the bits of the ports it
\* leaves alone are read first.
NextGroup(p) ==
    LET left == call[p].left  g == First(left)
    IN /\ pc[p] = "group1"
       /\ Continue(p, CASE left = {} -> "fin"
                        [] left # {} /\ AskedOn(p, g) = {} -> "soff"
                        [] left # {} /\ AskedOn(p, g) # {}
                           /\ Asked(lib[p], call[p].ids, g) = Ports -> "sdet"
                        [] OTHER -> "ssel")
       /\ UNCHANGED <<board, poeinfo, lib, err, faults, ctrl, port, poecfg>> /\ KeepCall

\* After the ports to be on come those to be off, then the next group.
Off(p) == IF ~Single(p) /\ AskedOff(p, First(call[p].left)) # {}
          THEN Continue(p, "soff") /\ UNCHANGED <<lib, call, cursor>>
          ELSE Onward(p, IF Single(p) THEN "fin" ELSE "group1")

\* The result of the write is taken the wrong way round: when it succeeds the
\* group counts as unread, and when it fails the answer is read all the same.
SelectSet(p, ok) ==
    /\ pc[p] = "ssel" /\ Read(ok)
    /\ poecfg' = IF ok THEN First(call[p].left) ELSE poecfg
    /\ SetErr(p, err[p] \/ ok)
    /\ IF ok THEN Off(p) ELSE Continue(p, "sget") /\ UNCHANGED lib /\ KeepCall
    /\ UNCHANGED <<ctrl, port>>

ReadSet(p, ok) ==
    /\ pc[p] = "sget" /\ ReadOnly(ok)
    /\ SetErr(p, err[p] \/ ~ok)
    /\ IF ok THEN /\ InCall(p, [call[p] EXCEPT !.bits = port[poecfg]])
                  /\ Continue(p, "sdet") /\ UNCHANGED <<lib, cursor>>
       ELSE Off(p)

\* SetPOEConfig_1 keeps the byte, the mask and the shift in one variable, so
\* what it writes is the first port whatever port was asked for.
Detect(p, ok) ==
    LET g == First(call[p].left)
    IN /\ pc[p] = "sdet" /\ Read(ok)
       /\ port' = IF ~ok THEN port
                  ELSE [port EXCEPT ![g] = IF Single(p) THEN {0}
                           ELSE (call[p].bits \ Asked(lib[p], call[p].ids, g)) \cup AskedOn(p, g)]
       /\ SetErr(p, err[p] \/ ~ok)
       /\ Off(p)
       /\ UNCHANGED <<ctrl, poecfg>>

\* (mutant) a failed write is not reported.
PowerOffLost(p, ok) ==
    /\ pc[p] = "soff" /\ Read(ok)
    /\ port' = IF ok THEN [port EXCEPT ![First(call[p].left)] =
                              @ \ AskedOff(p, First(call[p].left))] ELSE port
    /\ Onward(p, IF Single(p) THEN "fin" ELSE "group1")
    /\ UNCHANGED <<err, ctrl, poecfg>>

\* SetPOEConfig_1 shifts all ones, not one bit: the ports above go off too.
PowerOff(p, ok) ==
    LET g == First(call[p].left)
        off == IF Single(p) THEN {x \in Ports : x >= PortOf(lib[p], call[p].ids[1])}
               ELSE AskedOff(p, g)
    IN /\ pc[p] = "soff" /\ Read(ok)
       /\ port' = IF ok THEN [port EXCEPT ![g] = @ \ off] ELSE port
       /\ SetErr(p, err[p] \/ ~ok)
       /\ Onward(p, IF Single(p) THEN "fin" ELSE "group1")
       /\ UNCHANGED <<ctrl, poecfg>>

-----------------------------------------------------------------------------
(* Stats: whether a device is there and what it draws.                     *)

GetPOEStats(p) ==
    LET l == lib[p]  ids == OldFill(l, call[p].ids, cursor[p].stat)
    IN /\ Counted1(p, "GetPOEStats")
       /\ IF l.cnt[Main] = 0 THEN Reject(p)
          ELSE /\ MoveCursor(p, "stat", OldCursor(l, call[p].ids, cursor[p].stat))
               /\ IF \E i \in DOMAIN ids : ids[i] \notin 1..l.cnt[Main]
                  THEN /\ Return(p, FALSE)
                       /\ InCall(p, [call[p] EXCEPT !.ids = [i \in DOMAIN ids |-> 0]])
                  ELSE Work(p, ids, {Main}) /\ SetErr(p, FALSE) /\ Continue(p, "psel")
GetPOEStatsNI(p) == GetPOEStats(p)

GetPOEStat(p) ==
    LET l == lib[p]  id == call[p].ids[1]  new == cursor[p].stat + 1
    IN /\ Counted1(p, "GetPOEStat")
       /\ IF l.cnt[Main] = 0 \/ id > l.cnt[Main] THEN Reject(p)
          ELSE /\ MoveCursor(p, "stat", IF id = 0 THEN new % l.cnt[Main] ELSE cursor[p].stat)
               /\ Work(p, <<IF id = 0 THEN new ELSE id>>, {Main})
               /\ SetErr(p, FALSE) /\ Continue(p, "psel")
GetPOEStatNI(p) == GetPOEStat(p)

GetPOEStats_1(p) ==
    LET l == lib[p]  ids == call[p].ids  from == cursor[p].stat1
        on == FillOn(l, ids, from)
    IN \/ /\ Named(l, ids) \/ NoPorts(l)
          /\ ListArgs(p, "GetPOEStats_1", "stat1", ids, from, "psel")
       \/ /\ ~Named(l, ids) /\ ~NoPorts(l) /\ l.bound[Pcie] > 0
          /\ ListArgs(p, "GetPOEStats_1", "stat1", on, on[Len(on)] % l.bound[Pcie], "psel")
       \/ /\ ~Named(l, ids) /\ ~NoPorts(l) /\ l.bound[Pcie] = 0   \* divides by zero
          /\ Counted1(p, "GetPOEStats_1") /\ Continue(p, "dead") /\ KeepCall /\ UNCHANGED err
GetPOEStatsNI_1(p) == Repeating(p, "GetPOEStatsNI_1", "stat1", "psel")

GetPOEStat_1(p) ==
    LET l == lib[p]  id == call[p].ids[1]
        new == IF id = 0 THEN Next1(l, cursor[p].stat1) ELSE id
    IN /\ Counted1(p, "GetPOEStat_1")
       /\ IF NoPorts(l) \/ (id > 0 /\ ~Exists([l EXCEPT !.poe = TRUE], id)) THEN Reject(p)
          ELSE /\ MoveCursor(p, "stat1", IF id = 0 THEN new - 1 ELSE cursor[p].stat1)
               /\ Work(p, <<new>>, {GroupOf(l, new)})
               /\ SetErr(p, FALSE) /\ Continue(p, "psel")
GetPOEStatNI_1(p) == GetPOEStat_1(p)

\* (mutant) every group is asked for as the main group.
SelectStatMain(p, ok) ==
    LET left == call[p].left
    IN /\ pc[p] = "psel" /\ WriteInfo(ok, IF left # {} /\ lib[p].poe THEN Main ELSE poeinfo)
       /\ SetErr(p, err[p] \/ ~ok)
       /\ Continue(p, IF left = {} \/ ~ok THEN "fin" ELSE "pget")
       /\ UNCHANGED <<lib, ctrl, port, poecfg>> /\ KeepCall

\* One group at a time; the first failure ends the call.
SelectStat(p, ok) ==
    LET left == call[p].left  asks == left # {} /\ lib[p].poe
    IN /\ pc[p] = "psel" /\ WriteInfo(ok, IF asks THEN First(left) ELSE poeinfo)
       /\ asks \/ ok
       /\ SetErr(p, err[p] \/ ~ok)
       /\ Continue(p, IF left = {} \/ ~ok THEN "fin" ELSE "pget")
       /\ UNCHANGED <<lib, ctrl, port, poecfg>> /\ KeepCall

\* The AIC answers for the group it was last asked for, whoever asked; asked
\* for the groups themselves it answers with one byte, which is refused.
ReadStat(p, ok) ==
    /\ pc[p] = "pget" /\ ReadOnly(ok)
    /\ LET l == lib[p]  g == First(call[p].left)
           good == ok /\ ~(board.groups /\ poeinfo = Get)
           mine == IF Len(call[p].ids) = 1 THEN {1} ELSE IdsIn(l, call[p].ids, g)
       IN /\ SetErr(p, err[p] \/ ~good)
          /\ InCall(p, [call[p] EXCEPT !.left = @ \ {g},
                !.val = IF good THEN Answer(p, mine, IF board.groups /\ poeinfo = Pcie
                                                     THEN "pcie" ELSE "main") ELSE @])
          /\ Continue(p, IF good THEN "psel" ELSE "fin")
    /\ UNCHANGED <<lib, cursor>>

-----------------------------------------------------------------------------
(* The buzzer, next to the switches in DEVCTRL.                            *)

GetBuzConfig(p) ==
    /\ At(p, "GetBuzConfig") /\ Continue(p, "bget")
    /\ UNCHANGED <<lib, err>> /\ KeepCall
GetBuzConfigNI(p) == GetBuzConfig(p)
SetBuzConfig(p) ==
    /\ At(p, "SetBuzConfig") /\ Continue(p, "bget")
    /\ UNCHANGED <<lib, err>> /\ KeepCall
SetBuzConfigNI(p) == SetBuzConfig(p)

ReadBuz(p, ok) ==
    /\ pc[p] = "bget" /\ ReadOnly(ok)
    /\ SetErr(p, ~ok)
    /\ LET new == IF call[p].on = {} THEN ctrl \ {"buz"} ELSE ctrl \cup {"buz"}
       IN /\ InCall(p, [call[p] EXCEPT !.buf = new,
                 !.val = <<IF "buz" \in ctrl THEN "on" ELSE "off">>])
          /\ Continue(p, IF ok /\ op[p] = "SetBuzConfig" /\ new # ctrl THEN "bset" ELSE "fin")
    /\ UNCHANGED <<lib, cursor>>

WriteBuz(p, ok) ==
    /\ pc[p] = "bset" /\ Read(ok)
    /\ ctrl' = IF ok THEN call[p].buf ELSE ctrl
    /\ SetErr(p, ~ok) /\ Continue(p, "fin")
    /\ UNCHANGED <<lib, port, poecfg>> /\ KeepCall

-----------------------------------------------------------------------------
Infos(p) == \/ GetPOEInfos(p) \/ GetPOEInfosNI(p) \/ GetPOEInfo(p) \/ GetPOEInfoNI(p)
            \/ GetPOEInfos_1(p) \/ GetPOEInfosNI_1(p) \/ GetPOEInfo_1(p) \/ GetPOEInfoNI_1(p)
Configs(p) == \/ GetPOEConfig(p) \/ GetPOEConfigNI(p) \/ GetPOEConfigs_1(p)
              \/ GetPOEConfigsNI_1(p) \/ GetPOEConfig_1(p) \/ GetPOEConfigNI_1(p)
Sets(p) == \/ SetPOEConfig(p) \/ SetPOEConfigNI(p) \/ SetPOEConfigs_1(p)
           \/ SetPOEConfigsNI_1(p) \/ SetPOEConfig_1(p) \/ SetPOEConfigNI_1(p)
Stats(p) == \/ GetPOEStats(p) \/ GetPOEStatsNI(p) \/ GetPOEStat(p) \/ GetPOEStatNI(p)
            \/ GetPOEStats_1(p) \/ GetPOEStatsNI_1(p) \/ GetPOEStat_1(p) \/ GetPOEStatNI_1(p)
Buzzer(p) == \/ GetBuzConfig(p) \/ GetBuzConfigNI(p) \/ SetBuzConfig(p) \/ SetBuzConfigNI(p)

PoeStep(p) ==
    \E ok \in BOOLEAN :
        \/ AllRead(p, ok) \/ AllWrite(p, ok) \/ AllPorts(p, ok)
        \/ ReadCtrlGet(p, ok) \/ SelectCfg(p, ok) \/ ReadCfg(p, ok)
        \/ ReadCtrlSet(p, ok) \/ ReadCtrlSetOne(p, ok) \/ CloseSwitch(p, ok)
        \/ SelectSet(p, ok) \/ ReadSet(p, ok) \/ Detect(p, ok) \/ PowerOff(p, ok)
        \/ SelectStat(p, ok) \/ ReadStat(p, ok) \/ ReadBuz(p, ok) \/ WriteBuz(p, ok)

PoeAct(p) ==
    \/ Begin(p) \/ NoHardware(p) \/ Infos(p) \/ Configs(p) \/ Sets(p)
    \/ Stats(p) \/ Buzzer(p) \/ PoeStep(p) \/ NextGroup(p) \/ Fin(p)

PoeNext == UNCHANGED scene /\ \E p \in Who[scene] :
    \/ AskCounts(p) /\ UNCHANGED <<ctrl, port, poecfg, call, cursor>>
    \/ PoeAct(p)

PoeSpec == PoeInit /\ [][PoeNext]_poeVars

-----------------------------------------------------------------------------
Done(p, ops, r) == pc[p] = "idle" /\ op[p] \in ops /\ ret[p] = r
Ids(p) == DOMAIN call[p].ids

\* What the hardware does: a port is fed when the switch of the main group is
\* closed and, where the firmware has groups, the port looks for a device.
Fed(l, id) ==
    IF ~board.groups THEN {"main", "iom"} \subseteq ctrl
    ELSE /\ PortOf(l, id) \in port[GroupOf(l, id)]
         /\ GroupOf(l, id) = Main => "main" \in ctrl

\* Once counting has succeeded, a call of the only program that returns TRUE has
\* told for every port of its array whether it is fed, whatever failed before and
\* however the ports mix the groups.
ConfigTruth == Alone => \A p \in Procs :
    Done(p, {"GetPOEConfigs_1", "GetPOEConfig_1"}, "true") /\ Known(p) =>
        \A i \in Ids(p) : call[p].val[i] = IF Fed(lib[p], call[p].ids[i]) THEN "on" ELSE "off"

\* A list of ports is set when the call of the only program says so.
SetTruth == Alone => \A p \in Procs :
    Done(p, {"SetPOEConfigs_1"}, "true") =>
        \A i \in Ids(p) : Fed(lib[p], call[p].ids[i]) <=>
            \E j \in call[p].on \cap Ids(p) : call[p].ids[j] = call[p].ids[i]

\* To a program alone with the AIC, what is drawn at a port of one group is never
\* reported for a port of the other, although the AIC answers for the group it
\* was last asked for.  Another program asks for its own group in between.
StatTruth == Alone => \A p \in Procs :
    Done(p, {"GetPOEStats_1", "GetPOEStatsNI_1", "GetPOEStat_1"}, "true") /\ Known(p) /\ board.groups =>
        \A i \in Ids(p) : call[p].val[i] =
            IF GroupOf(lib[p], call[p].ids[i]) = Pcie THEN "pcie" ELSE "main"

\* Once the only program has counted, a port is said to be there when the board
\* has it, in the main group or behind the bound of the groups before PCIe.
OnBoard(id) == id \in 1..board.main \/ (board.groups /\ id - 2 * N \in 1..board.pcie)
InfoTruth == Alone => \A p \in Procs :
    Done(p, {"GetPOEInfos_1", "GetPOEInfo_1"}, "true") /\ Known(p) =>
        \A i \in Ids(p) : call[p].val[i] <=> OnBoard(call[p].ids[i])

\* DEVCTRL has bits of three devices: a call for one leaves the others' as
\* they are.  SetPOEConfig_1 does not: for a port behind PCIe it writes a byte it
\* has not read.
KeepsSwitch ==
    /\ \A p \in Procs : op[p] = "SetBuzConfig" /\ pc[p] = "bset" /\ pc'[p] # "bset" =>
           ctrl' \ {"buz"} = ctrl \ {"buz"}
    /\ \A p \in Procs : op[p] \notin {"SetBuzConfig", "SetPOEConfig_1"}
                        /\ pc[p] \in {"allw", "swr"} /\ pc'[p] # pc[p] =>
           ("buz" \in ctrl' <=> "buz" \in ctrl)

\* Without a failed transfer SetPOEConfigs_1 changes no port that is not in its
\* array.
OnlyNamed == [][\A p \in Procs, g \in PoeGroups :
    op[p] = "SetPOEConfigs_1" /\ pc[p] # "idle" /\ pc'[p] # pc[p] /\ faults = 0 =>
        /\ port'[g] \ port[g] \subseteq Asked(lib[p], call[p].ids, g)
        /\ port[g] \ port'[g] \subseteq Asked(lib[p], call[p].ids, g)]_poeVars
=============================================================================
