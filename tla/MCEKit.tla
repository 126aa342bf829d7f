------------------------------- MODULE MCEKit -------------------------------
EXTENDS AicLibrary, TLC

CONSTANTS p1, p2

\* counts: what is cached; config, sets, infos, stats: the PoE calls of one
\* program; shared: those of two.  com, mini, usb, power, fans, dogs: the other
\* calls of one program; monitors, rivals: of two.
PoeScenes == {"config", "sets", "infos", "stats"}
PortScenes == {"com", "mini", "usb", "power", "fans", "dogs"}
Pairs == {"shared", "monitors", "rivals"}
AllScenes == {"counts"} \cup PoeScenes \cup PortScenes \cup Pairs
SceneWho == [s \in AllScenes |-> IF s \in Pairs THEN {p1, p2} ELSE {p1}]

\* Two programs of a pair make the same calls; where p1 is alone, no two states
\* that are reached differ by an exchange of the programs.
Symmetric == Permutations({p1, p2})

SceneUses ==
    [counts |-> Queries \cup {"GetCount"},
     config |-> {"GetPOEConfig", "GetPOEConfigs_1", "GetPOEConfig_1", "SetPOEConfigs_1"},
     sets |-> {"SetPOEConfig", "SetPOEConfigs_1", "SetPOEConfig_1", "GetBuzConfig", "SetBuzConfig"},
     infos |-> {"GetCount", "GetPOEStats", "GetPOEStat"} \cup PoeInfos,
     stats |-> {"GetPOEStats_1", "GetPOEStatsNI_1", "GetPOEStat_1"},
     shared |-> {"SetPOEConfig", "GetPOEStat_1"}]
    @@ [s \in AllScenes |-> {}]

\* What can be told apart without the AIC's version strings and COM ports.
PoeBoards == {b \in AllBoards : ~b.v2c /\ ~b.blank /\ b.vers = 0 /\ b.com = 2 /\ b.usb = 2 /\ b.fan = 2
                                /\ (b.pcie > 0 => b.groups)}
NewBoards == {b \in PoeBoards : b.groups /\ b.main > 0 /\ b.pcie > 0}

\* Every value of each field, but not every combination.
CountBoards == {b \in AllBoards : /\ b.com = b.usb /\ b.com = b.fan /\ b.v2c = (b.com = 0)
                                    /\ (b.blank => b.vers = 0) /\ (b.vers = 0 <=> b.main = 0)}
PortBoards == {b \in AllBoards : /\ b.groups /\ ~b.v2c /\ ~b.blank /\ b.vers = 0
                                 /\ b.main = 0 /\ b.pcie = 0 /\ b.usb = b.fan}
Full == {b \in PortBoards : b.com = 2 /\ b.usb = 2}
SceneBoards == [counts |-> CountBoards, shared |-> NewBoards,
                config |-> {b \in PoeBoards : b.main > 0 /\ (b.groups => b.pcie > 0)}, 
                infos |-> {b \in PoeBoards : b.groups => b.main = b.pcie}, sets |-> {b \in PoeBoards : b.main > 0 /\ (b.groups => b.pcie > 0)},
                com |-> {b \in PortBoards : b.usb = 0},
                usb |-> {b \in PortBoards : b.com = 0}, fans |-> Full]
               @@ [s \in PoeScenes |-> PoeBoards] @@ [s \in AllScenes |-> Full]
SceneFaults == [sets |-> 0, shared |-> 0, rivals |-> 0] @@ [s \in AllScenes |-> 1]

AllOff == [ctrl |-> {}, ports |-> {{}}]
Either == [ctrl |-> {"main", "buz"}, ports |-> {{}, Ports}]
SceneSwitches == [sets |-> Either, config |-> [ctrl |-> {"main"}, ports |-> {Ports}],
                  shared |-> [AllOff EXCEPT !.ctrl = {"main"}]] @@ [s \in AllScenes |-> AllOff]

\* The arguments of the calls: lists and single ids that name a device, none,
\* one that is not there or one twice, and values to set.
Gets(ops, lists) == [op : ops, ids : lists, set : {<<>>}]
SetsTo(ops, lists, vals) == UNION {[op : ops, ids : {ids}, set : [DOMAIN ids -> vals]] : ids \in lists}
Few == {<<0>>, <<0, 0>>, <<2, 1>>, <<1, 0>>}
Single1 == {<<0>>, <<2>>, <<3>>}
Dogs == {[on |-> FALSE, wdt |-> 0]} \cup [on : {TRUE}, wdt : {0, 1, 2, 3}]
Some == {[auto |-> "auto", pwm |-> "slow"], [auto |-> "manual", pwm |-> "fast"]}
Kept == [auto : {"keep"}, pwm : {"fast"}]

SceneRequests ==
    [com |-> Gets({"GetCOMInfos", "GetCOMConfigs"}, Few) \cup Gets({"GetCOMInfo", "GetCOMConfig"}, Single1)
             \cup SetsTo({"SetCOMConfigs"}, {<<0>>, <<2, 1>>, <<1, 1>>}, {0, 5})
             \cup SetsTo({"SetCOMConfig"}, {<<0>>, <<1>>, <<3>>}, {0, 4, 5}),
     mini |-> Gets({"GetminiPCIeInfos", "GetminiPCIeConfigs", "GetminiPCIeStats"}, {<<2, 4>>})
              \cup Gets({"GetminiPCIeInfo", "GetminiPCIeConfig", "GetminiPCIeStat"}, {<<0>>})
              \cup SetsTo({"SetminiPCIeConfigs"}, {<<3, 1>>}, {FALSE})
              \cup SetsTo({"SetminiPCIeConfig"}, {<<0>>, <<4>>}, {TRUE}),
     usb |-> Gets({"GetUSBInfos", "GetUSBConfigs"}, Few) \cup Gets({"GetUSBInfo", "GetUSBConfig"}, Single1)
             \cup SetsTo({"SetUSBConfigs"}, {<<0>>, <<2, 1>>, <<0, 0>>, <<1, 1>>}, BOOLEAN)
             \cup SetsTo({"SetUSBConfig"}, {<<0>>, <<2>>, <<3>>}, BOOLEAN),
     power |-> Gets({"GetLANConfig", "GetPowerConfig"} \cup Meters, {<<>>})
               \cup [op : {"SetLANConfig"}, ids : {<<>>}, set : {<<TRUE>>, <<FALSE>>}]
               \cup [op : {"SetPowerConfig"}, ids : {<<>>},
                     set : {<<[mode |-> m, timer |-> 1]>> : m \in {0, Ignition, MaxPower + 1}}],
     dogs |-> Gets({"GetPowerupWDTConfig", "GetRuntimeWDTConfig", "GetRuntimeWDTStat"}, {<<>>})
              \cup [op : {"SetPowerupWDTConfig", "SetPowerupWDTConfigNI", "SetRuntimeWDTConfig"},
                    ids : {<<>>}, set : {<<d>> : d \in Dogs}]
              \cup Gets({"GetHWMonStats"}, {<<0, 0>>}) \cup Gets({"GetHWMonStat"}, {<<2>>}),
     fans |-> Gets({"GetFanInfos", "GetFanConfigs", "GetFanConfigs_1", "GetFanStats"}, {<<2, 1>>})
              \cup Gets({"GetFanConfigsNI"}, {<<2, 1>>}) \cup Gets({"GetFanConfig_1"}, {<<0>>, <<3>>})
              \cup Gets({"GetFanInfo", "GetFanConfig", "GetFanConfigNI", "GetFanStat"}, {<<0>>})
              \cup SetsTo({"SetFanConfigs", "SetFanConfigsNI"}, {<<2, 1>>}, {[auto |-> "auto", pwm |-> "fast"]})
              \cup SetsTo({"SetFanConfig"}, {<<0>>}, {[auto |-> "auto", pwm |-> "slow"]})
              \cup SetsTo({"SetFanConfigs_1"}, {<<2, 1>>}, {[auto |-> "manual", pwm |-> "fast"]}) \cup SetsTo({"SetFanConfigsNI_1"}, {<<0>>}, Some)
              \cup SetsTo({"SetFanConfigsNI_1"}, {<<2, 1>>}, Kept)
              \cup SetsTo({"SetFanConfig_1"}, {<<1>>}, Some),
     monitors |-> Gets({"GetHWMonInfosA"}, {<<2>>}) \cup Gets({"GetHWMonInfoA"}, {<<0>>}),
     rivals |-> SetsTo({"SetUSBConfig"}, {<<1>>, <<2>>}, {FALSE})
                \cup SetsTo({"SetFanConfig_1"}, {<<1>>}, {[auto |-> "manual", pwm |-> "fast"]})
                \cup [op : {"SetPowerConfig"}, ids : {<<>>}, set : {<<[mode |-> 0, timer |-> 1]>>}]]
    @@ [s \in AllScenes |-> {}]

\* The registers at first: everything on, or some of it.
Usual == [busgpio |-> [lan |-> TRUE, spare |-> TRUE], com |-> <<0, 4>>,
          mini |-> <<TRUE, TRUE, FALSE>>, present |-> <<TRUE, FALSE, FALSE>>,
          usb |-> <<TRUE, TRUE>>, aiccfg |-> [mode |-> 1, timer |-> 3, auto |-> <<TRUE, FALSE, TRUE>>],
          pwm |-> <<"curve", "slow", "slow">>, pwrup |-> 0, run |-> 0,
          monsel |-> 0, blank |-> FALSE, strange |-> FALSE]
SceneRegisters == [usb |-> {Usual, [Usual EXCEPT !.usb = <<FALSE, TRUE>>]},
                   power |-> {Usual, [Usual EXCEPT !.strange = TRUE]},
                   dogs |-> {[Usual EXCEPT !.pwrup = w] : w \in {0, 1}},
                   monitors |-> {Usual, [Usual EXCEPT !.blank = TRUE]}]
                  @@ [s \in AllScenes |-> {Usual}]
=============================================================================
