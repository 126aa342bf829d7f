-------------------------------- MODULE MCModules --------------------------------
EXTENDS BiosModules

Uc(id, data, size) == Module("uc", id, data, size)
Fv(data, size) == Module("fv", 1, data, size)
Backup(data, size) == Module("backup", 0, data, size)
Raw(data, size) == Module("data", 0, data, size)

AreaOf2(ms, n) == Filled(FlattenSeq([i \in 1..Len(ms) |-> WordsOf(ms[i])]), n)
TargetOf(dyn, stat) == [extd |-> Filled(WordsOf(Raw("bios", 2)), 2), dynamic |-> AreaOf2(dyn, 4),
    static |-> AreaOf2(stat, 12), user |-> AreaOf2(<<Raw("user", 3)>>, 4)]

Command(do, m) == [do |-> do, m |-> m, last |-> FALSE, by |-> {"kind", "id"}, h |-> Nobody]
AddC(m) == Command("add", m)
DelC(m) == Command("del", m)
OemC(ver) == Command("oem", [Root EXCEPT !.addr = ver])
CreateC(h, in) == [Command("create", in) EXCEPT !.h = h]
FromLast(c) == [c EXCEPT !.last = TRUE]

ModuleScene(target, dyn, stat, cmds) == [target |-> target, access |-> "user", locked |-> FALSE,
    store |-> TargetOf(dyn, stat), cmds |-> cmds]
Two1 == <<Root, Uc(1, "a", 3)>>
WithVolume == <<Root, PadModule(3), Fv("a", 3)>>

Save(do, m, by) == [Command(do, m) EXCEPT !.by = by]
Setting(kind) == [Module(kind, 0, "none", 3) EXCEPT !.addr = "none"]
Spoiled(m) == [m EXCEPT !.body = "bad"]
Elsewhere(m) == [m EXCEPT !.addr = "other"]
Spare(m) == [m EXCEPT !.used = FALSE]

\* Changes of each kind, and again after whatever became of the first.
Changes == {
    <<AddC(Uc(2, "b", 3))>>, <<AddC(Uc(1, "b", 4)), AddC(Uc(2, "c", 3))>>,
    <<AddC(Backup("t", 3)), DelC(Uc(1, "a", 3))>>,
    <<OemC("v1"), OemC("v2")>>, <<AddC(Fv("b", 3)), AddC(Fv("c", 4))>>,
    \* more than fits, without and with the pad, and what is not there
    <<AddC(Uc(2, "b", 9))>>, <<AddC(Fv("b", 6))>>, <<DelC(Uc(3, "c", 3)), Command("list", Nobody)>>,
    \* a copy of the settings becomes the default ones, and a module its own
    <<Save("save", Backup("s", 3), {"kind"}), FromLast(CreateC(Setting("default"), Nobody)),
      FromLast(AddC(Nobody))>>,
    <<Save("save", Uc(1, "a", 3), {"kind", "id"}), DelC(Uc(1, "a", 3)), FromLast(AddC(Nobody))>>}
\* What looks only, and what is refused.
LooksOnly == {
    <<Save("dsave", Uc(1, "a", 3), {"kind"}), FromLast(Save("dcmp", Uc(1, "a", 3), {"kind"})), Command("cmp", Uc(1, "b", 3))>>,
    <<Save("save", Backup("s", 3), {"kind", "id"}), FromLast(Command("cmp", Nobody)),
      Save("save", Uc(1, "a", 3), {"id"})>>}
Refusals == {<<AddC(m)>> : m \in {Module("junk", 0, "none", 2), PadModule(3), Module("vbios", 0, "v", 3),
    Module("string", 0, "s", 3), Spoiled(Fv("b", 3)), Spoiled(Uc(2, "b", 3)), Elsewhere(Setting("fixed"))}}
    \cup {<<CreateC(h, in)>> : h \in {Setting("fixed"), Setting("menu"), Setting("string")},
                               in \in {Elsewhere(Backup("t", 3)), Spoiled(Raw("d", 1))}}
Untidy == <<Root, Spare(Uc(1, "b", 3)), Uc(1, "a", 3)>>

MCModuleScenes ==
    {ModuleScene("board", <<Backup("s", 3)>>, Two1, cs) : cs \in Changes \cup LooksOnly}
    \cup {ModuleScene("board", <<>>, WithVolume, cs) : cs \in {
        <<DelC(Fv("a", 3)), AddC(Uc(2, "b", 3))>>, <<AddC(Uc(2, "b", 4)), DelC(Fv("a", 3))>>}}
    \cup {ModuleScene("board", <<>>, Untidy, <<AddC(Uc(2, "c", 3)), OemC("v1")>>)}
    \cup {[ModuleScene("board", <<>>, ms, <<AddC(Uc(2, "c", 4))>>) EXCEPT !.locked = TRUE] : ms \in {Untidy, Two1}}
    \cup {ModuleScene("file", <<Backup("s", 3)>>, Two1, cs) : cs \in {
        <<AddC(Uc(1, "b", 4)), DelC(Uc(1, "b", 4))>>}}
    \cup {ModuleScene("file", <<>>, <<Root, PadModule(3)>>, <<OemC("v1")>>)}
    \cup {ModuleScene("board", <<>>, Two1, cs) : cs \in Refusals}
    \cup {ModuleScene("board", <<>>, Two1, <<CreateC(Setting(k), Raw("d", 2)), FromLast(AddC(Nobody))>>) :
        k \in {"menu", "uc", "setup"}}
    \cup {ModuleScene("none", <<>>, <<>>, <<CreateC(Setting(k), Raw("d", 1))>>) : k \in {"menu", "setup", "string"}}
=============================================================================
