------------------------------ MODULE BiosModules ------------------------------
(***************************************************************************)
(* The module command of congatec's utility: it reads the module areas of  *)
(* the board or of a BIOS file, tidies them in memory, adds, deletes,      *)
(* compares, saves or makes a module there, and writes back what differs,  *)
(* erasing a block only where a bit has to rise.                           *)
(***************************************************************************)
EXTENDS Naturals, Sequences, FiniteSets, SequencesExt

CONSTANTS
    ModuleScenes, \* one in each behaviour: the target, its areas and the commands
    ModuleFaults, \* bound: calls that fail, and kills
    ModuleTries,  \* MAX_MODULE_FLASH_RETRIES
    BlockWords,   \* words of a block of the flash
    Align         \* what a firmware volume's data is aligned to, in words

VARIABLES
    order,  \* the scene: target, access level, protection, and the commands
    store,  \* the areas of the target, in words
    util,   \* the utility: where it is, its buffers and places, what it said
    hurt    \* calls that failed, and kills

moduleVars == <<order, store, util, hurt>>

-----------------------------------------------------------------------------
(* Modules and the words they take.                                        *)

\* g_MpfaTypeList: what each area may hold.  The root and string tables have a
\* type, but no area.
AreaKinds == [dynamic |-> {"backup"}, user |-> {}, extd |-> {},
    static |-> {"default", "uc", "pda", "logo", "setup", "fixed", "vmode", "hdaverb", "slic", "slp",
                "vbios", "oemvbios", "smalllogo", "oemlogo", "fv", "oa30", "menu", "smbios", "pad"}]
MpfaAreas == {"dynamic", "static"}
AreaOf(kind) == {s \in MpfaAreas : kind \in AreaKinds[s]}

\* One word for the header, one for the end; addr is what the header keeps of
\* the BIOS version, of which "unset" has every bit set.
Module(kind, id, data, size) == [kind |-> kind, id |-> id, data |-> data, size |-> size,
    addr |-> "this", body |-> "good", used |-> TRUE, orig |-> TRUE]
Nobody == Module("none", 0, "none", 0)
Root == [Module("root", 0, "none", 2) EXCEPT !.addr = "unset"]
PadModule(size) == [Module("pad", 0, "none", size) EXCEPT !.addr = "none"]

BlankWord == [m |-> Nobody, i |-> 0]
EndWord == [m |-> Nobody, i |-> 2]
MixedWord == [m |-> Nobody, i |-> 3]     \* written over something else
Inner(m, i) == IF m.kind = "pad" THEN BlankWord
               ELSE [m |-> [m EXCEPT !.used = TRUE, !.orig = TRUE, !.addr = "none"], i |-> i]
WordsOf(m) == [i \in 1..m.size |->
    IF i = 1 THEN [m |-> m, i |-> 1] ELSE IF i = m.size THEN EndWord ELSE Inner(m, i)]
Filled(ws, n) == [i \in 1..n |-> IF i <= Len(ws) THEN ws[i] ELSE BlankWord]

\* A header, and one whose end is where it says.
HeaderAt(b, i) == i <= Len(b) /\ b[i].i = 1
After1(b, i) == i + b[i].m.size
ModuleAt(b, i) == HeaderAt(b, i) /\ After1(b, i) <= Len(b) + 1 /\ b[After1(b, i) - 1] = EndWord

-----------------------------------------------------------------------------
(* CgMpfaRebuildSection and CgMpfaFindModule.                              *)

\* What is copied, and what gets a pad: used modules, wherever they are.  Behind
\* a pad whatever follows is copied as it is; with no header there its size is
\* read from anything (0).
Pieces(b) == LET P[i \in 1..(Len(b) + 1)] ==
    IF i > Len(b) THEN <<>>
    ELSE IF ~ModuleAt(b, i) THEN P[i + 1]
    ELSE LET j == After1(b, i) IN
         IF ~b[i].m.used THEN P[j]
         ELSE IF b[i].m.kind # "pad" THEN <<[from |-> i, pad |-> b[i].m.kind = "fv"]>> \o P[j]
         ELSE IF HeaderAt(b, j) /\ After1(b, j) <= Len(b) + 1
              THEN <<[from |-> j, pad |-> FALSE]>> \o P[After1(b, j)]
         ELSE <<[from |-> 0, pad |-> FALSE]>>
    IN P[1]

\* The pad that brings the data of a volume placed next to its alignment; never
\* without data.
PadFor(placed) == PadModule(2 + Align - ((placed + 3) % Align))

\* A pad that does not fit is an error; a module that does not fit is written
\* past the buffer.
Rebuild(b) ==
    LET Place(acc, p) ==
            LET pad == IF p.pad THEN WordsOf(PadFor(Len(acc.w))) ELSE <<>> IN
            IF acc.ret # "ok" THEN acc
            ELSE IF Len(acc.w) + Len(pad) > Len(b) THEN [acc EXCEPT !.ret = "error"]
            ELSE IF p.from = 0 THEN [acc EXCEPT !.ret = "wild"]
            ELSE [acc EXCEPT !.w = @ \o pad \o SubSeq(b, p.from, After1(b, p.from) - 1)]
        r == FoldLeft(Place, [ret |-> "ok", w |-> <<>>], Pieces(b))
    IN [ret |-> IF r.ret = "ok" /\ Len(r.w) > Len(b) THEN "spilt" ELSE r.ret,
        w |-> IF r.ret = "error" THEN b ELSE Filled(r.w, Len(b)),
        add |-> Len(r.w)]

\* What a search may go by; any other combination finds nothing.
Matches(h, m, by) ==
    CASE by = {"kind"} -> h.kind = m.kind
      [] by = {"kind", "id"} -> h.kind = m.kind /\ h.id = m.id
      [] by = {"all"} -> h = m
      [] OTHER -> FALSE

\* Modules are found as long as each begins where the one before it ends.
Found1(b) == LET F[i \in 1..(Len(b) + 1)] ==
    IF i > Len(b) \/ ~ModuleAt(b, i) THEN <<>> ELSE <<i>> \o F[After1(b, i)] IN F[1]
Find(b, m, by) ==
    LET hits == SelectSeq(Found1(b), LAMBDA i : b[i].m.used /\ Matches(b[i].m, m, by))
    IN IF hits = <<>> THEN 0 ELSE hits[1]

Unused(b, i) == [b EXCEPT ![i].m.used = FALSE]

\* The root, if the area has one, says that the BIOS is no longer the original.
MarkRoot(b) == LET i == Find(b, Root, {"kind"}) IN IF i = 0 THEN b ELSE [b EXCEPT ![i].m.orig = FALSE]

-----------------------------------------------------------------------------
(* CgMpfaModuleTypeSpecificCheck.                                          *)

\* What must belong to the BIOS's version, and what has a body to be checked.
\* The board's and the file's BIOS is an EFI one, so logos and the sizes of two
\* kinds of settings are not looked at; without a target it has no version.
BiosVersion == IF order.target = "none" THEN "zero" ELSE "this"
OfSize == {"fixed"} \cup (IF order.target = "none" THEN {"backup", "default"} ELSE {})
OfVersion == {"backup", "default", "fixed", "setup", "string", "menu"}
OfBody == {"setup", "string", "pda", "vmode", "hdaverb", "fv"}
Checked(m) ==
    IF m.kind \in OfSize /\ m.body = "short" THEN "incomp"
    ELSE IF m.kind \in OfBody /\ m.body # "good" THEN "inv_data"
    ELSE IF m.kind \in OfVersion /\ m.addr # BiosVersion THEN "incomp"
    ELSE IF m.kind = "uc" /\ m.body = "bad" THEN "inv_parm" ELSE "ok"

-----------------------------------------------------------------------------
(* The commands, on the buffers.                                           *)

\* CgMpfaAddModule: all of the kind, or of the kind and number, go first.  The
\* room for a volume's pad is not looked at.
AddBy(m) == IF m.kind \in {"backup", "pda"} THEN {"kind"} ELSE {"kind", "id"}
Purged(b, add, m) ==
    FoldLeft(LAMBDA r, n : LET i == Find(r.w, m, AddBy(m)) IN
                           IF r.ret # "ok" \/ i = 0 THEN r ELSE Rebuild(Unused(r.w, i)),
             [ret |-> "ok", w |-> b, add |-> add], [n \in 1..Len(b) |-> n])
PadBefore(m, add) == IF m.kind = "fv" THEN WordsOf(PadFor(add)) ELSE <<>>
Added(b, add, m) ==
    LET r == Purged(b, add, m)
        w == SubSeq(r.w, 1, r.add) \o PadBefore(m, r.add) \o WordsOf(m)
    IN IF r.ret # "ok" THEN r
       ELSE IF r.add + m.size > Len(b) THEN [r EXCEPT !.ret = "size"]
       ELSE [ret |-> IF Len(w) > Len(b) THEN "spilt" ELSE "ok",
             w |-> MarkRoot(Filled(w, Len(b))), add |-> Len(w)]
AddRefused(m, access) ==
    IF m.kind \in {"junk", "odd"} THEN "inv"
    ELSE IF Checked(m) # "ok" THEN Checked(m)
    ELSE IF m.kind = "pad" \/ (m.kind = "vbios" /\ access = "user") THEN "notallowed"
    ELSE IF AreaOf(m.kind) = {} THEN "inv" ELSE "ok"

\* CgMpfaDelModule: the first that matches.
ByUser == {"pda", "vbios", "pad"}
Deleted(b, add, m, by, access) ==
    LET i == Find(b, m, by)
        r == Rebuild(Unused(b, i))
    IN IF i = 0 THEN [ret |-> "notfound", w |-> b, add |-> add]
       ELSE IF m.kind \in ByUser /\ access = "user" THEN [ret |-> "notallowed", w |-> b, add |-> add]
       ELSE [r EXCEPT !.w = MarkRoot(@)]

\* CgMpfaSetOEMBiosVersion; the version is kept in the root.
Versioned(b, add, ver) ==
    LET i == Find(b, Root, {"kind"})
    IN IF i = 0 THEN [ret |-> "error", w |-> b, add |-> add]
       ELSE [ret |-> "ok", w |-> [b EXCEPT ![i].m.orig = FALSE, ![i].m.addr = ver], add |-> add]

\* CgMpfaCmpModule: of a module file, or of the data behind a header that the
\* arguments give.  Settings are found without their header, which the BIOS
\* changes.
Compared(b, c, m) ==
    LET whole == c.do = "cmp"
        h == IF whole THEN m ELSE c.m
        by == IF h.kind = "backup" THEN {"kind", "id"} ELSE IF whole THEN {"all"} ELSE c.by
        i == Find(b, h, by)
    IN IF AreaOf(h.kind) = {} THEN "inv" ELSE IF i = 0 THEN "notfound"
       ELSE IF b[i].m.size # m.size + (IF whole THEN 0 ELSE 2) \/ b[i].m.data # m.data THEN "nomatch"
       ELSE "ok"

\* CgMpfaSaveModule: the module as a file, settings with the version of this
\* BIOS; or its data.
Saved(m, do) == IF do = "dsave" THEN [m EXCEPT !.kind = "data", !.size = @ - 2]
                ELSE IF m.kind = "backup" THEN [m EXCEPT !.addr = BiosVersion] ELSE m

\* CgMpfaCreateModule: default and fixed settings are made of a saved backup;
\* four kinds get the version of this BIOS, a menu the one its file names.
FromBackup == {"default", "fixed"}
Stamped == FromBackup \cup {"setup", "string"}
Created(h, in) ==
    [h EXCEPT !.data = in.data, !.body = in.body, !.used = TRUE,
              !.size = IF h.kind \in FromBackup THEN in.size ELSE in.size + 2,
              !.addr = IF h.kind \in Stamped THEN BiosVersion ELSE IF h.kind = "menu" THEN in.addr ELSE @]
CreateRefused(h, in) ==
    IF AreaOf(h.kind) = {} THEN "unknown"
    ELSE IF h.kind \in {"smbios", "menu"} /\ in.body # "good" THEN "inv_data"
    ELSE IF h.kind \in FromBackup /\ in.kind # "backup" THEN "inv_data"
    ELSE IF h.kind \in FromBackup /\ in.addr # BiosVersion THEN "incomp"
    ELSE Checked(Created(h, in))
-----------------------------------------------------------------------------
(* The target.                                                             *)

\* g_MpfaSectionList, without the area of the whole flash: on a board nothing is
\* read into it, and in a file it lies in what "extd" has.
AreaList == IF order.target = "file" THEN <<"extd", "dynamic", "static", "user">>
         ELSE <<"dynamic", "static", "user">>
AreaSet == {"extd"} \cup MpfaAreas \cup {"user"}
NoBuffers == [s \in AreaSet |-> <<>>]

\* What is assumed of a target: it has each of the areas, be it an empty one.
ASSUME ModulesAssumption == \A s \in ModuleScenes : DOMAIN s.store = AreaSet

IdleUtil == [at |-> "start", n |-> 1, buf |-> NoBuffers, old |-> NoBuffers,
             area |-> 1, blk |-> 1, first |-> 0, last |-> 0, force |-> FALSE, inner |-> 0, outer |-> 0,
             out |-> Nobody, spilt |-> FALSE, said |-> "none"]

ModulesInit == /\ order \in ModuleScenes
               /\ store = order.store
               /\ util = IdleUtil
               /\ hurt = 0

Cmd == order.cmds[util.n]
InputOf(c) == IF c.last THEN util.out ELSE c.m   \* a file of its own, or the one made before
UtilAt(at) == util.at = at
Mishap(ok) == IF ok THEN hurt' = hurt ELSE hurt < ModuleFaults /\ hurt' = hurt + 1
Say(u, said) == [u EXCEPT !.at = "end", !.said = said]

-----------------------------------------------------------------------------
(* Loading and the command.                                                *)

\* CgMpfaStart: access, the BIOS's information, the areas, each of them read;
\* any of it may fail, and then the command says so and yet exits with 0.
LoadFails ==
    /\ UtilAt("start") /\ order.target # "none" /\ Mishap(FALSE)
    /\ util' = Say(util, "refused")
    /\ UNCHANGED <<order, store>>

LoadAreas ==
    /\ UtilAt("start") /\ UNCHANGED <<order, store, hurt>>
    /\ LET tidy == [s \in MpfaAreas |-> Rebuild(store[s])]
           loaded == [util EXCEPT !.old = store, !.at = "edit",
               !.buf = [s \in AreaSet |-> IF s \in MpfaAreas THEN tidy[s].w ELSE store[s]],
               !.spilt = @ \/ \E s \in MpfaAreas : tidy[s].ret = "spilt"]
       IN IF order.target = "none" THEN util' = [util EXCEPT !.at = "edit"]
          ELSE IF order.target = "file" /\ store["extd"] = <<>> THEN util' = Say(util, "refused")
          ELSE IF \E s \in MpfaAreas : tidy[s].ret = "wild" THEN util' = Say(util, "crashed")
          ELSE IF \E s \in MpfaAreas : tidy[s].ret = "error" THEN util' = Say(util, "refused")
          ELSE \/ util' = loaded
               \/ /\ \E s \in MpfaAreas : tidy[s].ret = "spilt"
                  /\ util' = Say(util, "crashed")

\* A change of one area's buffer: nothing is applied unless it succeeded.
Edited(s, r) ==
    \/ /\ r.ret = "wild" \/ r.ret = "spilt"
       /\ util' = Say(util, "crashed")
    \/ /\ r.ret \in {"ok", "spilt"}
       /\ util' = [util EXCEPT !.buf[s] = r.w, !.at = "ask", !.spilt = @ \/ r.ret = "spilt"]
    \/ /\ r.ret \notin {"ok", "spilt", "wild"}
       /\ util' = Say(util, r.ret)

\* Where the area's next module would go.
AddAt(s) == Rebuild(store[s]).add
UnreadInput == UtilAt("edit") /\ Cmd.do \in {"add", "cmp", "dcmp", "create"}

InputFails ==
    /\ UnreadInput /\ Mishap(FALSE)
    /\ util' = Say(util, "error_file")
    /\ UNCHANGED <<order, store>>

AddModule ==
    /\ UtilAt("edit") /\ Cmd.do = "add" /\ UNCHANGED <<order, store, hurt>>
    /\ LET m == InputOf(Cmd)
           no == AddRefused(m, order.access)
       IN IF no # "ok" THEN util' = Say(util, no)
          ELSE \E s \in AreaOf(m.kind) : Edited(s, Added(util.buf[s], AddAt(s), m))

DelModule ==
    /\ UtilAt("edit") /\ Cmd.do = "del" /\ UNCHANGED <<order, store, hurt>>
    /\ IF AreaOf(Cmd.m.kind) = {} THEN util' = Say(util, "notfound")
       ELSE \E s \in AreaOf(Cmd.m.kind) :
                Edited(s, Deleted(util.buf[s], AddAt(s), Cmd.m, Cmd.by, order.access))

SetOem ==
    /\ UtilAt("edit") /\ Cmd.do = "oem" /\ UNCHANGED <<order, store, hurt>>
    /\ Edited("static", Versioned(util.buf["static"], AddAt("static"), Cmd.m.addr))

CmpModule ==
    /\ UtilAt("edit") /\ Cmd.do \in {"cmp", "dcmp"} /\ UNCHANGED <<order, store, hurt>>
    /\ LET m == InputOf(Cmd)
           kind == IF Cmd.do = "cmp" THEN m.kind ELSE Cmd.m.kind
           s == IF kind = "backup" THEN "dynamic" ELSE "static"
           ret == Compared(util.buf[s], Cmd, m)
       IN util' = Say(util, IF ret = "ok" THEN "done" ELSE ret)

\* The output file is made before it is written; a failure leaves it useless.
SaveModule(ok) ==
    /\ UtilAt("edit") /\ Cmd.do \in {"save", "dsave"} /\ UNCHANGED <<order, store>>
    /\ LET s == IF Cmd.m.kind = "backup" THEN "dynamic" ELSE "static"
           i == IF AreaOf(Cmd.m.kind) = {} THEN 0 ELSE Find(util.buf[s], Cmd.m, Cmd.by)
       IN IF i = 0 THEN ok /\ Mishap(ok) /\ util' = Say(util, "notfound")
          ELSE /\ Mishap(ok)
               /\ util' = IF ok THEN Say([util EXCEPT !.out = Saved(util.buf[s][i].m, Cmd.do)], "done")
                          ELSE Say([util EXCEPT !.out = Module("junk", 0, "none", 0)], "error_file")

CreateModule(ok) ==
    /\ UtilAt("edit") /\ Cmd.do = "create" /\ UNCHANGED <<order, store>>
    /\ LET in == InputOf(Cmd)
           no == CreateRefused(Cmd.h, in)
       IN IF no # "ok" THEN ok /\ Mishap(ok) /\ util' = Say(util, no)
          ELSE /\ Mishap(ok)
               /\ util' = IF ok THEN Say([util EXCEPT !.out = Created(Cmd.h, in)], "done")
                          ELSE Say([util EXCEPT !.out = Module("junk", 0, "none", 0)], "error_file")

\* The listing and the information change nothing; a list that cannot be
\* opened is no reason to exit with an error.
ListModules ==
    /\ UtilAt("edit") /\ Cmd.do = "list" /\ UNCHANGED <<order, store, hurt>>
    /\ util' = Say(util, "done")

-----------------------------------------------------------------------------
(* Writing back to the board: CgMpfaCheckBUPActive, CgMpfaApplyChanges,     *)
(* ApplyChangesToCgos and VerifyChangesToCgos.                             *)

\* A bit can fall without the block being erased: anything can be written where
\* nothing is, and flags and the unset version of a header.
Falls(f, b) ==
    \/ f = b \/ f = BlankWord
    \/ /\ f.i = 1 /\ b.i = 1
       /\ b.m \in {[f.m EXCEPT !.used = u, !.orig = o, !.addr = b.m.addr] :
                       u \in {FALSE, f.m.used}, o \in {FALSE, f.m.orig}}
       /\ f.m.addr \in {b.m.addr, "unset"}
Burnt(f, b) == IF Falls(f, b) THEN b ELSE MixedWord

WordsIn(k) == ((k - 1) * BlockWords + 1)..(k * BlockWords)
\* The last word of a block is not looked at, neither here nor by the check.
Looked(k) == WordsIn(k) \ {k * BlockWords}
BlocksOf(s) == Len(store[s]) \div BlockWords

Here1 == AreaList[util.area]
Buf == util.buf[Here1]
Img == store[Here1]
Afresh(u) == [u EXCEPT !.at = "scan", !.area = 1, !.blk = 1, !.first = 0, !.last = 0, !.force = FALSE]

AskProtected(ok) ==
    /\ UtilAt("ask") /\ Mishap(ok) /\ UNCHANGED <<order, store>>
    /\ ok \/ order.target = "board"
    /\ util' = IF order.target = "board" /\ order.locked /\ ok THEN Say(util, "protected")
               ELSE IF order.target = "board" THEN [Afresh(util) EXCEPT !.outer = 0]
               ELSE [util EXCEPT !.at = "trunc", !.outer = 0]

\* One more try of the whole, as long as there is one.
TryAgain == util' = IF util.outer + 1 < ModuleTries THEN [Afresh(util) EXCEPT !.outer = @ + 1]
                    ELSE Say(util, "failed")

\* Reading back fails, while it looks for differences or while it checks.
ReadFails ==
    /\ UtilAt("scan") \/ UtilAt("verify")
    /\ Mishap(FALSE) /\ TryAgain
    /\ UNCHANGED <<order, store>>

\* A block at a time: a bit that has to rise asks for an erase, and what was
\* found before is left to a later try; other differences are gathered.
Differs(k) == {w \in Looked(k) : Buf[w] # Img[w]}
MustErase(k) == util.force \/ \E w \in Looked(k) : ~Falls(Img[w], Buf[w])
Scan ==
    /\ UtilAt("scan") /\ util.blk <= BlocksOf(Here1)
    /\ util' = IF MustErase(util.blk)
               THEN [util EXCEPT !.at = "erase", !.first = 0, !.last = 0, !.inner = 0]
               ELSE IF Differs(util.blk) = {} THEN [util EXCEPT !.blk = @ + 1]
               ELSE [util EXCEPT !.blk = @ + 1, !.last = Max(Differs(util.blk)),
                                 !.first = IF @ = 0 THEN Min(Differs(util.blk)) ELSE @]
    /\ UNCHANGED <<order, store, hurt>>

\* A failed erase or write of a block is followed by another erase of it.
Failed1 == IF util.inner + 1 < ModuleTries THEN util' = [util EXCEPT !.at = "erase", !.inner = @ + 1]
           ELSE TryAgain
CanWrite == ~order.locked

EraseAreaBlock(ok) ==
    /\ UtilAt("erase") /\ UNCHANGED order
    /\ IF ok /\ CanWrite
       THEN /\ Mishap(TRUE)
            /\ store' = [store EXCEPT ![Here1] = [w \in DOMAIN @ |->
                             IF w \in WordsIn(util.blk) THEN BlankWord ELSE @[w]]]
            /\ util' = [util EXCEPT !.at = "fill"]
       ELSE Mishap(~CanWrite) /\ Failed1 /\ store' = store

\* A write that fails may have written nothing, a beginning, or everything.
Cuts(n) == {0, 1, n}
Written(ws) == store' = [store EXCEPT ![Here1] = [w \in DOMAIN @ |->
                             IF w \in ws THEN Burnt(@[w], Buf[w]) ELSE @[w]]]

FillBlock(ok) ==
    /\ UtilAt("fill") /\ Mishap(ok) /\ UNCHANGED order
    /\ IF ok THEN Written(WordsIn(util.blk)) /\ util' = [util EXCEPT !.at = "scan", !.blk = @ + 1]
       ELSE /\ Failed1
            /\ \E n \in Cuts(BlockWords) :
                   Written({w \in WordsIn(util.blk) : w <= (util.blk - 1) * BlockWords + n})

\* What can be written without an erase is written in one go; if that fails,
\* all of the area is erased and written.
WriteGathered(ok) ==
    /\ UtilAt("scan") /\ util.blk > BlocksOf(Here1) /\ util.first # 0 /\ UNCHANGED order
    /\ IF ok /\ CanWrite
       THEN /\ Mishap(TRUE) /\ Written(util.first..util.last)
            /\ util' = [util EXCEPT !.first = 0, !.last = 0]
       ELSE /\ Mishap(~CanWrite)
            /\ util' = [util EXCEPT !.blk = 1, !.first = 0, !.last = 0, !.force = TRUE]
            /\ IF CanWrite THEN \E n \in Cuts(util.last - util.first + 1) :
                                   Written(util.first..(util.first + n - 1))
               ELSE store' = store

\* (mutant) An area is forced because the one before it was.
NextAreaForced ==
    /\ UtilAt("scan") /\ util.blk > BlocksOf(Here1) /\ util.first = 0
    /\ util' = IF util.area = Len(AreaList) THEN [util EXCEPT !.at = "verify"]
               ELSE [util EXCEPT !.area = @ + 1, !.blk = 1]
    /\ UNCHANGED <<order, store, hurt>>

\* Each area of its own; the one behind the last is the check of them all.
NextArea ==
    /\ UtilAt("scan") /\ util.blk > BlocksOf(Here1) /\ util.first = 0
    /\ util' = IF util.area = Len(AreaList) THEN [util EXCEPT !.at = "verify"]
               ELSE [util EXCEPT !.area = @ + 1, !.blk = 1, !.force = FALSE]
    /\ UNCHANGED <<order, store, hurt>>

\* (mutant) Only the first area is read back.
VerifyFirst ==
    /\ UtilAt("verify") /\ UNCHANGED <<order, store, hurt>>
    /\ IF \A k \in 1..BlocksOf(AreaList[1]) : \A w \in Looked(k) :
              store[AreaList[1]][w] = util.buf[AreaList[1]][w]
       THEN util' = Say(util, "done") ELSE TryAgain

VerifyAreas ==
    /\ UtilAt("verify") /\ UNCHANGED <<order, store, hurt>>
    /\ IF \A a \in 1..Len(AreaList) : \A k \in 1..BlocksOf(AreaList[a]) : \A w \in Looked(k) :
              store[AreaList[a]][w] = util.buf[AreaList[a]][w]
       THEN util' = Say(util, "done") ELSE TryAgain

-----------------------------------------------------------------------------
(* Writing back to a file: ApplyChangesToRomfile.                          *)

\* The file is emptied and opened anew; without a file no try can follow.
Truncate(ok) ==
    /\ UtilAt("trunc") /\ Mishap(ok) /\ UNCHANGED order
    /\ IF ok THEN /\ util' = [util EXCEPT !.at = "fwrite", !.area = 1]
                  /\ store' = NoBuffers
       ELSE util' = Say(util, "failed") /\ store' = store

\* First all of the file, then each area over it.
WriteArea(ok) ==
    /\ UtilAt("fwrite") /\ Mishap(ok) /\ UNCHANGED order
    /\ IF ok
       THEN /\ store' = IF Here1 = "extd" THEN util.old ELSE [store EXCEPT ![Here1] = Buf]
            /\ util' = IF util.area = Len(AreaList) THEN Say(util, "done") ELSE [util EXCEPT !.area = @ + 1]
       ELSE /\ util' = IF util.outer + 1 < ModuleTries THEN [util EXCEPT !.at = "trunc", !.outer = @ + 1]
                       ELSE Say(util, "failed")
            /\ store' = store

-----------------------------------------------------------------------------
(* The end of a command, and what may end it.                              *)

\* CgMpfaEnd; the next command is a new process, and has only the files.
NextCommand ==
    /\ UtilAt("end") /\ util.n < Len(order.cmds)
    /\ util' = [IdleUtil EXCEPT !.n = util.n + 1, !.out = util.out]
    /\ UNCHANGED <<order, store, hurt>>

KillUtil ==
    /\ ~UtilAt("end") /\ Mishap(FALSE)
    /\ util' = Say(util, "killed")
    /\ UNCHANGED <<order, store>>

ModulesNext ==
    \/ LoadFails \/ LoadAreas \/ InputFails \/ AddModule \/ DelModule \/ SetOem \/ CmpModule \/ ListModules
    \/ ReadFails \/ Scan \/ NextArea \/ VerifyAreas \/ NextCommand \/ KillUtil
    \/ \E ok \in BOOLEAN : \/ SaveModule(ok) \/ CreateModule(ok) \/ AskProtected(ok)
                          \/ EraseAreaBlock(ok) \/ FillBlock(ok) \/ WriteGathered(ok)
                          \/ Truncate(ok) \/ WriteArea(ok)

ModulesSpec == ModulesInit /\ [][ModulesNext]_moduleVars
-----------------------------------------------------------------------------
\* The modules that can be found in an area.
Visible(b) == {[b[i].m EXCEPT !.orig = TRUE] :
    i \in {j \in ToSet(Found1(b)) : b[j].m.used /\ b[j].m.kind # "pad"}}
WantedIn(s, was, now) ==
    LET m == [InputOf(Cmd) EXCEPT !.orig = TRUE] IN
    CASE Cmd.do = "add" /\ AreaOf(m.kind) = {s} -> now = {x \in was : ~Matches(x, m, AddBy(m))} \cup {m}
      [] Cmd.do = "del" /\ AreaOf(m.kind) = {s} ->
             \E x \in was : Matches(x, m, Cmd.by) /\ now = was \ {x}
      [] Cmd.do = "oem" /\ s = "static" ->
             now = {IF x.kind = "root" THEN [x EXCEPT !.addr = Cmd.m.addr] ELSE x : x \in was}
      [] OTHER -> now = was

\* A volume's data, behind its header, is where the BIOS expects it.
Aligned(b, m) == m.kind = "fv" => \A i \in 1..Len(b) : ModuleAt(b, i) /\ b[i].m = m => i % Align = 0

\* The known exceptions: the last word of a block was left out; more was written
\* than the buffer holds (spilt); a module without its end was copied from behind
\* a pad, and none behind it is found.
LeftOut(s) == \E k \in 1..BlocksOf(s) :
    order.target = "board" /\ store[s][k * BlockWords] # util.buf[s][k * BlockWords]

Unending(b) == \E p \in ToSet(Pieces(b)) : ~ModuleAt(b, p.from)

\* A command that says DONE has changed just the modules it names, as they can
\* be found on the board or in the file, whatever was tidied, whatever failed
\* and was tried again, and whatever an earlier command has left; and a volume
\* that was added lies aligned.
ModulesTold ==
    UtilAt("end") /\ util.said = "done" /\ Cmd.do \in {"add", "del", "oem"} /\ ~util.spilt =>
        \A s \in MpfaAreas : LeftOut(s) \/ Unending(util.old[s]) \/
            /\ WantedIn(s, Visible(Rebuild(util.old[s]).w), Visible(store[s]))
            /\ Cmd.do = "add" => Aligned(store[s], InputOf(Cmd))

\* On a board nothing is erased or written in an area whose buffer is as it was
\* read, whatever fails and is tried again elsewhere.
ModulesKept == [][order.target = "board" =>
    \A s \in MpfaAreas \cup {"user"} : store'[s] # store[s] => util.buf[s] # util.old[s]]_moduleVars
=============================================================================
