------------------------------ MODULE AicDisplay ------------------------------
(***************************************************************************)
(* The display of the AIC as EKit_L/DDMI.c knows it: a small OLED panel    *)
(* that turns its pages, each with a description, a place in the sequence  *)
(* and a bit that shows it, and rows of text that programs may write.      *)
(*                                                                         *)
(* One action is one SMBus transfer with the decisions taken on it, as in  *)
(* AicCounts, or a step between two of them.  The Linux build has no mutex *)
(* at all: EkSMBusBlockWait always succeeds.  A program may end at any     *)
(* time, and its static variables with it; the AIC keeps what it has.      *)
(***************************************************************************)
EXTENDS Naturals, Sequences, FiniteSets

CONSTANTS
    DdmProcs,
    Settings, \* who calls what, on which panel, with how many failures
    Piece     \* characters in one write, 30 in the code

\* A byte of DDMCTRL.  A setting: who makes calls, the pages and those of them
\* without a description, columns and rows, how much of a version there is,
\* how the pages are set at first, the calls, and how many transfers may fail.
Byte == [vis : BOOLEAN, rest : {0, 3}, seq : 0..31]
SettingFields == {"who", "pages", "blank", "cols", "rows", "vers", "first", "asks", "faults"}

\* The calls by what they do.
Identities == {"GetID", "AICVerify", "GetEKitVer", "GetVer"}
Versions == {"GetFW", "GetBootLoad"}
InfoLists == {"GetDDMInfos", "GetDDMInfosNI"}
GetLists == {"GetDDMConfigs", "GetDDMConfigsNI"}
SetLists == {"SetDDMConfigs", "SetDDMConfigsNI"}
SetSingles == {"SetDDMConfig", "SetDDMConfigNI"}
Singles == {"GetDDMInfo", "GetDDMInfoNI", "GetDDMConfig", "GetDDMConfigNI"} \cup SetSingles
Infos == InfoLists \cup {"GetDDMInfo", "GetDDMInfoNI"}
GetConfigs == GetLists \cup {"GetDDMConfig", "GetDDMConfigNI"}
SetConfigs == SetLists \cup SetSingles
Sizes == {"GetOLEDInfo", "GetOLEDInfoNI"}
Counted == {"GetOLED", "SetOLED", "SaveInfoToIni"} \cup Sizes \cup Infos \cup GetConfigs \cup SetConfigs

\* The arguments of a call.  One for a single page names one; one that sets
\* pages gives each a place, and says of each whether it is visible, or of none.
DdmAsk == [op : STRING, ids : Seq(Nat), vis : Seq(BOOLEAN), seq : Seq(Nat),
           x : Nat, y : Nat, text : Seq(STRING)]
Proper(a) ==
    /\ a \in DdmAsk
    /\ a.op \in Singles => Len(a.ids) = 1
    /\ a.op \in SetConfigs => /\ Len(a.seq) >= Len(a.ids)
                              /\ a.vis = <<>> \/ Len(a.vis) >= Len(a.ids)

ASSUME DisplayAssumption ==
    /\ Piece \in Nat \ {0}
    /\ \A s \in Settings : /\ DOMAIN s = SettingFields
                           /\ s.who \subseteq DdmProcs /\ IsFiniteSet(s.who) /\ s.blank \subseteq 1..s.pages
                           /\ s.pages \in 1..4 /\ s.first \in [1..s.pages -> Byte]
                           /\ {s.cols, s.rows} \subseteq Nat \ {0} /\ {s.vers, s.faults} \subseteq Nat
                           /\ \A a \in s.asks : Proper(a)

VARIABLES
    setting,  \* never changes
    disp,     \* the AIC: pages, what is selected, the text shown and saved
    ddm,      \* for each program the static variables of the library
    call,     \* for each program the call it is in, or was in last
    said,     \* for each program what its last call told and returned
    stale,    \* for each program: Err is not DDMI_SUCCESS
    lost      \* transfers that failed

ddmVars == <<setting, disp, ddm, call, said, stale, lost>>

Names == <<"p1", "p2", "p3", "p4">>   \* the pages' descriptions
Unloaded == [id |-> FALSE, board |-> FALSE, GetFW |-> 0, GetBootLoad |-> 0, cnt |-> 0,
             text |-> [i \in 1..4 |-> ""], InfoIdx |-> 0, GetCfgIdx |-> 0, SetCfgIdx |-> 0]
NoAsk == [op |-> "none", ids |-> <<>>, vis |-> <<>>, seq |-> <<>>, x |-> 0, y |-> 0, text |-> <<>>]
NoCall == [at |-> "idle", ask |-> NoAsk, i |-> 1, buf |-> <<>>, missed |-> FALSE]
NoWord == [ok |-> FALSE, what |-> <<>>]

Cells == 0..(setting.rows * setting.cols - 1)

DisplayInit ==
    /\ setting \in Settings
    /\ disp = [ctrl |-> setting.first, row |-> 0, page |-> 1,
               cells |-> [c \in Cells |-> IF c = 0 THEN "bad" ELSE "b"], saved |-> <<>>]
    /\ ddm = [p \in DdmProcs |-> Unloaded]
    /\ call = [p \in DdmProcs |-> NoCall]
    /\ said = [p \in DdmProcs |-> NoWord]
    /\ stale = [p \in DdmProcs |-> FALSE]
    /\ lost = 0

-----------------------------------------------------------------------------
At(p, l) == call[p].at = l
Request(p) == call[p].ask
Goto(p, l) == call' = [call EXCEPT ![p].at = l] /\ UNCHANGED said

\* EkSMBusBlockWrite and EkSMBusBlockRead: the bus decides.
Sends(ok) == (ok \/ lost < setting.faults) /\ lost' = IF ok THEN lost ELSE lost + 1
Reads(ok) == Sends(ok) /\ UNCHANGED disp

\* The call returns TRUE and tells w, or FALSE with the error that was met.
Tell(p, w) ==
    /\ call' = [call EXCEPT ![p].at = "idle"]
    /\ said' = [said EXCEPT ![p] = [ok |-> TRUE, what |-> w]]
Refuse(p) ==
    /\ call' = [call EXCEPT ![p].at = "idle"]
    /\ said' = [said EXCEPT ![p] = NoWord]
    /\ stale' = [stale EXCEPT ![p] = TRUE]
Clear(p) == stale' = [stale EXCEPT ![p] = FALSE]

\* What cannot be learned ends the call, except that the file is written
\* whatever is known.
Fail(p) == IF Request(p).op = "SaveInfoToIni"
           THEN /\ call' = [call EXCEPT ![p].at = "known", ![p].missed = TRUE]
                /\ stale' = [stale EXCEPT ![p] = TRUE] /\ UNCHANGED said
           ELSE Refuse(p)

FirstStep(o) == CASE o \in Counted -> "count"
                  [] o = "GetBoardID" -> "board"
                  [] o \in Versions -> "vers"
                  [] o = "SaveOLED" -> "save"
                  [] OTHER -> "known"

Known(l, o) == CASE o \in Counted -> l.cnt > 0
                 [] o = "GetBoardID" -> l.board
                 [] o \in Versions -> l[o] > 0
                 [] o = "SaveOLED" -> FALSE
                 [] OTHER -> l.id

\* Err is reset at once by the calls on the text and by those for a version.
Begin(p, a) ==
    /\ At(p, "idle")
    /\ LET l == IF Known(ddm[p], a.op) THEN "known"
                ELSE IF ddm[p].id THEN FirstStep(a.op) ELSE "efcoid"
       IN call' = [call EXCEPT ![p] = [NoCall EXCEPT !.at = l, !.ask = a]]
    /\ said' = [said EXCEPT ![p] = NoWord]
    /\ IF a.op \in {"GetOLED", "SetOLED"} \cup Versions THEN Clear(p) ELSE UNCHANGED stale
    /\ UNCHANGED <<setting, disp, ddm, lost>>

\* EkVerifyAICEFCOID.
EfcoId(p, ok) ==
    /\ At(p, "efcoid") /\ Reads(ok)
    /\ ddm' = [ddm EXCEPT ![p].id = ok]
    /\ IF ok THEN Goto(p, FirstStep(Request(p).op)) /\ UNCHANGED stale ELSE Fail(p)
    /\ UNCHANGED setting

BoardId(p, ok) ==
    /\ At(p, "board") /\ Reads(ok)
    /\ ddm' = [ddm EXCEPT ![p].board = ok]
    /\ IF ok THEN Goto(p, "known") /\ UNCHANGED stale ELSE Fail(p)
    /\ UNCHANGED setting

\* A version string in two reads: what is there when the second one fails is
\* what the program keeps.
Version(p, ok) ==
    /\ At(p, "vers") /\ Reads(ok)
    /\ LET o == Request(p).op
           first == ddm[p][o] = 0
           has == IF ~ok THEN ddm[p][o] ELSE IF first THEN (IF setting.vers > 0 THEN 1 ELSE 0)
                                             ELSE setting.vers
       IN /\ ddm' = [ddm EXCEPT ![p][o] = has]
          /\ IF has = 0 THEN Refuse(p)
             ELSE UNCHANGED stale /\ Goto(p, IF first THEN "vers" ELSE "known")
    /\ UNCHANGED setting

\* EkSMBusGetDDMBasicInfo: ask for the counts, then read them.
AskCount(p, ok) ==
    /\ At(p, "count") /\ Reads(ok)
    /\ IF ok THEN Goto(p, "size") /\ UNCHANGED stale ELSE Fail(p)
    /\ UNCHANGED <<setting, ddm>>

ReadCount(p, ok) ==
    /\ At(p, "size") /\ Reads(ok)
    /\ ddm' = [ddm EXCEPT ![p].cnt = IF ok THEN setting.pages ELSE 0]
    /\ IF ok THEN Goto(p, "known") /\ UNCHANGED stale ELSE Fail(p)
    /\ UNCHANGED setting

-----------------------------------------------------------------------------
(* What the calls for pages are about.                                     *)

PageIds(p) == 1..ddm[p].cnt
Cursor(o) == CASE o \in Infos -> "InfoIdx" [] o \in GetConfigs -> "GetCfgIdx"
               [] OTHER -> "SetCfgIdx"

\* A list without one valid id, or a single id of 0, asks for the next pages
\* in turn.
NextTurn(p, n) == LET c == ddm[p][Cursor(Request(p).op)]
              IN [i \in 1..n |-> ((c + i - 1) % ddm[p].cnt) + 1]
InTurn(p) == LET a == Request(p)
             IN IF a.op \in Singles THEN a.ids = <<0>>
                ELSE \A i \in DOMAIN a.ids : a.ids[i] \notin PageIds(p)
Least(m, n) == IF m < n THEN m ELSE n
Chosen(p) == LET a == Request(p)
             IN IF InTurn(p) THEN NextTurn(p, Least(Len(a.ids), ddm[p].cnt)) ELSE a.ids
Moved(p) == IF ~InTurn(p) THEN ddm
            ELSE [ddm EXCEPT ![p][Cursor(Request(p).op)] = (@ + Len(Chosen(p))) % ddm[p].cnt]

Injective(s) == \A i, j \in DOMAIN s : s[i] = s[j] => i = j
AllPages(p) == \A i \in DOMAIN Chosen(p) : Chosen(p)[i] \in PageIds(p)

\* The lists a Set call accepts: every id and every place once, each of them
\* a page's.
Acceptable(p) ==
    LET a == Request(p) n == Len(Chosen(p))
    IN /\ AllPages(p) /\ \A i \in 1..n : a.seq[i] < ddm[p].cnt
       /\ Injective(Chosen(p)) /\ Injective(SubSeq(a.seq, 1, n))

\* (mutant) the other pages are written as if they were shown.
MergedShown(asked, got) ==
    [i \in DOMAIN got |-> IF i \in DOMAIN asked
                          THEN [asked[i] EXCEPT !.rest = got[i].rest] ELSE [got[i] EXCEPT !.vis = TRUE]]

\* The bytes to write: those asked for, merged into those the AIC has.  A
\* page whose place is taken gets one of the places that are taken twice,
\* which leaves them taken twice (DDMI.c:2717).
Merged(asked, got) ==
    LET own == {asked[i].seq : i \in DOMAIN asked}
        other == DOMAIN got \ DOMAIN asked
        loose == {i \in other : got[i].seq \in own \cup {got[j].seq : j \in {k \in other : k < i}}}
        twice == {got[i].seq : i \in loose} \cap 0..(Len(got) - 1)
        rank(S, x) == Cardinality({y \in S : y < x})
    IN [i \in DOMAIN got |->
          IF i \in DOMAIN asked THEN [asked[i] EXCEPT !.rest = got[i].rest]
          ELSE IF i \in loose /\ rank(loose, i) < Cardinality(twice)
          THEN [got[i] EXCEPT !.seq = CHOOSE s \in twice : rank(twice, s) = rank(loose, i)]
          ELSE got[i]]

\* The bytes asked for.  Without a list of what is visible a page keeps its
\* bit, which a call for every page does not read.
BytesOf(p, got) ==
    LET ids == Chosen(p) a == Request(p)
    IN [i \in {ids[k] : k \in DOMAIN ids} |->
          LET k == CHOOSE x \in DOMAIN ids : ids[x] = i
          IN [vis |-> IF a.vis = <<>> THEN got[i].vis ELSE a.vis[k], rest |-> 0, seq |-> a.seq[k]]]

Zero == [vis |-> FALSE, rest |-> 0, seq |-> 0]
Zeros(p) == [i \in PageIds(p) |-> Zero]
Blank(s) == \A i \in DOMAIN s : s[i] \in {Zero, [vis |-> TRUE, rest |-> 3, seq |-> 31]}
Default(n) == [i \in 1..n |-> [vis |-> TRUE, rest |-> 0, seq |-> i - 1]]

\* What a Get tells of its pages.
Configs(ids, s) == [k \in DOMAIN ids |-> [page |-> ids[k], vis |-> s[ids[k]].vis, seq |-> s[ids[k]].seq]]

\* EkDDMiOLED: the characters that can be shown, up to the first other one.
Printable == {"a", "b", " "}
Shown(t) == SubSeq(t, 1, Cardinality({k \in 1..Len(t) : \A j \in 1..k : t[j] \in Printable}))
RowCells(d, y) == [k \in 1..setting.cols |-> d.cells[y * setting.cols + k - 1]]

-----------------------------------------------------------------------------
(* The calls, once what they need first is known.                          *)

Calls(p, o) == At(p, "known") /\ Request(p).op = o

\* Answered from what is known; not every call then resets Err.
Settle(p, w) == Tell(p, w) /\ Clear(p) /\ UNCHANGED <<setting, disp, ddm, lost>>
Report(p, w) == Tell(p, w) /\ UNCHANGED <<setting, disp, ddm, lost, stale>>

GetID(p) == Calls(p, "GetID") /\ Settle(p, <<>>)
AICVerify(p) == Calls(p, "AICVerify") /\ Settle(p, <<>>)
GetEKitVer(p) == Calls(p, "GetEKitVer") /\ Settle(p, <<>>)
GetVer(p) == Calls(p, "GetVer") /\ Settle(p, <<>>)
GetBoardID(p) == Calls(p, "GetBoardID") /\ Settle(p, <<>>)
GetFW(p) == Calls(p, "GetFW") /\ Report(p, <<ddm[p].GetFW>>)
GetBootLoad(p) == Calls(p, "GetBootLoad") /\ Report(p, <<ddm[p].GetBootLoad>>)
GetOLEDInfo(p) == Calls(p, "GetOLEDInfo") /\ Report(p, <<setting.cols, setting.rows>>)
GetOLEDInfoNI(p) == Calls(p, "GetOLEDInfoNI") /\ Report(p, <<setting.cols, setting.rows>>)
SaveInfoToIni(p) == Calls(p, "SaveInfoToIni") /\ Report(p, <<ddm[p].cnt>>)

\* A list is filled for every page of it, whether one can be read or not.
ToInfos(p) ==
    /\ ddm' = Moved(p)
    /\ call' = [call EXCEPT ![p].at = "next", ![p].ask.ids = Chosen(p)]
    /\ UNCHANGED <<setting, disp, lost, said, stale>>
ListInfos(p) == IF Request(p).ids = <<>> THEN Settle(p, <<ddm[p].cnt>>) ELSE ToInfos(p)

GetDDMInfos(p) == Calls(p, "GetDDMInfos") /\ ListInfos(p)
GetDDMInfosNI(p) == Calls(p, "GetDDMInfosNI") /\ ListInfos(p)
GetDDMInfo(p) == Calls(p, "GetDDMInfo") /\ ToInfos(p)
GetDDMInfoNI(p) == Calls(p, "GetDDMInfoNI") /\ ToInfos(p)

Reject(p) == Refuse(p) /\ UNCHANGED <<setting, disp, ddm, lost>>
ToConfigs(p) ==
    /\ ddm' = Moved(p)
    /\ call' = [call EXCEPT ![p].at = "ctrl", ![p].ask.ids = Chosen(p)]
    /\ UNCHANGED <<setting, disp, lost, said, stale>>
Configured(p) == IF AllPages(p) THEN ToConfigs(p) ELSE Reject(p)

GetDDMConfigs(p) == Calls(p, "GetDDMConfigs") /\ Configured(p)
GetDDMConfigsNI(p) == Calls(p, "GetDDMConfigsNI") /\ Configured(p)
GetDDMConfig(p) == Calls(p, "GetDDMConfig") /\ Configured(p)
GetDDMConfigNI(p) == Calls(p, "GetDDMConfigNI") /\ Configured(p)

\* A call for every page reads nothing.  One for a single page then writes
\* the buffer it has not put its own byte into (DDMI.c:2876, 2953).  A list
\* that is refused has moved the cursor.
Everything(p) == Len(Chosen(p)) = ddm[p].cnt
ToSets(p, all) ==
    /\ ddm' = Moved(p)
    /\ call' = [call EXCEPT ![p].at = IF Everything(p) THEN "write" ELSE "ctrl",
                            ![p].ask.ids = Chosen(p), ![p].buf = all]
    /\ IF Everything(p) THEN Clear(p) ELSE UNCHANGED stale
    /\ UNCHANGED <<setting, disp, lost, said>>
SetList(p) ==
    IF Acceptable(p) THEN ToSets(p, Merged(BytesOf(p, Zeros(p)), Zeros(p)))
    ELSE Refuse(p) /\ ddm' = Moved(p) /\ UNCHANGED <<setting, disp, lost>>
SetOne(p) == IF Acceptable(p) THEN ToSets(p, Zeros(p)) ELSE Reject(p)

SetDDMConfigs(p) == Calls(p, "SetDDMConfigs") /\ SetList(p)
SetDDMConfigsNI(p) == Calls(p, "SetDDMConfigsNI") /\ SetList(p)
SetDDMConfig(p) == Calls(p, "SetDDMConfig") /\ SetOne(p)
SetDDMConfigNI(p) == Calls(p, "SetDDMConfigNI") /\ SetOne(p)

TextFits(a) == /\ a.x < setting.cols /\ a.y < setting.rows
               /\ a.op = "SetOLED" => Len(Shown(a.text)) <= setting.cols - a.x
ToText(p) == IF TextFits(Request(p)) THEN Goto(p, "row") /\ UNCHANGED <<setting, disp, ddm, lost, stale>>
             ELSE Reject(p)
GetOLED(p) == Calls(p, "GetOLED") /\ ToText(p)
SetOLED(p) == Calls(p, "SetOLED") /\ ToText(p)

KnownStep(p) ==
    \/ GetID(p) \/ AICVerify(p) \/ GetEKitVer(p) \/ GetVer(p) \/ GetBoardID(p)
    \/ GetFW(p) \/ GetBootLoad(p) \/ GetOLEDInfo(p) \/ GetOLEDInfoNI(p) \/ SaveInfoToIni(p)
    \/ GetDDMInfos(p) \/ GetDDMInfosNI(p) \/ GetDDMInfo(p) \/ GetDDMInfoNI(p)
    \/ GetDDMConfigs(p) \/ GetDDMConfigsNI(p) \/ GetDDMConfig(p) \/ GetDDMConfigNI(p)
    \/ SetDDMConfigs(p) \/ SetDDMConfigsNI(p) \/ SetDDMConfig(p) \/ SetDDMConfigNI(p)
    \/ GetOLED(p) \/ SetOLED(p)

-----------------------------------------------------------------------------
(* Descriptions: one page after the other, those not yet cached.           *)

Missing(p) == LET i == call[p].ask.ids[call[p].i]
              IN i \in PageIds(p) /\ ddm[p].text[i] = ""
Put(p, t) == call' = [call EXCEPT ![p].at = "next", ![p].i = @ + 1, ![p].buf = Append(@, t)]

NextInfo(p) ==
    /\ At(p, "next") /\ UNCHANGED <<setting, disp, ddm, lost>>
    /\ IF call[p].i > Len(Request(p).ids)
       THEN /\ Tell(p, call[p].buf)
            /\ IF Request(p).op \in InfoLists THEN Clear(p) ELSE UNCHANGED stale
       ELSE /\ IF Missing(p) THEN call' = [call EXCEPT ![p].at = "desc"]
               ELSE LET i == Request(p).ids[call[p].i]
                    IN Put(p, IF i \in PageIds(p) THEN ddm[p].text[i] ELSE "none")
            /\ UNCHANGED <<said, stale>>

\* (mutant) a description is read after its page could not be selected.
SelectDescAnyhow(p, ok) ==
    /\ At(p, "desc") /\ Sends(ok)
    /\ disp' = IF ok THEN [disp EXCEPT !.page = Request(p).ids[call[p].i]] ELSE disp
    /\ Goto(p, "text") /\ UNCHANGED stale
    /\ UNCHANGED <<setting, ddm>>

\* EkSMBusGetDDMInfo: select the page, then read; a program in between may
\* have selected another.
SelectDesc(p, ok) ==
    /\ At(p, "desc") /\ Sends(ok)
    /\ disp' = IF ok THEN [disp EXCEPT !.page = Request(p).ids[call[p].i]] ELSE disp
    /\ IF ok THEN Goto(p, "text") /\ UNCHANGED stale
       ELSE Put(p, "kept") /\ UNCHANGED said /\ stale' = [stale EXCEPT ![p] = TRUE]
    /\ UNCHANGED <<setting, ddm>>

\* A blank description is told and not cached.
ReadDesc(p, ok) ==
    /\ At(p, "text") /\ Reads(ok)
    /\ LET i == Request(p).ids[call[p].i] d == IF disp.page \in setting.blank THEN "" ELSE Names[disp.page]
       IN /\ ddm' = IF ok THEN [ddm EXCEPT ![p].text[i] = d] ELSE ddm
          /\ Put(p, IF ok THEN d ELSE "kept")
    /\ stale' = [stale EXCEPT ![p] = @ \/ ~ok]
    /\ UNCHANGED <<setting, said>>

-----------------------------------------------------------------------------
(* The bytes of the pages.                                                 *)

ReadCtrl(p, ok) ==
    /\ At(p, "ctrl") /\ Reads(ok)
    /\ IF ~ok THEN Refuse(p)
       ELSE /\ Clear(p)
            /\ IF Request(p).op \in GetConfigs
               THEN IF Blank(disp.ctrl)
                    THEN /\ call' = [call EXCEPT ![p].at = "default", ![p].buf = Default(ddm[p].cnt)]
                         /\ UNCHANGED said
                    ELSE Tell(p, Configs(Request(p).ids, disp.ctrl))
               ELSE LET new == Merged(BytesOf(p, disp.ctrl), disp.ctrl)
                    IN IF new = disp.ctrl THEN Tell(p, <<>>)
                       ELSE call' = [call EXCEPT ![p].at = "write", ![p].buf = new] /\ UNCHANGED said
    /\ UNCHANGED <<setting, ddm>>

\* An AIC whose bytes were never written gets them all from a Get.
WriteDefault(p, ok) ==
    /\ At(p, "default") /\ Sends(ok)
    /\ disp' = IF ok THEN [disp EXCEPT !.ctrl = call[p].buf] ELSE disp
    /\ IF ok THEN Tell(p, Configs(Request(p).ids, call[p].buf)) /\ UNCHANGED stale ELSE Refuse(p)
    /\ UNCHANGED <<setting, ddm>>

WriteCtrl(p, ok) ==
    /\ At(p, "write") /\ Sends(ok)
    /\ disp' = IF ok THEN [disp EXCEPT !.ctrl = call[p].buf] ELSE disp
    /\ IF ok THEN Tell(p, <<>>) /\ UNCHANGED stale ELSE Refuse(p)
    /\ UNCHANGED <<setting, ddm>>

-----------------------------------------------------------------------------
(* The text.                                                               *)

SelectRow(p, ok) ==
    /\ At(p, "row") /\ Sends(ok)
    /\ disp' = IF ok THEN [disp EXCEPT !.row = Request(p).y] ELSE disp
    /\ IF ok THEN Goto(p, "cells") /\ UNCHANGED stale ELSE Refuse(p)
    /\ UNCHANGED <<setting, ddm>>

\* What cannot be shown is told as a space.
ReadRow(p, ok) ==
    /\ At(p, "cells") /\ Reads(ok)
    /\ LET a == Request(p) r == RowCells(disp, disp.row)
       IN IF ~ok THEN Refuse(p)
          ELSE /\ UNCHANGED stale
               /\ IF a.op = "SetOLED" THEN Goto(p, "put")
                  ELSE Tell(p, [k \in 1..Least(Len(a.text), setting.cols - a.x) |->
                                  IF r[a.x + k] \in Printable THEN r[a.x + k] ELSE " "])
    /\ UNCHANGED <<setting, ddm>>

Cell(a, i) == a.y * setting.cols + a.x + i - 1

\* A piece that is not taken ends the writing and, because the wrong position
\* is compared (DDMI.c:2005, 2023), neither undoes it nor makes the call fail.
PutPiece(p, ok) ==
    /\ At(p, "put")
    /\ LET a == Request(p) t == Shown(a.text) i == call[p].i n == Least(Piece, Len(t) - i + 1)
       IN IF i > Len(t)
          THEN Tell(p, <<>>) /\ UNCHANGED <<disp, lost>>
          ELSE /\ Sends(ok)
               /\ disp' = IF ok THEN [disp EXCEPT !.cells = [c \in Cells |->
                                         IF c \in Cell(a, i)..(Cell(a, i + n - 1)) THEN t[c - Cell(a, 1) + 1] ELSE @[c]]]
                          ELSE disp
               /\ call' = [call EXCEPT ![p].i = IF ok THEN i + n ELSE Len(t) + 1, ![p].missed = @ \/ ~ok]
               /\ UNCHANGED said
    /\ UNCHANGED <<setting, ddm, stale>>

\* EkDDMiSMBSaveOLED: Err is asked, and may be that of an earlier call.
Save(p, ok) ==
    /\ At(p, "save") /\ Sends(ok)
    /\ disp' = IF ok THEN [disp EXCEPT !.saved = disp.cells] ELSE disp
    /\ IF ok /\ ~stale[p] THEN Tell(p, <<>>) /\ UNCHANGED stale ELSE Refuse(p)
    /\ UNCHANGED <<setting, ddm>>

\* A program ends, or is killed in a call; so does one that gives no list of
\* sequences (DDMI.c:2770), which is why none here does.
End(p) ==
    /\ ddm' = [ddm EXCEPT ![p] = Unloaded]
    /\ call' = [call EXCEPT ![p] = NoCall]
    /\ said' = [said EXCEPT ![p] = NoWord]
    /\ stale' = [stale EXCEPT ![p] = FALSE]
    /\ UNCHANGED <<setting, disp, lost>>

Transfer(p, ok) ==
    \/ EfcoId(p, ok) \/ BoardId(p, ok) \/ Version(p, ok) \/ AskCount(p, ok) \/ ReadCount(p, ok)
    \/ SelectDesc(p, ok) \/ ReadDesc(p, ok)
    \/ ReadCtrl(p, ok) \/ WriteDefault(p, ok) \/ WriteCtrl(p, ok)
    \/ SelectRow(p, ok) \/ ReadRow(p, ok) \/ PutPiece(p, ok) \/ Save(p, ok)

DisplayStep(p) ==
    \/ \E a \in setting.asks : Begin(p, a)
    \/ \E ok \in BOOLEAN : Transfer(p, ok)
    \/ KnownStep(p) \/ NextInfo(p)
    \/ End(p)

DisplayNext == \E p \in setting.who : DisplayStep(p)

DisplaySpec == DisplayInit /\ [][DisplayNext]_ddmVars

-----------------------------------------------------------------------------
Returns(p) == call[p].at # "idle" /\ call'[p].at = "idle" /\ said'[p].ok
Alone == Cardinality(setting.who) = 1

\* What a call that returned TRUE told is what the AIC has: the counts, each
\* page's own description or none at all, each page's place and bit, and the
\* characters of the row that was asked for, whatever failed in earlier calls
\* and wherever earlier programs ended.  Nothing keeps a second program from
\* selecting another page or row in between (the DDMI has no mutex, and the
\* descriptions are read after it would have been given back), so this is
\* about a program on its own.
Told(p) ==
    LET a == call[p].ask w == said'[p].what
    IN CASE a.op \in Sizes -> w = <<setting.cols, setting.rows>>
         [] a.op = "SaveInfoToIni" -> call[p].missed \/ w = <<setting.pages>>
         [] a.op \in Infos /\ a.ids # <<>> ->
              \A k \in DOMAIN a.ids :
                 w[k] \in IF a.ids[k] \in 1..setting.pages
                          THEN {"kept", IF a.ids[k] \in setting.blank THEN "" ELSE Names[a.ids[k]]}
                          ELSE {"none"}
         [] a.op \in GetConfigs ->
              \A k \in DOMAIN w : w[k].vis = disp'.ctrl[w[k].page].vis /\ w[k].seq = disp'.ctrl[w[k].page].seq
         [] a.op = "GetOLED" -> \A k \in DOMAIN w :
              LET c == disp.cells[a.y * setting.cols + a.x + k - 1]
              IN w[k] = IF c \in Printable THEN c ELSE " "
         [] OTHER -> TRUE

DisplayTold == [][Alone => \A p \in setting.who : Returns(p) => Told(p)]_ddmVars

\* The two Set calls the code gets wrong: the only page there is, set on its
\* own, and every page's place set without saying what is visible.
Misses(a) == \/ a.op \in SetSingles /\ setting.pages = 1
             \/ a.op = "SetDDMConfigsNI" /\ a.vis = <<>> /\ Len(a.ids) = setting.pages

\* A Set call that returned TRUE is seen on the display: the pages it names
\* have the place and the bit it gave them, text of a program on its own
\* stands where it was put unless a piece of it was lost, what was saved is
\* what is shown.  No call
\* of one program changes what it was not asked to: a page it does not name
\* keeps its bit, a row keeps what is outside the text.
Obeyed(p) ==
    LET a == call[p].ask t == Shown(a.text)
    IN CASE a.op \in SetConfigs -> Misses(a) \/
              \A k \in DOMAIN a.ids : LET b == disp'.ctrl[a.ids[k]]
                                     IN b.seq = a.seq[k] /\ (a.vis # <<>> => b.vis = a.vis[k])
         [] a.op = "SetOLED" -> ~Alone \/ call[p].missed \/ \A k \in DOMAIN t : disp.cells[Cell(a, k)] = t[k]
         [] a.op = "SaveOLED" -> disp'.saved = disp.cells
         [] OTHER -> TRUE

Spared(p) ==
    LET a == call[p].ask
    IN /\ disp'.cells # disp.cells =>
           /\ a.op = "SetOLED"
           /\ \A c \in Cells \ {Cell(a, k) : k \in DOMAIN a.text} : disp'.cells[c] = disp.cells[c]
       /\ (disp'.ctrl # disp.ctrl /\ Alone) =>
           \/ a.op \in GetConfigs /\ Blank(disp.ctrl)
           \/ a.op \in SetConfigs /\ Misses(a)
           \/ \A i \in 1..setting.pages : \/ i \in {a.ids[k] : k \in DOMAIN a.ids}
                                         \/ disp'.ctrl[i].vis = disp.ctrl[i].vis

DisplayObeys == [][\A p \in setting.who :
    /\ Returns(p) => Obeyed(p)
    /\ call'[p] # call[p] => Spared(p)]_ddmVars
=============================================================================
