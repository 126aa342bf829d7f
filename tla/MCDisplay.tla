------------------------------- MODULE MCDisplay -------------------------------
EXTENDS AicDisplay
CONSTANTS d1, d2

\* The calls on pages, text, versions and descriptions of one program, and
\* those of two that set pages and text.
Bare(op) == [NoAsk EXCEPT !.op = op]
Of(op, ids) == [NoAsk EXCEPT !.op = op, !.ids = ids]
PagesTo(op, ids, v, s) == [NoAsk EXCEPT !.op = op, !.ids = ids, !.vis = v, !.seq = s]
Text(op, x, y, t) == [NoAsk EXCEPT !.op = op, !.x = x, !.y = y, !.text = t]

PlainPages == [i \in 1..3 |-> [vis |-> TRUE, rest |-> 0, seq |-> i - 1]]
Base == [who |-> {d1}, pages |-> 3, blank |-> {}, cols |-> 3, rows |-> 2, vers |-> 2,
         first |-> PlainPages, asks |-> {}, faults |-> 1]
Fresh(n, b) == [i \in 1..n |-> b]
Erased == [vis |-> TRUE, rest |-> 3, seq |-> 31]
PageAsks ==
    {Of("GetDDMConfigs", <<3, 4>>), Of("GetDDMConfigsNI", <<2, 1>>), Of("GetDDMConfigNI", <<4>>), Of("GetDDMConfigNI", <<1>>),
     PagesTo("SetDDMConfigs", <<2, 3>>, <<TRUE, FALSE>>, <<0, 1>>),
     PagesTo("SetDDMConfigs", <<1, 1>>, <<TRUE, FALSE>>, <<0, 1>>),
     PagesTo("SetDDMConfigsNI", <<3, 1, 2>>, <<>>, <<0, 1, 2>>), PagesTo("SetDDMConfigsNI", <<2>>, <<>>, <<0>>),
     PagesTo("SetDDMConfig", <<0>>, <<TRUE>>, <<0>>), PagesTo("SetDDMConfigNI", <<2>>, <<FALSE>>, <<3>>)}
FreshAsks == {Of("GetDDMConfigs", <<0, 0>>), Of("GetDDMConfig", <<0>>),
              PagesTo("SetDDMConfigsNI", <<1, 3>>, <<FALSE, TRUE>>, <<2, 1>>), PagesTo("SetDDMConfigNI", <<2>>, <<FALSE>>, <<2>>)}
TextAsks == {Text("GetOLED", 1, y, <<"a", "a", "a">>) : y \in 0..2}
            \cup {Text("GetOLED", 0, 0, <<"a", "a">>), Text("SetOLED", 0, 1, <<"a", "b", "a">>),
                  Text("SetOLED", 1, 0, <<"a", "bad", "a">>), Text("SetOLED", 2, 0, <<"a", "a">>),
                  Bare("SaveOLED"), Bare("GetOLEDInfo")}
InfoAsks == {Of("GetDDMInfos", <<>>), Of("GetDDMInfos", <<2, 0, 4>>), Of("GetDDMInfosNI", <<0, 0>>),
             Of("GetDDMInfo", <<0>>), Of("GetDDMInfoNI", <<3>>), Bare("SaveOLED")}
WordAsks == {Bare(o) : o \in {"GetID", "AICVerify", "GetEKitVer", "GetVer", "GetBoardID", "GetFW", "GetBootLoad", "SaveInfoToIni", "GetOLEDInfoNI", "SaveOLED"}}

MCSettings ==
    {[Base EXCEPT !.who = {}]} \cup
    {[Base EXCEPT !.asks = PageAsks]}
    \cup {[Base EXCEPT !.asks = FreshAsks, !.first = f] : f \in {Fresh(3, Zero), Fresh(3, Erased)}}
    \cup {[Base EXCEPT !.asks = {Of("GetDDMConfig", <<1>>), PagesTo("SetDDMConfig", <<1>>, <<TRUE>>, <<0>>),
                                 PagesTo("SetDDMConfigs", <<1>>, <<TRUE>>, <<0>>)},
                       !.pages = 1, !.first = Fresh(1, [Zero EXCEPT !.vis = TRUE])]}
    \cup {[Base EXCEPT !.asks = TextAsks]}
    \cup {[Base EXCEPT !.asks = InfoAsks, !.blank = {2}]}
    \cup {[Base EXCEPT !.asks = WordAsks, !.vers = v] : v \in 0..2}
    \cup {[Base EXCEPT !.asks = {Text("SetOLED", 0, 0, <<"a", "b", "a">>), Text("SetOLED", 1, 0, <<"b", "b">>),
                                  PagesTo("SetDDMConfig", <<2>>, <<FALSE>>, <<2>>),
                                  Of("GetDDMConfig", <<1>>)}, !.who = {d1, d2}, !.first = Fresh(3, Zero), !.faults = 0]}
=============================================================================
