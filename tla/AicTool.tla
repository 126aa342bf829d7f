------------------------------- MODULE AicTool -------------------------------
(***************************************************************************)
(* The command line tool of EKit_L, DMCT.c and its copies for the parts of *)
(* a product: menus of what the AIC answered when it was asked first, and  *)
(* pages that ask again and print.  What was answered once counts as       *)
(* answered for good; the macros that would forget it are never used.      *)
(*                                                                         *)
(* One action is one page: what it asks the AIC, what it prints and the    *)
(* line it then reads, typed by an operator or by a check of moduleEbk.    *)
(* What the digital inputs and outputs' menu and pages ask is in           *)
(* AicIoPages: there one call to the library is one step.                  *)
(***************************************************************************)
EXTENDS Naturals, Sequences, SequencesExt, FiniteSets

CONSTANTS
    ToolParts,  \* the parts of the AIC looked at, one in each behaviour
    ToolFaults  \* bound: answers that fail, and how often values change

\* For each part, what is asked when the tool starts: the first answer will do.
AskedFirst ==
    [sysinfo |-> <<"fw", "secs", "mins">>, ddm |-> <<"oledinfo", "ddminfos">>,
     health |-> <<"temp", "watts", "last", "boots", "powerups", "hwmoninfos">>,
     poe |-> <<"poeinfos">>, mini |-> <<"miniinfos">>, com |-> <<"cominfos">>,
     wdt |-> <<"pwrup", "run", "runstat">>, power |-> <<"powercfg">>,
     usb |-> <<"usbinfos">>, fan |-> <<"faninfos">>, io |-> <<"gpio", "dio">>]
Parts == DOMAIN AskedFirst
InOrder == <<"sysinfo", "ddm", "health", "poe", "mini", "com", "wdt", "power", "usb", "fan", "io">>

\* What a menu asks that was not answered yet: after what, and instead of what.
Ask(q, needs, but) == [q |-> q, needs |-> needs, but |-> but]
Plain(qs) == [i \in DOMAIN qs |-> Ask(qs[i], {}, {})]

SysinfoMenu == Plain(<<"fw", "secs", "mins">>)
DdmMenu == <<Ask("oledinfo", {}, {}), Ask("oled", {"oledinfo"}, {}),
             Ask("ddminfos", {}, {}), Ask("ddmconfigs", {"ddminfos"}, {})>>
HealthMenu == Plain(AskedFirst.health)
PoeMenu == <<Ask("poeinfos", {}, {}), Ask("poeconfig", {"poeinfos"}, {"poeconfigs"}),
             Ask("poeconfigs", {"poeinfos"}, {"poeconfig"})>>
MiniMenu == <<Ask("miniinfos", {}, {}), Ask("miniconfigs", {"miniinfos"}, {})>>
COMMenu == <<Ask("cominfos", {}, {}), Ask("comconfigs", {"cominfos"}, {})>>
WdtMenu == Plain(<<"pwrup", "run", "runstat">>)
PowerMenu == Plain(<<"powercfg">>)
UsbMenu == <<Ask("usbinfos", {}, {}), Ask("usbconfigs", {"usbinfos"}, {})>>
FanMenu == <<Ask("faninfos", {}, {}), Ask("fanconfigs", {"faninfos"}, {})>>
Menu == [sysinfo |-> SysinfoMenu, ddm |-> DdmMenu, health |-> HealthMenu, poe |-> PoeMenu,
         mini |-> MiniMenu, com |-> COMMenu, wdt |-> WdtMenu, power |-> PowerMenu,
         usb |-> UsbMenu, fan |-> FanMenu, io |-> <<>>]

\* A page: its menu, the answers of which one must be there to choose it, and
\* what it asks and prints.
Page(part, needs, reads) == [part |-> part, needs |-> needs, reads |-> reads]
One(part, q) == Page(part, {q}, <<q>>)

SysinfoPages == [version |-> Page("sysinfo", {"fw"}, <<>>),
                 ontime |-> Page("sysinfo", {"secs", "mins"}, <<"secs", "mins">>)]
DdmPages == [strings |-> Page("ddm", {"oledinfo"}, <<"oled">>), setstring |-> One("ddm", "oled"),
             ddmpages |-> Page("ddm", {"ddminfos"}, <<"ddmconfigs">>), setpage |-> One("ddm", "ddmconfigs")]
HealthPages == [system |-> Page("health", {"temp", "watts"}, <<"temp", "watts">>),
                lastpower |-> One("health", "last"),
                counters |-> Page("health", {"boots", "powerups"}, <<"boots", "powerups">>),
                hwmon |-> Page("health", {"hwmoninfos"}, <<"hwmon">>)]
\* The AIC answers one of the two forms of configuration; the page asks that one.
PoePages == [poecfg |-> Page("poe", {"poeinfos"}, <<"poeconfig", "poeconfigs">>),
             setpoe |-> Page("poe", {"poeconfig", "poeconfigs"}, <<"poeconfig", "poeconfigs">>),
             poestatus |-> Page("poe", {"poeinfos"}, <<"poestats">>)]
MiniPages == [minicfg |-> Page("mini", {"miniinfos"}, <<"miniconfigs">>),
              setmini |-> One("mini", "miniconfigs"),
              ministatus |-> Page("mini", {"miniinfos"}, <<"ministats">>)]
COMPages == [comcfg |-> Page("com", {"cominfos"}, <<"comconfigs">>), setcom |-> One("com", "comconfigs")]
WdtPages == [pwrupcfg |-> One("wdt", "pwrup"), setpwrup |-> One("wdt", "pwrup"),
             runcfg |-> One("wdt", "run"), setrun |-> One("wdt", "run"),
             runstatus |-> One("wdt", "runstat")]
PowerPages == [powercfgs |-> One("power", "powercfg"), setpower |-> One("power", "powercfg")]
UsbPages == [usbcfg |-> Page("usb", {"usbinfos"}, <<"usbconfigs">>), setusb |-> One("usb", "usbconfigs")]
FanPages == [fancfg |-> Page("fan", {"faninfos"}, <<"fanconfigs">>), setfan |-> One("fan", "fanconfigs"),
             fanstatus |-> Page("fan", {"faninfos"}, <<"fanstats">>)]
IoPages == [di |-> Page("io", {"dio"}, <<>>), dotypes |-> Page("io", {"dio"}, <<>>),
            setdotype |-> Page("io", {"dotype"}, <<>>), dos |-> Page("io", {"dio"}, <<>>),
            setdo |-> Page("io", {"do"}, <<>>), dirs |-> Page("io", {"gpio"}, <<>>),
            setdirs |-> Page("io", {"dir"}, <<>>), gpis |-> Page("io", {"gpio"}, <<>>),
            setgpi |-> Page("io", {"gpi"}, <<>>)]
IoCalls == {"gpio", "dir", "gpi", "dio", "di", "dotype", "do"}
PageOf == SysinfoPages @@ DdmPages @@ HealthPages @@ PoePages @@ MiniPages @@ COMPages
          @@ WdtPages @@ PowerPages @@ UsbPages @@ FanPages @@ IoPages
Pages == DOMAIN PageOf
PagesIn == [sysinfo |-> <<"version", "ontime">>,
            ddm |-> <<"strings", "setstring", "ddmpages", "setpage">>,
            health |-> <<"system", "lastpower", "counters", "hwmon">>,
            poe |-> <<"poecfg", "setpoe", "poestatus">>, mini |-> <<"minicfg", "setmini", "ministatus">>,
            com |-> <<"comcfg", "setcom">>,
            wdt |-> <<"pwrupcfg", "setpwrup", "runcfg", "setrun", "runstatus">>,
            power |-> <<"powercfgs", "setpower">>, usb |-> <<"usbcfg", "setusb">>,
            fan |-> <<"fancfg", "setfan", "fanstatus">>,
            io |-> <<"di", "dotypes", "setdotype", "dos", "setdo", "dirs", "setdirs", "gpis", "setgpi">>]
SetPages == {"setstring", "setpage", "setpoe", "setmini", "setcom", "setpwrup", "setrun",
             "setpower", "setusb", "setfan"}

\* How an answer is kept: a list that a page clears before it asks again; a
\* number that all pages read into one byte or one word; or a record of its own.
Lists == {"ddmconfigs", "hwmon", "poeconfigs", "poestats", "miniconfigs", "ministats",
          "comconfigs", "usbconfigs", "fanconfigs", "fanstats"}
Shared == [b |-> {"temp", "watts", "last"}, dw |-> {"secs", "mins", "boots", "powerups"}]
Queries == (UNION {{Menu[p][i].q : i \in DOMAIN Menu[p]} : p \in Parts})
           \cup (UNION {{PageOf[p].reads[i] : i \in DOMAIN PageOf[p].reads} : p \in Pages})
Ids(q) == IF q \in Lists THEN 1..2 ELSE {1}

VARIABLES
    look,    \* the part looked at, and those the AIC has; never changes
    page,    \* where the tool is
    prompt,  \* it waits for a line: at a menu, after a page, or not at all
    libs,    \* the libraries of which the AIC was recognized
    tries,   \* how often it was tried in vain
    got,     \* what has been answered
    held,    \* the variables: the answers last read, <<>> for a list cleared
    shown,   \* the rows the last page printed
    aic,     \* what the AIC would answer
    wrong    \* answers that failed, and changes of values

toolVars == <<look, page, prompt, libs, tries, got, held, shown, aic, wrong>>

\* Whose answer it is.  The AIC has one form of the PoE configuration.
Source == [q \in Queries |-> CHOOSE p \in Parts :
    \/ \E i \in DOMAIN Menu[p] : Menu[p][i].q = q
    \/ \E g \in Pages : PageOf[g].part = p /\ \E i \in DOMAIN PageOf[g].reads : PageOf[g].reads[i] = q]
Has(q) == /\ Source[q] \in look.has
          /\ (q = "poeconfig" => ~look.new) /\ (q = "poeconfigs" => look.new)

\* The variable a page reads an answer into.
Var(q) == IF q \in Shared.b THEN "b" ELSE IF q \in Shared.dw THEN "dw" ELSE q

\* There: one of the answers has been got.
There(have, qs) == \E q \in qs : q \in have
Firsts(p) == {AskedFirst[p][i] : i \in DOMAIN AskedFirst[p]}

ToolInit ==
    /\ \E p \in ToolParts, more \in SUBSET {"sysinfo"}, new \in BOOLEAN :
         look = [part |-> p, has |-> {p} \cup more, new |-> new /\ p = "poe"]
    /\ page = "load" /\ prompt = "none" /\ libs = {} /\ tries = 0 /\ got = {}
    /\ held = [x \in Queries \cup {"b", "dw"} |-> IF x \in Lists THEN <<>> ELSE <<0>>]
    /\ shown = {}
    /\ \E v \in 0..1 : aic = [q \in Queries |-> [i \in Ids(q) |-> v]]
    /\ wrong = 0

-----------------------------------------------------------------------------
(* What is asked.  In one page one answer may fail; a list is then filled  *)
(* as far as cut.                                                          *)

\* (mutant) a list is not cleared before it is asked for again.
AnswerKept(s, q, x, bad, cut) ==
    IF q # bad /\ Has(q) THEN [s EXCEPT !.got = @ \cup {q}, !.held[x] = s.aic[q]] ELSE s

Answer(s, q, x, bad, cut) ==
    IF q # bad /\ Has(q) THEN [s EXCEPT !.got = @ \cup {q}, !.held[x] = s.aic[q]]
    ELSE IF q \in Lists THEN [s EXCEPT !.held[q] = SubSeq(s.aic[q], 1, cut)] ELSE s

Now == [got |-> got, held |-> held, aic |-> aic]

\* The first question of each part that is answered.
AskFirst(bad, cut) ==
    LET ask(s, p) == FoldLeft(LAMBDA t, q : IF There(t.got, Firsts(p)) THEN t ELSE Answer(t, q, q, bad, cut),
                              s, AskedFirst[p])
    IN FoldLeft(ask, Now, Front(InOrder))

AskMenu(p, bad, cut) ==
    FoldLeft(LAMBDA s, a : IF a.q \in s.got \/ ~(a.needs \subseteq s.got) \/ There(s.got, a.but)
                           THEN s ELSE Answer(s, a.q, a.q, bad, cut),
             Now, Menu[p])

\* A page asks again; the pages of the PoE configuration the form they know.
AskPage(now, g, bad, cut) ==
    FoldLeft(LAMBDA s, q : IF q \in {"poeconfig", "poeconfigs"} /\ q \notin s.got
                           THEN s ELSE Answer(s, q, Var(q), bad, cut),
             now, PageOf[g].reads)

\* What a page prints is what it asks; the version is not asked again.
Prints(g) == IF g = "version" THEN {"fw"}
             ELSE {PageOf[g].reads[n] : n \in DOMAIN PageOf[g].reads}
Printed == [p \in Parts |-> UNION {Prints(g) : g \in {h \in Pages : PageOf[h].part = p}}]

\* The rows of a page: what the variables hold of all that was ever answered.
Rows(g, s) ==
    IF g = "poestatus" /\ ~There(s.got, {"poeconfig", "poeconfigs"}) THEN {}
    ELSE UNION {{[q |-> q, i |-> i, v |-> s.held[Var(q)][i]] : i \in DOMAIN s.held[Var(q)]} :
                q \in Prints(g) \cap s.got}

Fails(bad) == /\ wrong' = wrong + (IF bad = "none" THEN 0 ELSE 1)
              /\ wrong' <= ToolFaults
              /\ (bad # "none" => Has(bad))
Bads == {"none"} \cup {q \in Queries : Source[q] = look.part}
Cuts(bad) == IF bad \in Lists THEN 0..1 ELSE {0}

-----------------------------------------------------------------------------
(* The start, up to the first menu.                                        *)

Fixed == UNCHANGED look
Rest == UNCHANGED <<look, got, held, shown, aic, wrong>>

Load == /\ page = "load"
        /\ page' \in {"verify", "exit"}
        /\ UNCHANGED <<prompt, libs, tries>> /\ Rest

\* Six tries, until one of the two libraries recognizes the AIC.
Verify == /\ page = "verify"
          /\ libs' \in SUBSET {"dmci", "ddmi"}
          /\ tries' = IF libs' = {} THEN tries + 1 ELSE 0
          /\ page' = IF libs' # {} THEN "pass" ELSE IF tries' = 6 THEN "exit" ELSE page
          /\ UNCHANGED prompt /\ Rest

\* The password of both is wanted.
Pass == /\ page = "pass"
        /\ page' \in {"exit"} \cup {x \in {"init"} : libs = {"dmci", "ddmi"}}
        /\ UNCHANGED <<prompt, libs, tries>> /\ Rest

\* The menu a tool of one part starts with; for the health part it is the one
\* of the pages of the display.
OnlyMenu(p) == IF p = "health" THEN "ddm" ELSE p

Take(s) == got' = s.got /\ held' = s.held

ProcInit(bad, cut) ==
    LET s == AskFirst(bad, cut)
        parts == {p \in Parts : There(s.got, Firsts(p))}
    IN /\ page = "init" /\ look.part # "io" /\ Fails(bad) /\ Take(s)
       /\ page' = IF parts = {} THEN "exit" ELSE IF Cardinality(parts) > 1 THEN "func"
                  ELSE OnlyMenu(CHOOSE p \in parts : TRUE)
       /\ prompt' = IF page' = "func" THEN "line" ELSE "none"
       /\ UNCHANGED <<look, libs, tries, shown, aic>>

Start == Load \/ Verify \/ Pass \/ \E bad \in Bads : \E cut \in Cuts(bad) : ProcInit(bad, cut)

-----------------------------------------------------------------------------
(* Menus and pages.                                                        *)

Go(to, how) == page' = to /\ prompt' = how
Same == UNCHANGED <<look, libs, tries>>

\* A menu asks what it still wants and waits for a line.
SubMenu(bad, cut) ==
    /\ page \in Parts \ {"io"} /\ prompt = "none"
    /\ Fails(bad) /\ Take(AskMenu(page, bad, cut)) /\ prompt' = "line" /\ shown' = {}
    /\ Same /\ UNCHANGED <<page, aic>>

\* A page asks, prints and waits for a line; that of the voltages, as long as
\* they were never answered, does not wait but asks again.
GetPage(bad, cut) ==
    LET s == AskPage(Now, page, bad, cut)
    IN /\ page \in Pages \ (SetPages \cup DOMAIN IoPages) /\ prompt = "none"
       /\ Fails(bad) /\ Take(s) /\ shown' = Rows(page, s)
       /\ prompt' = IF page = "hwmon" /\ "hwmon" \notin s.got THEN "none" ELSE "after"
       /\ Same /\ UNCHANGED <<page, aic>>

\* The pages that set print what they know, and wait.
SetPage == /\ page \in SetPages /\ prompt = "none"
           /\ prompt' = "line" /\ shown' = {}
           /\ Same /\ UNCHANGED <<page, got, held, aic, wrong>>

\* Lines: a menu's number, an empty one, the two words, and a setting that may
\* lack its last number.
GoTo(n) == [do |-> "go", n |-> n]
Empty == [do |-> "empty"]
Quit == [do |-> "quit"]
ExitLine == [do |-> "exit"]
Setting(i, v) == [do |-> "set", i |-> i, v |-> v, whole |-> TRUE]
Short(i) == [do |-> "set", i |-> i, v |-> 0, whole |-> FALSE]
Stay == UNCHANGED <<got, held, shown, aic, wrong>>

\* One level up; exit ends the tool.
Leave(line) ==
    /\ prompt \in {"line", "after"} /\ line \in {Quit, ExitLine}
    /\ IF line = ExitLine THEN Go("exit", "none")
       ELSE IF page \in Pages THEN Go(PageOf[page].part, "none") ELSE Go("func", "line")
    /\ Same /\ Stay

\* At the first menu, the parts that have answered anything at the start.
ChoosePart(line) ==
    /\ page = "func" /\ prompt = "line" /\ line.do \notin {"quit", "exit"}
    /\ IF line.do = "go" /\ line.n \in DOMAIN InOrder /\ There(got, Firsts(InOrder[line.n]))
       THEN Go(InOrder[line.n], "none") ELSE UNCHANGED <<page, prompt>>
    /\ Same /\ Stay

ChoosePage(line) ==
    /\ page \in Parts /\ prompt = "line" /\ line.do \notin {"quit", "exit"}
    /\ IF line.do = "go" /\ line.n \in DOMAIN PagesIn[page]
          /\ There(got, PageOf[PagesIn[page][line.n]].needs)
       THEN Go(PagesIn[page][line.n], "none") ELSE Go(page, "none")
    /\ Same /\ Stay

\* After a page any other line repeats it.
Again(line) ==
    /\ prompt = "after" /\ line.do \notin {"quit", "exit"}
    /\ Go(page, "none") /\ Same /\ Stay

\* The last number of a line to these pages may be left out: the time, or a
\* fan's speed, is then what a variable happens to hold, and may not fit.
ShortPages == {"setpwrup", "setrun", "setpower", "setfan"}

\* What a page sets: of the forms of the PoE configuration the one that is known.
Target(g) == LET n == CHOOSE n \in DOMAIN PageOf[g].reads :
                          /\ PageOf[g].reads[n] \in got
                          /\ \A m \in 1..(n - 1) : PageOf[g].reads[m] \notin got
             IN PageOf[g].reads[n]

Fitting(line) == line.do = "set" /\ line.i \in Ids(Target(page))

\* A line that fits; a short one may not, for what the variable holds.
Fits(line) == Fitting(line) /\ (line.whole \/ page \in ShortPages)

\* The line is obeyed, if the AIC takes it, and the page of the part follows.
SetTo(line, v, ok, bad, cut) ==
    LET q == Target(page)
        set == IF ok THEN [aic EXCEPT ![q][line.i] = v] ELSE aic
        s == AskPage([Now EXCEPT !.aic = set], page, bad, cut)
    IN /\ page \in SetPages /\ prompt = "line" /\ Fits(line) /\ (line.whole \/ page = "setfan" => v = line.v)
       /\ IF ok THEN Fails(bad) ELSE bad = "none" /\ wrong < ToolFaults /\ wrong' = wrong + 1
       /\ Take(s) /\ aic' = set /\ shown' = Rows(page, s) /\ prompt' = "after"
       /\ Same /\ UNCHANGED page

FormatError(line) ==
    /\ page \in SetPages /\ prompt = "line" /\ line.do \notin {"quit", "exit"}
    /\ (Fits(line) => ~line.whole)
    /\ Go(page, "none") /\ Same /\ Stay

ReadLine(line) ==
    \/ Leave(line) \/ ChoosePart(line) \/ ChoosePage(line) \/ Again(line) \/ FormatError(line)
    \/ \E v \in 0..1, ok \in BOOLEAN, bad \in Bads : \E cut \in Cuts(bad) : SetTo(line, v, ok, bad, cut)

Turn == \/ Start
        \/ \E bad \in Bads : \E cut \in Cuts(bad) : SubMenu(bad, cut) \/ GetPage(bad, cut)
        \/ SetPage

\* Printed values change by themselves, and by other programs.  Bound: of a
\* list one.
Drift == /\ page \in Parts \cup Pages /\ wrong < ToolFaults /\ wrong' = wrong + 1
         /\ \E q \in Printed[look.part] : aic' = [aic EXCEPT ![q][1] = 1 - @]
         /\ shown' = {} /\ UNCHANGED <<look, page, prompt, libs, tries, got, held>>

\* What an operator types.  Bound: one id to set.
Lines == {GoTo(n) : n \in DOMAIN InOrder}
         \cup {Empty, Quit, ExitLine} \cup {Setting(2, v) : v \in 0..1} \cup {Short(1)}
-----------------------------------------------------------------------------
\* However often questions failed before, and whatever was got once, a row of a
\* list that a page prints is what the AIC answers then, and only asked for.
RowsTold == \A r \in shown : r.q \in Lists => r.v = aic[r.q][r.i]
=============================================================================
