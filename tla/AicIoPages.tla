----------------------------- MODULE AicIoPages -----------------------------
(***************************************************************************)
(* The part of the tool for the digital inputs and outputs, composed with  *)
(* the calls of AicDio: its start, its menu and its pages make one call    *)
(* for each group after the other; and the checks of moduleEbk that drive  *)
(* it, which wait for two of its texts, at most two seconds.               *)
(***************************************************************************)
EXTENDS AicChecks, AicDio

CONSTANT IoChecks  \* the checks made, [name, port, mode]

VARIABLES
    todo,   \* the calls still to make, each with its group
    did,    \* the calls that ever succeeded
    count,  \* IO_GROUP_COUNT
    told,   \* the words kept to be printed again: outputs and levels, of each group
    seen    \* the row of the check's group, and whether the text of j was there

ioOwn == <<todo, did, count, told, seen>>
ioVars == <<checkVars, dioVars, ioOwn>>

\* What each call comes after, and the calls of each page.
After(c) == IF c \in {"dir", "gpi"} THEN "gpio" ELSE "dio"
Inits == {"gpio", "dio"}
CallOf == [di |-> "di", dotypes |-> "dotype", setdotype |-> "dotype", dos |-> "do", setdo |-> "do",
           dirs |-> "dir", setdirs |-> "dir", setgpi |-> "dir"]
IoSetPages == {"setdotype", "setdo", "setdirs", "setgpi"}

\* The page of the levels asks for the directions, of the groups whose levels
\* the menu has read.
RowCall(g) == IF g = "gpis" THEN "dir" ELSE CallOf[g]
RowGroups(g) == {n \in 1..count : <<IF g \in {"gpis", "setgpi"} THEN "gpi" ELSE CallOf[g], n>> \in did}
RowsFrom(g, from) == SelectSeq([n \in 1..2 |-> <<RowCall(g), n>>], LAMBDA c : c[2] \in RowGroups(g) /\ c[2] >= from)

IoMenuCalls == FlattenSeq([n \in 1..count |->
    <<<<"gpio", n>>, <<"dio", n>>, <<"dir", n>>, <<"gpi", n>>, <<"di", n>>, <<"dotype", n>>, <<"do", n>>>>])

\* One call, if the library takes it.
Takes(m, c, n) == IF c = "gpi" THEN GPIOReady(m, n)
                  ELSE IF c = "di" THEN DIReady(m, n)
                  ELSE IF c = "do" THEN DOReady(m, n) ELSE Offered(m, n, c \in {"gpio", "dir"})
Call(c, n) ==
    \/ c = "gpio" /\ (IF n = 1 THEN InitGPIO1 ELSE InitGPIO2)
    \/ c = "dio" /\ (IF n = 1 THEN InitDIO1 ELSE InitDIO2)
    \/ c = "dir" /\ (IF n = 1 THEN GetGPIO1Config ELSE GetGPIO2Config)
    \/ c = "dotype" /\ (IF n = 1 THEN GetDO1Type ELSE GetDO2Type)
    \/ c \in {"gpi", "di", "do"} /\ Look /\ Takes(mem', c, n)

\* What is told of a group: the pins that are outputs, or that are high.
Word(c, n) == IF c = "dir" THEN {k \in 0..15 : Bit(n, k) \in chip'.out}
              ELSE IF c = "gpi" THEN {k \in 0..15 : IF n = 1 THEN GetGPIO1[k] ELSE GetGPIO2[k]}
              ELSE IF c = "do" THEN {k \in 0..7 : IF n = 1 THEN GetDO1[k] ELSE GetDO2[k]} ELSE {}

\* Where it is kept: the page of the levels keeps its directions as levels.
Keeps(c) == IF page = "gpis" THEN "gpi" ELSE c

\* A group that is set up is not set up again, and the menu asks what was not
\* answered yet.
Needless(c, n) == \/ c \in Inits /\ \E i \in Inits : <<i, n>> \in did
                  \/ c \notin Inits /\ <<After(c), n>> \notin did
                  \/ page = "io" /\ <<c, n>> \in did

\* The texts the checks look for: two neighbours connected, or low.
Beside(word, on, last) == \E k \in 1..last : (k \in word <=> on) /\ (k - 1 \in word <=> on)
Row2(s, g, n, word) ==
    IF check.name = "idioConfig" /\ g \in {"dos", "setdo"} /\ Beside(word, TRUE, 7)
    THEN [row |-> {<<n, word>>}, j |-> TRUE]
    ELSE IF check.name = "dio" /\ g = "setgpi"
    THEN [row |-> IF n = check.port THEN {<<n, word>>} ELSE s.row, j |-> s.j \/ Beside(word, FALSE, 15)]
    ELSE s
-----------------------------------------------------------------------------
(* The tool.                                                               *)

IoIdle == UNCHANGED <<look, libs, tries, shown, aic, wrong, check, out, judged, answer, verdict>>
NoCalls == UNCHANGED <<dioVars, did, count, told>>

\* After the other parts the groups are set up.
IoStart == /\ page = "init" /\ look.part = "io" /\ prompt = "none"
           /\ Take(AskFirst("none", 0)) /\ Go("init", "calls")
           /\ todo' = << <<"gpio", 1>>, <<"dio", 1>>, <<"gpio", 2>>, <<"dio", 2>> >>
           /\ IoIdle /\ NoCalls /\ UNCHANGED <<typed, seen>>

IoMake(c, n) ==
    /\ Call(c, n) /\ did' = did \cup {<<c, n>>} /\ got' = got \cup {c}
    /\ count' = IF page = "init" THEN n ELSE count
    /\ told' = IF Keeps(c) \in {"do", "gpi"} THEN [told EXCEPT ![Keeps(c)][n] = Word(c, n)] ELSE told
    /\ seen' = IF page \in Pages THEN Row2(seen, page, n, Word(c, n)) ELSE seen

IoRefused(c, n) == Look /\ ~Takes(mem', c, n) /\ UNCHANGED <<did, got, count, told, seen>>

IoCall ==
    /\ prompt = "calls" /\ todo # <<>> /\ todo' = Tail(todo)
    /\ LET c == Head(todo)[1]
           n == Head(todo)[2]
       IN IF Needless(c, n) THEN NoCalls /\ UNCHANGED <<got, seen>> ELSE IoMake(c, n) \/ IoRefused(c, n)
    /\ IoIdle /\ UNCHANGED <<page, prompt, typed, held>>

\* All calls are made: the tool chooses its first menu, or waits.
IoDone ==
    LET parts == {p \in Parts : There(got, Firsts(p))}
    IN /\ prompt = "calls" /\ todo = <<>>
       /\ IF page = "init"
          THEN IF parts = {} THEN Go("exit", "none")
               ELSE IF Cardinality(parts) > 1 THEN Go("func", "line")
               ELSE Go(CHOOSE p \in parts : TRUE, "none")
          ELSE Go(page, IF page = "io" THEN "line" ELSE "after")
       /\ IoIdle /\ NoCalls /\ UNCHANGED <<got, held, todo, typed, seen>>

IoMenu == /\ page = "io" /\ prompt = "none" /\ Go(page, "calls") /\ todo' = IoMenuCalls
          /\ IoIdle /\ NoCalls /\ UNCHANGED <<got, held, typed, seen>>

IoPage == /\ page \in DOMAIN IoPages \ IoSetPages /\ prompt = "none"
          /\ Go(page, "calls") /\ todo' = RowsFrom(page, 1)
          /\ IoIdle /\ NoCalls /\ UNCHANGED <<got, held, typed, seen>>

\* The pages that set print what was read last.
IoSetPage ==
    LET c == IF page = "setdo" THEN "do" ELSE "gpi"
        rows == SelectSeq(<<1, 2>>, LAMBDA n : page \in {"setdo", "setgpi"} /\ <<c, n>> \in did)
    IN /\ page \in IoSetPages /\ prompt = "none" /\ Go(page, "line")
       /\ seen' = FoldLeft(LAMBDA s, n : Row2(s, page, n, told[c][n]), seen, rows)
       /\ IoIdle /\ NoCalls /\ UNCHANGED <<got, held, typed, todo>>

IoFits(line) == line.do = "set" /\ line.i \in 1..count

\* A line that fits is obeyed if the library takes it; the rows of this group
\* and those after it follow.  Nothing is tried for a group not set up so.
IoSetTo(line) ==
    /\ page \in IoSetPages /\ prompt = "line" /\ IoFits(line)
    /\ LET n == line.i
           dio == page \in {"setdotype", "setdo"}
           takes(m) == IF page = "setdo" THEN DOReady(m, n)
                       ELSE IF page = "setdotype" THEN Offered(m, n, FALSE)
                       ELSE IF page = "setdirs" THEN Offered(m, n, TRUE) ELSE GPIOReady(m, n)
       IN IF <<IF dio THEN "dio" ELSE "gpio", n>> \notin did THEN UNCHANGED dioVars
          ELSE \/ page = "setdotype" /\ (IF n = 1 THEN SetDO1Type(line.v) ELSE SetDO2Type(line.v))
               \/ page = "setdo" /\ (IF n = 1 THEN SetDO1(0..7) ELSE SetDO2(0..7))
               \/ page = "setdirs" /\ (IF n = 1 THEN SetGPIO1Config(0..15) ELSE SetGPIO2Config(0..15))
               \/ page = "setgpi" /\ (IF n = 1 THEN SetGPIO1(0..15) ELSE SetGPIO2(0..15))
               \/ Look /\ ~takes(mem')
    /\ Go(page, "calls") /\ todo' = RowsFrom(page, line.i)
    /\ IoIdle /\ UNCHANGED <<did, count, told, got, held, seen>>

IoFormatError(line) ==
    /\ page \in IoSetPages /\ prompt = "line" /\ line.do \notin {"quit", "exit"} /\ ~IoFits(line)
    /\ Go(page, "none") /\ IoIdle /\ NoCalls /\ UNCHANGED <<got, held, todo, seen>>

IoLine(line) ==
    \/ IoSetTo(line) \/ IoFormatError(line)
    \/ /\ Leave(line) \/ ChoosePart(line) \/ ChoosePage(line) \/ Again(line)
       /\ NoCalls /\ UNCHANGED <<todo, seen, check, out, judged, answer, verdict>>
-----------------------------------------------------------------------------
(* The checks.                                                             *)

IoSet(n, v) == [do |-> "set", i |-> n, v |-> v]
IoScript(c) ==
    IF c.name = "dio" THEN Numbers(11, 9)
    ELSE IF c.name = "idioCheck" THEN Numbers(11, 1)
    ELSE IF c.name = "idioConfig"
    THEN Typed(<<GoTo(11), GoTo(3)>>) \o <<Await("setdotype")>> \o Typed(<<IoSet(c.port, c.mode), Quit, GoTo(5)>>)
         \o <<Await("setdo")>> \o Typed(<<IoSet(c.port, "all"), ExitLine>>)
    ELSE <<>>

\* What other programs left, as far as a check looks at it.  Bound: nothing,
\* everything or the terminal asked for is driven, or an output; from outside
\* at most that terminal is high.
IoChips ==
    LET sets == IF check.name \in {"dio", "idioConfig"} THEN {{}, Bits, {Bit(focus[1], focus[2])}} ELSE {{}}
    IN [routed : {{}}, latch : sets, out : sets,
        level : IF check.name = "dio" THEN {{}, {Bit(focus[1], focus[2])}} ELSE {{}}]

IoInit ==
    /\ check \in IoChecks /\ ToolInit /\ look.part = "io" /\ libs = {} /\ \A q \in Queries : aic[q][1] = 1
    /\ typed = IoScript(check) /\ out = {} /\ judged = 1 /\ answer = <<>> /\ verdict = "running"
    /\ todo = <<>> /\ did = {} /\ count = 0 /\ told = [c \in {"do", "gpi"} |-> [n \in {1, 2} |-> {}]]
    /\ seen = [row |-> {}, j |-> FALSE]
    /\ flash \in DioBoards /\ focus \in Asked /\ check.port = focus[1] /\ mem = NoMem /\ chip \in IoChips

IoTool == \/ (Load \/ Verify \/ Pass) /\ UNCHANGED <<checkOwn, dioVars, ioOwn>>
          \/ IoStart \/ IoCall \/ IoDone \/ IoMenu \/ IoPage \/ IoSetPage
          \/ \E g \in (Pages \ DOMAIN IoPages) \cup (Parts \ {"io"}) :
               page = g /\ prompt = "none" /\ Turn /\ UNCHANGED <<checkOwn, dioVars, ioOwn>>

IoType == /\ Writing /\ Head(typed).do # "await"
          /\ typed' = Tail(typed) /\ IoLine(Head(typed))

\* What was printed before the text is no longer looked at.
IoAwait ==
    /\ Writing /\ Head(typed).do = "await"
    /\ prompt \in {"line", "after"} \/ page = "exit"
    /\ typed' = Tail(typed) /\ seen' = [row |-> {}, j |-> FALSE]
    /\ \E ok \in {page = Head(typed).page, FALSE} : Waited(ok)
    /\ UNCHANGED <<toolVars, check, out, judged, answer, dioVars, todo, did, count, told>>

\* What an operator types.  Bound: one word to set, in one group.
IoLines == {GoTo(n) : n \in 1..11} \cup {Empty, Quit, ExitLine} \cup {IoSet(focus[1], t) : t \in Types}
           \cup {IoSet(0, "source")}
IoOperate == ~Scripted /\ (\E l \in IoLines : IoLine(l)) /\ UNCHANGED typed

IoOver == Scripted /\ page = "exit" /\ verdict = "running"

\* (mutant) only the port of the last row is looked at.
PassesByPort == \E r \in seen.row : r[1] = check.port

\* The last row is the group's, with all outputs connected, or no pin set.
Passes == seen.row = {<<check.port, IF check.name = "dio" THEN {} ELSE 0..7>>}

\* The check of the inputs calls failRed for every line of another text.
JudgeIo ==
    /\ IoOver
    /\ verdict' = IF check.name = "idioCheck" THEN "failed"
                  ELSE IF Passes THEN "ok" ELSE IF seen.j THEN "failed" ELSE "crash"
    /\ UNCHANGED <<toolVars, check, typed, out, judged, answer, dioVars, ioOwn>>

IoNext == IoTool \/ IoType \/ IoAwait \/ IoOperate \/ JudgeIo
-----------------------------------------------------------------------------
\* A check of the terminals that ends without a call of failRed means: the
\* group is there and used that way; for aicIdioConfig all its outputs are
\* connected, and they switch the way it asked for, although it does not look
\* for that; for aicDio, which sees what the menu has read, all are low.
TerminalsMean == verdict = "ok" /\ check.name \in {"dio", "idioConfig"} =>
    LET n == check.port IN
    /\ n \in Groups12 /\ (n \in flash.gpio <=> check.name = "dio")
    /\ IF check.name = "dio" THEN \A b \in Terminals(n) : ~High(chip, b)
       ELSE PinType(chip, n) = {check.mode} /\ Outputs(n) \subseteq chip.latch \cap chip.out

\* A check that types to the tool and ends without a call of failRed has seen
\* what it is about, on every page it opens.
ChecksMean == DialoguesMean /\ TerminalsMean
=============================================================================
