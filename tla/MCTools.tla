------------------------------- MODULE MCTools -------------------------------
EXTENDS AicIoPages, MCDisplay, BurnIn

\* Both types of AIC, each group used either way.
MCDioBoards == {b \in AllDioBoards : b.v3c => b.gpio # {1}}

\* An output of group 1, and of group 2 an input, the output whose table is
\* off, and one that shares a byte with terminals of both sorts.
MCAsked == {<<1, 9>>, <<2, 5>>, <<2, 10>>, <<2, 11>>}

\* Every part of the tool with an operator and with the checks.
MCChecks == {[name |-> n, port |-> 1] : n \in {"operator", "aicVersion", "aicDdmLogo", "aicTemp", "aicRtc"}}
            \cup [name : {"aicPoe", "aicFan"}, port : 1..3]
MCIoChecks == [name : {"operator"}, port : {2}, mode : {"none"}]
              \cup [name : {"dio", "idioCheck"}, port : {1, 2}, mode : {"none"}]
              \cup [name : {"idioConfig"}, port : {1, 2}, mode : Types]

\* Five scenes: programs of any calls on the terminals, the tool's pages of
\* the terminals, its other pages, programs of any calls on the display, and
\* the burn-in, which watches the temperature while the terminals rest.
Displays == setting.who # {}
Idle == CHOOSE s \in Settings : s.who = {}
Programs == check.name = "none"
Terminal == look.part = "io"

NoTool == /\ check = [name |-> "none", port |-> 0] /\ ToolInit /\ aic["fw"][1] = 0
          /\ typed = <<>> /\ out = {} /\ judged = 1 /\ answer = <<>> /\ verdict = "running"
NoIo == todo = <<>> /\ did = {} /\ count = 0 /\ told = <<>> /\ seen = <<>>
NoDio == /\ flash = CHOOSE b \in DioBoards : TRUE
         /\ focus = CHOOSE a \in Asked : TRUE
         /\ chip = [routed |-> {}, latch |-> {}, out |-> {}, level |-> {}] /\ mem = NoMem

OneTool == NoTool /\ Terminal /\ ~look.new /\ look.has = {"io"} /\ NoIo

ToolsInit == \/ /\ setting = Idle /\ DisplayInit
                /\ \/ OneTool /\ DioInit
                   \/ IoInit
                   \/ CheckInit /\ ~Terminal /\ NoDio /\ NoIo
             \/ DisplayInit /\ setting # Idle /\ OneTool /\ NoDio

ToolsNext == \/ Displays /\ DisplayNext /\ UNCHANGED <<checkVars, dioVars, ioOwn>>
             \/ /\ ~Displays /\ UNCHANGED ddmVars
                /\ \/ Programs /\ DioNext /\ UNCHANGED <<checkVars, ioOwn>>
                   \/ ~Programs /\ Terminal /\ IoNext
                   \/ ~Terminal /\ CheckNext /\ UNCHANGED <<dioVars, ioOwn>>

\* No burn-in; no round has ever the number 0.
NoBurn == /\ now = Total /\ load = Total /\ pc = "done"
          /\ biCount = 0 /\ nowTime = Total /\ endTime = Total
          /\ readings = 0 /\ prompts = 0 /\ away = FALSE
AtRest == OneTool /\ NoDio /\ setting = Idle /\ DisplayInit

TestsInit == (ToolsInit /\ NoBurn) \/ (AtRest /\ BurnInit)
TestsNext == \/ BurnNext /\ UNCHANGED <<ioVars, ddmVars>>
             \/ biCount = 0 /\ ToolsNext /\ UNCHANGED burnVars

TestsSpec == TestsInit /\ [][TestsNext]_<<ioVars, ddmVars, burnVars>>
=============================================================================
