------------------------------ MODULE AicChecks ------------------------------
(***************************************************************************)
(* The checks of moduleEbk.py: each starts the tool of AicTool, types its  *)
(* lines, nearly all without waiting for a text, ends it and looks for     *)
(* rows in what it printed.  The checks of the inputs and outputs are in   *)
(* AicIoPages.                                                             *)
(***************************************************************************)
EXTENDS AicTool

CONSTANT Checks  \* the checks made, [name, port]; "operator" is nobody's script

VARIABLES
    check,   \* the check; never changes
    typed,   \* the lines it has still to type
    out,     \* the rows printed, of each the last
    judged,  \* the port it looks at
    answer,  \* the answer it looks at, <<>> before there is one
    verdict  \* "running", "failed" once failRed was called, "ok", "crash"

checkOwn == <<check, typed, out, judged, answer, verdict>>
checkVars == <<toolVars, checkOwn>>

\* sendline ends a line twice; expect waits two seconds for a page's text.
Await(g) == [do |-> "await", page |-> g]
Typed(lines) == FlattenSeq([i \in DOMAIN lines |-> <<lines[i], Empty>>])
Numbers(a, b) == Typed(<<GoTo(a), GoTo(b), ExitLine>>)

Script == [aicVersion |-> Numbers(1, 1), aicDdmLogo |-> Numbers(2, 3), aicTemp |-> Numbers(3, 1),
           aicRtc |-> Numbers(3, 4), aicPoe |-> Numbers(4, 3), operator |-> <<>>,
           aicFan |-> Typed(<<GoTo(10), GoTo(2)>>) \o <<Await("setfan")>>
                      \o Typed(<<Setting(2, 0), Quit, GoTo(3), ExitLine>>)]

\* The second session of aicFan leaves the speed out.
AutoAgain == Typed(<<GoTo(10), GoTo(2)>>) \o <<Await("setfan")>> \o Typed(<<Short(2), Quit, ExitLine>>)

\* What each looks for; the row of one value is the first.
Wanted == [aicVersion |-> "fw", aicDdmLogo |-> "ddmconfigs", aicTemp |-> "temp", aicRtc |-> "hwmon",
           aicPoe |-> "poestats", aicFan |-> "fanstats"]
PartOf == [aicVersion |-> "sysinfo", aicDdmLogo |-> "ddm", aicTemp |-> "health", aicRtc |-> "health",
           aicPoe |-> "poe", aicFan |-> "fan"]
PortChecks == {"aicPoe", "aicFan"}

\* The value that passes: no logo on the display, all else present, turning
\* or in its range.
Good(name) == IF name = "aicDdmLogo" THEN 0 ELSE 1

CheckInit ==
    /\ check \in Checks /\ ToolInit
    /\ IF check.name = "operator" THEN \A q \in Queries : aic[q][1] = 0 ELSE look.part = PartOf[check.name]
    /\ typed = Script[check.name] /\ out = {} /\ judged = 1 /\ answer = <<>> /\ verdict = "running"

Scripted == check.name # "operator"
Merge(old, new) == new \cup {r \in old : \A t \in new : t.q # r.q \/ t.i # r.i}

\* The tool asks and prints.
ToolTurn == /\ Turn
            /\ out' = IF Scripted THEN Merge(out, shown') ELSE {}
            /\ UNCHANGED <<check, typed, judged, answer, verdict>>

Writing == Scripted /\ typed # <<>> /\ verdict # "crash"
Type == /\ Writing /\ Head(typed).do # "await" /\ ReadLine(Head(typed))
        /\ typed' = Tail(typed) /\ out' = Merge(out, shown')
        /\ UNCHANGED <<check, judged, answer, verdict>>

\* The text is there; or two seconds pass, because it is not, or not yet.
Waited(ok) == verdict' = IF ok THEN verdict ELSE "crash"
AwaitPage == /\ Writing /\ Head(typed).do = "await" /\ (prompt \in {"line", "after"} \/ page = "exit")
             /\ typed' = Tail(typed)
             /\ \E ok \in {page = Head(typed).page, FALSE} : Waited(ok)
             /\ UNCHANGED <<toolVars, check, out, judged, answer>>

\* An operator types anything.
Operate == ~Scripted /\ (\E l \in Lines : ReadLine(l)) /\ UNCHANGED checkOwn

\* Before a check, and while an operator looks, values change.
Change == (Scripted => page = "load") /\ Drift /\ UNCHANGED checkOwn

Row(i) == {r \in out : r.q = Wanted[check.name] /\ r.i = i}
Over == Scripted /\ page = "exit" /\ verdict \in {"running", "failed"}

\* Checks of one value: the last row; without one the variable is not bound.
JudgeOne ==
    /\ Over /\ check.name \notin PortChecks
    /\ verdict' = IF Row(1) = {} THEN "crash"
                  ELSE IF \A r \in Row(1) : r.v = Good(check.name) THEN "ok" ELSE "failed"
    /\ judged' = 2 /\ UNCHANGED <<toolVars, check, typed, out, answer>>

\* (mutant) a port without a row is judged by the answer of the port before.
MissedLast(row, a) == a = <<0>>

Missed(row, a) == a = <<0>> \/ row = {}

\* The next port: without a row the answer is the one before, or not bound.
JudgePort ==
    LET row == Row(judged)
        a == IF row = {} THEN answer ELSE <<(CHOOSE r \in row : TRUE).v>>
    IN /\ Over /\ check.name \in PortChecks /\ judged <= check.port
       /\ answer' = a /\ judged' = judged + 1
       /\ verdict' = IF a = <<>> THEN "crash" ELSE IF Missed(row, a) THEN "failed" ELSE verdict
       /\ UNCHANGED <<toolVars, check, typed, out>>

\* After the ports aicPoe is done; aicFan starts the tool again, once.
PortsDone ==
    /\ Over /\ check.name \in PortChecks /\ judged = check.port + 1
    /\ judged' = judged + 1 /\ verdict' = IF verdict = "running" THEN "ok" ELSE verdict
    /\ IF check.name = "aicFan"
       THEN /\ typed' = AutoAgain /\ page' = "load" /\ prompt' = "none" /\ got' = {} /\ libs' = {}
            /\ tries' = 0 /\ shown' = {}
            /\ held' = [x \in DOMAIN held |-> IF x \in Lists THEN <<>> ELSE <<0>>]
            /\ UNCHANGED <<look, aic, wrong>>
       ELSE UNCHANGED <<typed, toolVars>>
    /\ UNCHANGED <<check, out, answer>>

\* Nobody waits for the end of that session: when all is written aicFan is
\* done, and the tool is killed wherever it is.
Dropped == /\ check.name = "aicFan" /\ judged = check.port + 2 /\ page # "exit"
           /\ \A n \in DOMAIN typed : typed[n].do # "await"
           /\ Go("exit", "none") /\ typed' = <<>>
           /\ UNCHANGED <<look, libs, tries, got, held, shown, aic, wrong, check, out, judged, answer, verdict>>

CheckNext == ToolTurn \/ Type \/ AwaitPage \/ Dropped \/ Operate \/ Change \/ JudgeOne \/ JudgePort \/ PortsDone
-----------------------------------------------------------------------------
\* A check that ends without a call of failRed has seen what it is about: the
\* version, no logo, the battery in its range, every port that the product has
\* present and every fan turning, although answers fail and lines are typed
\* blindly.  Not so the temperature: see the README.
DialoguesMean == verdict = "ok" /\ check.name \in DOMAIN Wanted \ {"aicTemp"} =>
    \A i \in 1..(IF check.name \in PortChecks THEN check.port ELSE 1) :
        /\ i \in Ids(Wanted[check.name])
        /\ aic[Wanted[check.name]][i] = Good(check.name)
=============================================================================
