----------------------------- MODULE TestStation -----------------------------
(***************************************************************************)
(* The operator's session on a test station: pyMenu.py, the test scripts   *)
(* it starts (testAssy.py, testPcba.py, testBi.py, osClone.py,             *)
(* testOther.py) and the four things all of them share: the shelve file    *)
(* "dataBase", the shell file t.sh, the log folder and the power button.   *)
(*                                                                         *)
(* Every script starts the next one with subprocess.call("sh t.sh"), which *)
(* blocks.  The live processes are therefore a stack: only the newest one  *)
(* runs, and when it exits the one below CONTINUES after its call.         *)
(* "systemctl poweroff" on the other hand only asks for a shutdown: the    *)
(* process that asked runs on until systemd gets round to stopping it.     *)
(*                                                                         *)
(* Log files are modelled the way the file system sees them: a name refers *)
(* to a file, os.replace moves the name, and a logging handler keeps the   *)
(* file it opened whatever happens to the name.                            *)
(***************************************************************************)
EXTENDS Integers, Sequences

CONSTANTS
    Serials,   \* serial numbers an operator can type
    AssyPN,    \* part numbers the table at the end of testAssy.py lists
    MenuPN,    \* those whose test asks for T1 or T2 (funcMenu)
    PcbaPN,    \* part numbers the table at the end of testPcba.py lists
    OtherPN,   \* part numbers an operator types that no table lists
    Programs,  \* the programs the menus offer; all of ProgramScript in the code
    Plan,      \* the checks of each test, in order
    Files,     \* log files (inodes); bounds how many exist at one time
    MaxDepth,  \* bound: processes that can be live at one time
    None

StepKind == {"check", "temp", "clone", "image", "stress"}
Test     == AssyPN \union PcbaPN \union {"osClone", "bi"}
Script   == {"menu", "assy", "pcba", "osClone", "bi", "other"}
ProgramScript == Script \ {"menu"}
PN       == AssyPN \union PcbaPN \union OtherPN \union {"n"}
Func     == {"T1", "T2", "OS", "BI"}
LogName  == PN \X Func \X Serials   \* <pn>/<date>/<func>/<sn>-<model>-<day>-<func>

ASSUME StationAssumption ==
    /\ MaxDepth \in Nat \ {0}
    /\ Plan \in [Test -> Seq(StepKind)]
    /\ AssyPN \intersect PcbaPN = {} /\ MenuPN \subseteq AssyPN
    /\ {"osClone", "bi", "biUntimed"} \intersect (AssyPN \union PcbaPN) = {}
    /\ (OtherPN \union {"n"}) \intersect (AssyPN \union PcbaPN) = {}
    /\ Programs \subseteq ProgramScript
    /\ None \notin Serials \union Files \union LogName \union Func \union PN
                 \union {"osClone", "bi", "biUntimed"}

VARIABLES
    depth,   \* number of live processes
    frame,   \* frame[i]: the i-th live process, frame[depth] is running
    tsh,     \* the script t.sh starts
    db,      \* the shelve "dataBase": pnSave, osFlagSave, logPass
    work,    \* log name -> the file in the working folder, or None
    pass,    \* log name -> the file in its PASS folder, or None
    lines,   \* file -> the unit it was created for and its last verdict line
    power    \* "going" once a power-off was requested

vars == <<depth, frame, tsh, db, work, pass, lines, power>>

\* A process: the test it runs, its funcSelect and pn, the check it is at, its
\* unit and log handler, and whether a check has failed.  "biUntimed" is the
\* burn-in whose duration was never chosen.
Frame == [test: Test \union {"biUntimed", None}, func: Func \union {None},
          pn: PN \union {None}, step: Nat, sn: Serials \union {None},
          fh: Files \union {None}, failed: BOOLEAN,
          pc: {"idle", "choose", "clonecfg", "nodisk", "wait", "end", "pnmenu",
               "other", "nopn", "defmenu", "func", "funcback", "bi", "biback",
               "sn", "snmenu", "run", "red", "redo", "mv", "green", "again", "off"}]

Idle == [test |-> None, func |-> None, pn |-> None, pc |-> "idle", step |-> 0,
         sn |-> None, fh |-> None, failed |-> FALSE]

At(pc, test, func) ==
    [Idle EXCEPT !.pc = pc, !.test = test, !.func = func, !.pn = db.pn]

TypeOK ==
    /\ depth \in 0..MaxDepth
    /\ frame \in [1..MaxDepth -> Frame]
    /\ tsh \in Script
    /\ db \in [pn: PN, osFlag: {0, 1}, logPass: LogName \union {None}]
    /\ work \in [LogName -> Files \union {None}]
    /\ pass \in [LogName -> Files \union {None}]
    /\ lines \in [Files -> [unit: LogName \union {None},
                            verdict: {"none", "open", "failed", "passed"}]]
    /\ power \in {"on", "going"}

\* A dataBase as it comes with the package; its logPass names a file of
\* another station.
CloudDb == [pn: PN, osFlag: {0, 1}, logPass: {None}]

Init ==
    /\ depth = 0
    /\ frame = [i \in 1..MaxDepth |-> Idle]
    /\ tsh = "menu"
    /\ db \in CloudDb
    /\ work = [n \in LogName |-> None]
    /\ pass = [n \in LogName |-> None]
    /\ lines = [f \in Files |-> [unit |-> None, verdict |-> "none"]]
    /\ power = "on"

-----------------------------------------------------------------------------
(* Processes: calls, returns and where a caller continues.                 *)

Top       == frame[depth]
Running(pc) == depth > 0 /\ Top.pc = pc
NameOf(f) == <<f.pn, f.func, f.sn>>
\* biStress without a duration dies at its first use of stressTime.
PlanOf(f) == IF f.test = None THEN << >>
             ELSE IF f.test = "biUntimed" THEN <<"unset">> ELSE Plan[f.test]
ScriptOf(test) == IF test \in AssyPN THEN "assy"
                  ELSE IF test \in PcbaPN THEN "pcba"
                  ELSE IF test = "osClone" THEN "osClone" ELSE "bi"

\* A started script: a menu waits for a choice; a test program looks its part
\* number up in the database, selects its function (no PCBA test does) and asks
\* for a serial number, or reports that no test exists for the part number.
Process(script) ==
    CASE script = "menu"    -> At("choose", None, None)
      [] script = "other"   -> At("other", None, None)
      [] script = "bi"      -> At("bi", "bi", "BI")
      [] script = "osClone" -> At("sn", "osClone", "OS")
      [] script = "assy"    -> IF db.pn \in MenuPN THEN At("func", db.pn, None)
                               ELSE IF db.pn \in AssyPN THEN At("sn", db.pn, "T2")
                               ELSE At("nopn", None, None)
      [] script = "pcba"    -> IF db.pn \in PcbaPN THEN At("sn", db.pn, None)
                               ELSE At("nopn", None, None)

\* subprocess.call("sh t.sh"): the caller is suspended as `caller'.
Call(caller, script) ==
    /\ depth < MaxDepth
    /\ depth' = depth + 1
    /\ frame' = [frame EXCEPT ![depth] = caller, ![depth + 1] = Process(script)]

\* Rewriting t.sh before the call, as every menu does.
WriteAndCall(caller, script) == tsh' = script /\ Call(caller, script)

Continue(f) == [Top EXCEPT !.pc = f]
Become(f) == frame' = [frame EXCEPT ![depth] = f] /\ UNCHANGED depth

\* Where a suspended process goes on once its child has exited.
After == [redo |-> "run", again |-> "off", snmenu |-> "run", defmenu |-> "run",
          nodisk |-> "clonecfg", pnmenu |-> "choose", wait |-> "end",
          funcback |-> "sn", biback |-> "sn"]
Suspended == DOMAIN After

\* The stress loop takes the temperature again; any other check is over.
NextStep(f) == IF f.step \in 1..Len(PlanOf(f)) /\ PlanOf(f)[f.step] = "stress"
               THEN f.step ELSE f.step + 1

\* Fault: after a menu that snGet opened, the serial number is asked again.
ResumeAsksAgain(f) ==
    IF f.pc = "snmenu" THEN [f EXCEPT !.pc = "sn"]
    ELSE [f EXCEPT !.pc = After[f.pc],
                   !.step = IF f.pc = "redo" THEN NextStep(f)
                            ELSE IF f.pc = "defmenu" THEN 1 ELSE @]

\* failRed returns to the check that called it; a process sent to a menu by
\* snGet or default() starts its checks.
Resume(f) == [f EXCEPT !.pc = After[f.pc],
                       !.step = IF f.pc = "redo" THEN NextStep(f)
                                ELSE IF f.pc \in {"snmenu", "defmenu"} THEN 1
                                ELSE @]

\* The running process exits, normally or on an uncaught exception.
Exit ==
    /\ depth' = depth - 1
    /\ frame' = [i \in 1..MaxDepth |->
                    IF i = depth THEN Idle
                    ELSE IF i = depth - 1 THEN Resume(frame[i])
                    ELSE frame[i]]

-----------------------------------------------------------------------------
(* pyMenu.py                                                               *)

BootStation ==
    /\ depth = 0 /\ power = "on"
    /\ depth' = 1
    /\ frame' = [frame EXCEPT ![1] = Process("menu")]
    /\ UNCHANGED <<tsh, db, work, pass, lines, power>>

\* aMenu, pMenu, bMenu, oMenu: start a test program or the other menu.
MenuTest ==
    /\ Running("choose")
    /\ \E script \in Programs \ {"osClone"} :
          WriteAndCall(Continue("wait"), script)
    /\ UNCHANGED <<db, work, pass, lines, power>>

\* testOther.py: everything but the way back leaves the shared state alone.
OtherBack ==
    /\ Running("other")
    /\ WriteAndCall(Continue("wait"), "menu")
    /\ UNCHANGED <<db, work, pass, lines, power>>

\* pcloudPull: rclone brings the cloud's t.sh and dataBase, one, both or none
\* of them, and the menu restarts.
Update ==
    /\ Running("choose")
    /\ tsh' \in {tsh, "menu"}
    /\ db' \in {db} \union CloudDb
    /\ UNCHANGED <<depth, frame, work, pass, lines, power>>

\* osClone: pick disk and image, confirm, start osClone.py; without a disk or
\* an image a second menu runs first and the dialogue then goes on.
MenuClone ==
    /\ \/ /\ Running("choose") /\ "osClone" \in Programs
          /\ Become(Continue("clonecfg"))
          /\ UNCHANGED tsh
       \/ /\ Running("clonecfg")
          /\ \/ WriteAndCall(Continue("nodisk"), "menu")
             \/ WriteAndCall(Continue("wait"), "osClone")
             \/ Become(Continue("choose")) /\ UNCHANGED tsh
    /\ UNCHANGED <<db, work, pass, lines, power>>

\* pnMenu: the typed number is saved before it is looked at; "n" is saved too
\* and opens a second menu.  pnCheck's answer is ignored and the menu restarts.
MenuPn ==
    /\ Running("choose")
    /\ \E pn \in PN :
          /\ db' = [db EXCEPT !.pn = pn]
          /\ IF pn = "n"
             THEN WriteAndCall(Continue("pnmenu"), "menu")
             ELSE UNCHANGED <<depth, frame, tsh>>
    /\ UNCHANGED <<work, pass, lines, power>>

MenuPowerOff ==
    /\ Running("choose")
    /\ power' = "going"
    /\ Exit
    /\ UNCHANGED <<tsh, db, work, pass, lines>>

MenuEnd ==
    /\ Running("end")
    /\ Exit
    /\ UNCHANGED <<tsh, db, work, pass, lines, power>>

-----------------------------------------------------------------------------
(* The test scripts.                                                       *)

\* default(): no test for the part number; a menu runs, and then passGreen.
NoTestForPn ==
    /\ Running("nopn")
    /\ WriteAndCall(Continue("defmenu"), "menu")
    /\ UNCHANGED <<db, work, pass, lines, power>>

\* funcMenu: T1, T2, or back to a menu, after which funcSelect is still unset.
FuncMenu ==
    /\ Running("func")
    /\ \/ \E func \in {"T1", "T2"} :
             Become([Top EXCEPT !.pc = "sn", !.func = func]) /\ UNCHANGED tsh
       \/ WriteAndCall(Continue("funcback"), "menu")
    /\ UNCHANGED <<db, work, pass, lines, power>>

\* biMenu: a duration, or back to a menu, after which none is set.
BiMenu ==
    /\ Running("bi")
    /\ \/ Become(Continue("sn")) /\ UNCHANGED tsh
       \/ WriteAndCall([Top EXCEPT !.pc = "biback", !.test = "biUntimed"], "menu")
    /\ UNCHANGED <<db, work, pass, lines, power>>

\* snGet, answer "n": a menu runs, and then the caller's checks, without a log.
SnGetBack ==
    /\ Running("sn")
    /\ db' = [db EXCEPT !.osFlag = 0]
    /\ WriteAndCall(Continue("snmenu"), "menu")
    /\ UNCHANGED <<work, pass, lines, power>>

\* snGet without a function: funcSelect is undefined and the process dies
\* after the first database write.
SnGetNameError ==
    /\ Running("sn") /\ Top.func = None
    /\ db' = [db EXCEPT !.osFlag = 0]
    /\ Exit
    /\ UNCHANGED <<tsh, work, pass, lines, power>>

\* A file no name and no open handler refers to.
FreeFiles == {f \in Files : /\ \A n \in LogName : work[n] # f /\ pass[n] # f
                            /\ \A i \in 1..MaxDepth : frame[i].fh # f}

\* Faults: snGet forgets to store the PASS name, or to reset the flag.
SessionDbNoPassName(n) == [db EXCEPT !.osFlag = 0]
SessionDbKeepsFlag(n)  == [db EXCEPT !.logPass = n]

SessionDb(n) == [db EXCEPT !.osFlag = 0, !.logPass = n]

\* Fault: a retest appends to the log without a Test_Start line.
OpenLogNoStart(n, f) ==
    /\ IF work[n] # None THEN f = work[n] ELSE f \in FreeFiles
    /\ work' = [work EXCEPT ![n] = f]
    /\ lines' = [lines EXCEPT ![f] = IF work[n] # None THEN @
                                     ELSE [unit |-> n, verdict |-> "open"]]

\* Fault: a nested test logs through the handler of the process that called it,
\* as it would if the retest were a function call.
OpenLogInherited(n, f) ==
    /\ IF depth > 1 /\ frame[depth - 1].fh # None THEN f = frame[depth - 1].fh
       ELSE IF work[n] # None THEN f = work[n] ELSE f \in FreeFiles
    /\ work' = [work EXCEPT ![n] = f]
    /\ lines' = [lines EXCEPT ![f].verdict = "open",
                              ![f].unit = IF @ # None THEN @ ELSE n]

\* logging.FileHandler(log): append to the file of that name or create it.
OpenLog(n, f) ==
    /\ IF work[n] # None THEN f = work[n] ELSE f \in FreeFiles
    /\ work' = [work EXCEPT ![n] = f]
    /\ lines' = [lines EXCEPT ![f].verdict = "open",
                              ![f].unit = IF work[n] # None THEN @ ELSE n]

\* snGet: the serial number starts a session of this process.
SnGet(sn) ==
    /\ Running("sn") /\ Top.func # None
    /\ LET n == <<Top.pn, Top.func, sn>> IN
       \E f \in Files :
          /\ OpenLog(n, f)
          /\ db' = SessionDb(n)
          /\ Become([Top EXCEPT !.pc = "run", !.step = 1, !.sn = sn, !.fh = f])
    /\ UNCHANGED <<tsh, pass, power>>

Checking(kinds) == /\ Running("run")
                   /\ Top.step <= Len(PlanOf(Top))
                   /\ PlanOf(Top)[Top.step] \in kinds

NextCheck == Become([Top EXCEPT !.step = @ + 1])

CheckPass ==
    /\ Checking({"check", "image", "stress"})
    /\ NextCheck
    /\ UNCHANGED <<tsh, db, work, pass, lines, power>>

\* cpuTempCheck in range: the operating system may be installed.
TempPass ==
    /\ Checking({"temp"})
    /\ db' = [db EXCEPT !.osFlag = 1]
    /\ NextCheck
    /\ UNCHANGED <<tsh, work, pass, lines, power>>

\* osCloneFix: restores the image only when the flag is set.
ClonePass ==
    /\ Checking({"clone"}) /\ db.osFlag = 1
    /\ NextCheck
    /\ UNCHANGED <<tsh, db, work, pass, lines, power>>

\* Verdict lines go to the handler of the process, wherever its file is named.
LogVerdict(v) == lines' = IF Top.fh = None THEN lines
                          ELSE [lines EXCEPT ![Top.fh].verdict = v]

\* A check fails: failRed logs TEST_FAILED and prompts.
CheckFail ==
    /\ Checking(StepKind)
    /\ LogVerdict("failed")
    /\ Become([Top EXCEPT !.pc = "red", !.failed = TRUE])
    /\ UNCHANGED <<tsh, db, work, pass, power>>

\* A tool the check calls is missing or its output is not understood, or the
\* burn-in has no duration.
CheckRaise ==
    /\ Checking({"check", "temp", "stress", "unset"})
    /\ Exit
    /\ UNCHANGED <<tsh, db, work, pass, lines, power>>

\* failRed's prompt: 'n' asks for a power-off; t.sh is started either way.
RedKey(key) ==
    /\ Running("red")
    /\ power' = IF key = "n" THEN "going" ELSE power
    /\ Call(Continue("redo"), tsh)
    /\ UNCHANGED <<tsh, db, work, pass, lines>>

\* passGreen, first half: TEST_PASSED is logged.
PassGreen ==
    /\ Running("run") /\ Top.step > Len(PlanOf(Top)) /\ Top.fh # None
    /\ LogVerdict("passed")
    /\ Become(Continue("mv"))
    /\ UNCHANGED <<tsh, db, work, pass, power>>

\* passGreen of a process that never had a log: NameError at os.replace.
PassGreenNoLog ==
    /\ Running("run") /\ Top.step > Len(PlanOf(Top)) /\ Top.fh = None
    /\ Exit
    /\ UNCHANGED <<tsh, db, work, pass, lines, power>>

\* Fault: the log is copied to the PASS folder and stays where it was.
ReplaceCopies ==
    /\ Running("mv") /\ work[NameOf(Top)] # None
    /\ pass' = [pass EXCEPT ![db.logPass] = work[NameOf(Top)]]
    /\ Become(Continue("green"))
    /\ UNCHANGED <<tsh, db, work, lines, power>>

\* os.replace(log, logPass): log is this process's, logPass the database's; a
\* name of another station takes the file out of the modelled folders.
Replace ==
    /\ Running("mv") /\ work[NameOf(Top)] # None
    /\ pass' = [pass EXCEPT ![db.logPass] = work[NameOf(Top)]]
    /\ work' = [work EXCEPT ![NameOf(Top)] = None]
    /\ Become(Continue("green"))
    /\ UNCHANGED <<tsh, db, lines, power>>

\* A nested run of the same unit has moved the log already, or the PASS folder
\* of another station's unit does not exist here.
ReplaceMissing ==
    /\ Running("mv") /\ None \in {work[NameOf(Top)], db.logPass}
    /\ Exit
    /\ UNCHANGED <<tsh, db, work, pass, lines, power>>

\* passGreen's prompt: 'n' runs t.sh first, every key ends in a power-off.
GreenKey(key) ==
    /\ Running("green")
    /\ IF key = "n" THEN Call(Continue("again"), tsh)
                     ELSE Become(Continue("off"))
    /\ UNCHANGED <<tsh, db, work, pass, lines, power>>

PowerOff ==
    /\ Running("off")
    /\ power' = "going"
    /\ Exit
    /\ UNCHANGED <<tsh, db, work, pass, lines>>

-----------------------------------------------------------------------------
(* The machine: a requested shutdown happens at any later moment, and the  *)
(* power can fail at any time; the disk survives both.                     *)

Halt ==
    /\ depth > 0 \/ power = "going"
    /\ depth' = 0
    /\ frame' = [i \in 1..MaxDepth |-> Idle]
    /\ power' = "on"
    /\ UNCHANGED <<tsh, db, work, pass, lines>>

Next ==
    \/ BootStation \/ MenuTest \/ OtherBack \/ Update \/ MenuClone \/ MenuPn
    \/ MenuPowerOff \/ MenuEnd \/ FuncMenu \/ BiMenu \/ NoTestForPn \/ SnGetBack \/ SnGetNameError
    \/ \E sn \in Serials : SnGet(sn)
    \/ CheckPass \/ TempPass \/ ClonePass \/ CheckFail \/ CheckRaise
    \/ PassGreen \/ PassGreenNoLog \/ Replace \/ ReplaceMissing
    \/ \E key \in {"n", "other"} : RedKey(key) \/ GreenKey(key)
    \/ PowerOff \/ Halt

Spec == Init /\ [][Next]_vars

-----------------------------------------------------------------------------
(* Properties.  A session is clean while none of its checks has failed;    *)
(* a failure always runs t.sh, so a clean session is one during which no   *)
(* other process has run.                                                  *)

Clean(f) == f.fh # None /\ ~f.failed
CleanSession == depth > 0 /\ Clean(Top) /\ Top.pc \in {"run", "mv"}

\* The PASS name passGreen will read back from the database is the one this
\* session stored, although every script of the station shares that entry.
CleanSessionOwnsDb == CleanSession => db.logPass = NameOf(Top)

\* The log name of a clean session still refers to the file its handler
\* writes, and that file says nothing but that the test is open (or, between
\* the two halves of passGreen, passed).
CleanSessionOwnsLog ==
    CleanSession => /\ work[NameOf(Top)] = Top.fh
                    /\ lines[Top.fh].verdict =
                          IF Top.pc = "mv" THEN "passed" ELSE "open"

\* The flag that admits the OS restore is the unit's own: set exactly when
\* this session's temperature check has passed, never left by another unit.
OsFlagIsThisUnits ==
    CleanSession => ((db.osFlag = 1) <=>
        \E j \in 1..(Top.step - 1) : PlanOf(Top)[j] = "temp")

\* A first failure re-tests with the program that failed: t.sh names it in
\* every clean session a check of which can fail.
RetestRunsThisTest ==
    CleanSession /\ Top.test # "biUntimed" => tsh = ScriptOf(Top.test)

\* When a clean session shows PASS, its own file is in the PASS folder under
\* its own name, its last verdict is TEST_PASSED and the working name is gone.
CleanRunIsFiled ==
    Running("green") /\ Clean(Top) =>
        /\ pass[NameOf(Top)] = Top.fh
        /\ work[NameOf(Top)] = None
        /\ lines[Top.fh].verdict = "passed"

\* No file ever collects lines of two units: every live handler, and every
\* working name, refers to a file created for that very name.  Retests of one
\* unit share a file, and a file outlives its name while a handler is open.
OneUnitPerFile ==
    /\ \A i \in 1..MaxDepth :
          frame[i].fh # None => lines[frame[i].fh].unit = NameOf(frame[i])
    /\ \A n \in LogName : work[n] # None => lines[work[n]].unit = n

\* What the prompts and messages of the station say, and the nested processes
\* break, even in a process that has a log and before any power-off was asked.
SessionAt(pc) == Running(pc) /\ Top.fh # None /\ power = "on"

\* failRed: "power off, other key re-test": a failed run never passes.
FailedRunNeverPasses == SessionAt("mv") => ~Top.failed

\* osCloneFix: without the flag "all test function not pass": with the flag
\* set when the restore is reached, no check of this session has failed.
CloneMeansAllPassed ==
    SessionAt("run") /\ Checking({"clone"}) /\ db.osFlag = 1 => ~Top.failed

\* failRed: "other key re-test": t.sh names the test that failed.
EveryRetestRunsTheTest == SessionAt("red") => tsh = ScriptOf(Top.test)

=============================================================================
