-------------------------- MODULE TestStationProofs --------------------------
(***************************************************************************)
(* Proofs about TestStation, for every set of serial numbers, part         *)
(* numbers, checks and files and every nesting depth.                      *)
(***************************************************************************)
EXTENDS TestStation, TLAPS

\* What the processes of the stack can look like: nothing above the top,
\* suspended callers below it; a process that has not entered a session has no
\* log; one in or behind failRed has failed; one that returns from a menu its
\* own menu opened is without a function, or without a burn-in duration.  A
\* process before its session was started by the t.sh of its own test and
\* nothing has rewritten t.sh since, unless it returned from such a menu.
BeforeSession == {"sn", "snmenu", "defmenu", "nopn", "func", "funcback", "bi",
                  "biback"}

FrameOk(f) ==
    /\ f.pc \in BeforeSession => f.fh = None
    /\ f.pc \in {"red", "redo"} => f.failed
    /\ f.pc \in {"sn", "func", "funcback", "bi", "biback"} =>
          f.test \in Test \union {"biUntimed"} /\ f.pn \in PN
    /\ f.pc \in {"func", "funcback"} => f.func = None
    /\ f.pc = "biback" => f.test = "biUntimed"
    /\ f.fh # None => NameOf(f) \in LogName
    /\ f.pc = "run" => f.step > 0
    /\ f.pc = "mv" => f.fh # None

OwnScript(f, script) == f.func # None /\ f.test # "biUntimed" => script = ScriptOf(f.test)

Stack ==
    /\ \A i \in 1..MaxDepth : i > depth => frame[i] = Idle
    /\ \A i \in 1..MaxDepth : i < depth => frame[i].pc \in Suspended
    /\ \A i \in 1..MaxDepth : FrameOk(frame[i])
    /\ Running("sn") => OwnScript(Top, tsh)
    /\ Running("func") \/ Running("bi") => tsh = ScriptOf(Top.test)

Session ==
    /\ CleanSessionOwnsDb
    /\ CleanSessionOwnsLog
    /\ OsFlagIsThisUnits
    /\ RetestRunsThisTest
    /\ CleanRunIsFiled

StationInv == TypeOK /\ Stack /\ OneUnitPerFile /\ Session

-----------------------------------------------------------------------------

\* A fresh process has no log and no failure, and if it asks for a serial
\* number it runs a test of the script that started it.
LEMMA FreshProcess ==
    ASSUME TypeOK, NEW script \in Script
    PROVE  /\ Process(script) \in Frame
           /\ Process(script).fh = None
           /\ Process(script).pc \in {"choose", "other", "sn", "nopn", "func", "bi"}
           /\ Process(script).pc \in {"sn", "func", "bi"} =>
                 /\ Process(script).test \in Test /\ Process(script).pn \in PN
                 /\ script = ScriptOf(Process(script).test)
           /\ Process(script).pc = "func" => Process(script).func = None
<1>1. CASE script \in {"menu", "other"}
  BY <1>1, StationAssumption DEF Process, At, Idle, Frame, TypeOK
<1>2. CASE script \in {"osClone", "bi"}
  <2>1. /\ {"osClone", "bi"} \subseteq Test /\ {"OS", "BI"} \subseteq Func
        /\ ScriptOf("osClone") = "osClone" /\ ScriptOf("bi") = "bi"
    BY StationAssumption DEF ScriptOf, Test, Func
  <2>2. CASE script = "osClone"
    BY <2>1, <2>2 DEF Process, At, Idle, Frame, TypeOK
  <2>3. CASE script = "bi"
    BY <2>1, <2>3 DEF Process, At, Idle, Frame, TypeOK
  <2>4. QED BY <1>2, <2>2, <2>3
<1>3. CASE script = "assy"
  BY <1>3, StationAssumption
  DEF Process, At, Idle, Frame, Script, ScriptOf, Test, Func, TypeOK
<1>4. CASE script = "pcba"
  BY <1>4, StationAssumption
  DEF Process, At, Idle, Frame, Script, ScriptOf, Test, Func, TypeOK
<1>5. QED BY <1>1, <1>2, <1>3, <1>4 DEF Script

\* A process that continues after its call keeps its test, unit and log, and
\* is inside a check sequence only behind failRed or without a log.
LEMMA ResumedProcess ==
    ASSUME NEW f \in Frame, f.pc \in Suspended
    PROVE  /\ Resume(f) \in Frame
           /\ Resume(f).test = f.test /\ Resume(f).sn = f.sn
           /\ Resume(f).pn = f.pn /\ Resume(f).func = f.func
           /\ Resume(f).fh = f.fh /\ Resume(f).failed = f.failed
           /\ Resume(f).pc \in {"run", "off", "clonecfg", "choose", "end", "sn"}
           /\ Resume(f).pc = "run" => /\ f.pc \in {"redo", "snmenu", "defmenu"}
                                      /\ Resume(f).step > 0
           /\ Resume(f).pc = "sn" => f.pc \in {"funcback", "biback"}
<1>1. After[f.pc] \in {"run", "off", "clonecfg", "choose", "end", "sn"}
  BY DEF After, Suspended
<1>2. /\ After[f.pc] = "run" => f.pc \in {"redo", "snmenu", "defmenu"}
      /\ After[f.pc] = "sn" => f.pc \in {"funcback", "biback"}
  BY DEF After, Suspended
<1> DEFINE s == IF f.pc = "redo" THEN NextStep(f)
                ELSE IF f.pc \in {"snmenu", "defmenu"} THEN 1 ELSE f.step
<1>3. NextStep(f) \in Nat /\ NextStep(f) > 0
  BY DEF Frame, NextStep
<1>4. s \in Nat /\ (f.pc \in {"redo", "snmenu", "defmenu"} => s > 0)
  BY <1>3 DEF Frame
<1>5. Resume(f) = [f EXCEPT !.pc = After[f.pc], !.step = s]
  BY DEF Resume
<1> HIDE DEF s
<1>6. QED BY <1>1, <1>2, <1>4, <1>5 DEF Frame

-----------------------------------------------------------------------------
(* The two ways the stack grows and shrinks, once for all actions.         *)

\* The running process suspends itself and t.sh starts a script.
LEMMA CallStep ==
    ASSUME StationInv, depth > 0,
           NEW caller \in Frame, NEW script \in Script,
           Call(caller, script), tsh' = script,
           work' = work, lines' = lines,
           caller.pc \in Suspended, FrameOk(caller),
           caller.fh = Top.fh, NameOf(caller) = NameOf(Top)
    PROVE  /\ depth' \in 0..MaxDepth
           /\ frame' \in [1..MaxDepth -> Frame]
           /\ Stack' /\ OneUnitPerFile' /\ Session'
<1> DEFINE child == Process(script)
<1>1. /\ child \in Frame /\ child.fh = None
      /\ child.pc \in {"choose", "other", "sn", "nopn", "func", "bi"}
      /\ child.pc \in {"sn", "func", "bi"} =>
            /\ child.test \in Test /\ child.pn \in PN
            /\ script = ScriptOf(child.test)
      /\ child.pc = "func" => child.func = None
  BY FreshProcess DEF StationInv
<1> HIDE DEF child
<1>2. /\ depth \in 1..MaxDepth /\ depth + 1 \in 1..MaxDepth
      /\ depth' = depth + 1
      /\ frame \in [1..MaxDepth -> Frame]
      /\ frame' = [frame EXCEPT ![depth] = caller, ![depth + 1] = child]
  BY StationAssumption DEF StationInv, TypeOK, Call, child
<1>3. /\ frame' \in [1..MaxDepth -> Frame]
      /\ frame'[depth] = caller /\ frame'[depth + 1] = child
      /\ \A i \in 1..MaxDepth : i # depth /\ i # depth + 1 => frame'[i] = frame[i]
      /\ Top' = child
  BY <1>1, <1>2 DEF Top
<1>4. FrameOk(child)
  BY <1>1 DEF FrameOk, BeforeSession
<1>5. Stack'
  <2>1. \A i \in 1..MaxDepth : i > depth' => frame'[i] = Idle
    BY <1>2, <1>3 DEF StationInv, Stack
  <2>2. \A i \in 1..MaxDepth : i < depth' => frame'[i].pc \in Suspended
    BY <1>2, <1>3 DEF StationInv, Stack
  <2>3. \A i \in 1..MaxDepth : FrameOk(frame'[i])
    BY <1>3, <1>4 DEF StationInv, Stack
  <2>4. /\ Running("sn")' => OwnScript(Top', tsh')
        /\ Running("func")' \/ Running("bi")' => tsh' = ScriptOf(Top'.test)
    BY <1>1, <1>3 DEF Running, OwnScript
  <2>5. QED BY <2>1, <2>2, <2>3, <2>4 DEF Stack, FrameOk, NameOf, OwnScript
<1>6. OneUnitPerFile'
  BY <1>1, <1>2, <1>3 DEF StationInv, OneUnitPerFile, Top, NameOf
<1>7. Session'
  BY <1>1, <1>3
  DEF Session, CleanSessionOwnsDb, CleanSessionOwnsLog, OsFlagIsThisUnits,
      RetestRunsThisTest, CleanRunIsFiled, CleanSession, Clean, Running
<1>8. QED BY <1>2, <1>3, <1>5, <1>6, <1>7

\* The running process exits and its caller goes on.
LEMMA ExitStep ==
    ASSUME StationInv, depth > 0, Exit, work' = work, lines' = lines
    PROVE  /\ depth' \in 0..MaxDepth
           /\ frame' \in [1..MaxDepth -> Frame]
           /\ Stack' /\ OneUnitPerFile' /\ Session'
<1>1. /\ MaxDepth \in Nat
      /\ depth \in 1..MaxDepth /\ depth' = depth - 1
      /\ frame \in [1..MaxDepth -> Frame]
      /\ \A i \in 1..MaxDepth : i < depth => frame[i].pc \in Suspended
      /\ \A i \in 1..MaxDepth : FrameOk(frame[i])
  BY StationAssumption DEF StationInv, TypeOK, Exit, Stack
<1>2. Idle \in Frame /\ Idle.fh = None /\ Idle.pc = "idle" /\ FrameOk(Idle)
  BY DEF Idle, Frame, FrameOk, BeforeSession
<1>3. \A i \in 1..MaxDepth :
        /\ i = depth => frame'[i] = Idle
        /\ i = depth - 1 => frame'[i] = Resume(frame[i])
        /\ i # depth /\ i # depth - 1 => frame'[i] = frame[i]
  BY DEF Exit
<1>4. \A i \in 1..MaxDepth : i = depth - 1 =>
        /\ frame'[i] \in Frame
        /\ frame'[i].test = frame[i].test /\ frame'[i].sn = frame[i].sn
        /\ frame'[i].pn = frame[i].pn /\ frame'[i].func = frame[i].func
        /\ frame'[i].fh = frame[i].fh /\ frame'[i].failed = frame[i].failed
        /\ frame'[i].pc \in {"run", "off", "clonecfg", "choose", "end", "sn"}
        /\ frame'[i].pc = "run" => /\ frame[i].pc \in {"redo", "snmenu", "defmenu"}
                                   /\ frame'[i].step > 0
        /\ frame'[i].pc = "sn" => frame[i].pc \in {"funcback", "biback"}
  BY <1>1, <1>3, ResumedProcess
<1>5. frame' \in [1..MaxDepth -> Frame]
  BY <1>1, <1>2, <1>3, <1>4 DEF Exit
<1>6. depth' > 0 =>
        /\ Top'.pc \in {"run", "off", "clonecfg", "choose", "end", "sn"}
        /\ Top'.pc = "run" => Top'.failed \/ Top'.fh = None
        /\ Top'.pc = "sn" => Top'.func = None \/ Top'.test = "biUntimed"
  <2>1. SUFFICES ASSUME depth' > 0
        PROVE  /\ Top'.pc \in {"run", "off", "clonecfg", "choose", "end", "sn"}
               /\ Top'.pc = "run" => Top'.failed \/ Top'.fh = None
               /\ Top'.pc = "sn" => Top'.func = None \/ Top'.test = "biUntimed"
    OBVIOUS
  <2>2. depth' \in 1..MaxDepth /\ depth' = depth - 1 /\ Top' = frame'[depth']
    BY <1>1, <2>1 DEF Top
  <2>3. /\ Top'.pc \in {"run", "off", "clonecfg", "choose", "end", "sn"}
        /\ Top'.fh = frame[depth'].fh /\ Top'.failed = frame[depth'].failed
        /\ Top'.func = frame[depth'].func /\ Top'.test = frame[depth'].test
        /\ Top'.pc = "run" => frame[depth'].pc \in {"redo", "snmenu", "defmenu"}
        /\ Top'.pc = "sn" => frame[depth'].pc \in {"funcback", "biback"}
    BY <1>4, <2>2
  <2>4. FrameOk(frame[depth'])
    BY <1>1, <2>2
  <2>5. QED BY <2>3, <2>4 DEF FrameOk, BeforeSession
<1>7. Stack'
  <2>1. \A i \in 1..MaxDepth : i > depth' => frame'[i] = Idle
    BY <1>1, <1>3 DEF StationInv, Stack
  <2>2. \A i \in 1..MaxDepth : i < depth' => frame'[i].pc \in Suspended
    BY <1>1, <1>3
  <2>3. \A i \in 1..MaxDepth : FrameOk(frame'[i])
    <3>1. TAKE i \in 1..MaxDepth
    <3>2. CASE i = depth
      BY <3>2, <1>2, <1>3
    <3>3. CASE i = depth - 1
      <4>1. NameOf(frame'[i]) = NameOf(frame[i])
        BY <3>3, <1>4 DEF NameOf
      <4>2. FrameOk(frame[i])
        BY <1>1
      <4>3. frame'[i].pc = "sn" =>
               /\ frame'[i].fh = None
               /\ frame'[i].test \in Test \union {"biUntimed"} /\ frame'[i].pn \in PN
        BY <3>3, <4>2, <1>4 DEF FrameOk, BeforeSession
      <4>4. QED BY <3>3, <4>1, <4>2, <4>3, <1>4 DEF FrameOk, BeforeSession
    <3>4. CASE i # depth /\ i # depth - 1
      BY <3>4, <1>1, <1>3
    <3>5. QED BY <3>2, <3>3, <3>4
  <2>4. /\ Running("sn")' => OwnScript(Top', tsh')
        /\ Running("func")' \/ Running("bi")' => tsh' = ScriptOf(Top'.test)
    BY <1>6 DEF Running, OwnScript
  <2>5. QED BY <2>1, <2>2, <2>3, <2>4 DEF Stack, FrameOk, NameOf, OwnScript
<1>8. OneUnitPerFile'
  BY <1>1, <1>2, <1>3, <1>4 DEF StationInv, OneUnitPerFile, NameOf
<1>9. ~CleanSession' /\ ~Running("green")'
  BY <1>6 DEF CleanSession, Clean, Running
<1>10. Session'
  BY <1>9
  DEF Session, CleanSessionOwnsDb, CleanSessionOwnsLog, OsFlagIsThisUnits,
      RetestRunsThisTest, CleanRunIsFiled
<1>11. QED BY <1>1, <1>5, <1>7, <1>8, <1>10

-----------------------------------------------------------------------------
(* Steps of the running process that leave the stack as it is.             *)

\* The running process changes its own record to f and stays outside a clean
\* session, or fails: nothing is claimed about it afterwards.
LEMMA QuietStep ==
    ASSUME StationInv, depth > 0, depth' = depth,
           NEW f \in Frame, frame' = [frame EXCEPT ![depth] = f],
           f.fh = Top.fh, f.fh # None => NameOf(f) = NameOf(Top), FrameOk(f),
           f.pc \notin {"green", "func", "bi"}, f.pc \in {"run", "mv"} => ~Clean(f),
           f.pc = "sn" => OwnScript(f, tsh'),
           work' = work,
           \A g \in Files : lines'[g].unit = lines[g].unit
    PROVE  /\ depth' \in 0..MaxDepth
           /\ frame' \in [1..MaxDepth -> Frame]
           /\ Stack' /\ OneUnitPerFile' /\ Session'
<1>1. /\ MaxDepth \in Nat /\ depth \in 1..MaxDepth
      /\ frame \in [1..MaxDepth -> Frame]
      /\ work \in [LogName -> Files \union {None}]
  BY StationAssumption DEF StationInv, TypeOK
<1>2. /\ frame' \in [1..MaxDepth -> Frame]
      /\ frame'[depth] = f /\ Top' = f
      /\ \A i \in 1..MaxDepth : i # depth => frame'[i] = frame[i]
  BY <1>1 DEF Top
<1>3. Stack'
  <2>1. \A i \in 1..MaxDepth : i > depth => frame'[i] = Idle
    BY <1>2 DEF StationInv, Stack
  <2>2. \A i \in 1..MaxDepth : i < depth => frame'[i].pc \in Suspended
    BY <1>2 DEF StationInv, Stack
  <2>3. \A i \in 1..MaxDepth : FrameOk(frame'[i])
    BY <1>2 DEF StationInv, Stack
  <2>4. /\ Running("sn")' => OwnScript(Top', tsh')
        /\ ~Running("func")' /\ ~Running("bi")'
    BY <1>2 DEF Running
  <2>5. QED BY <2>1, <2>2, <2>3, <2>4 DEF Stack, FrameOk, NameOf, OwnScript
<1>4. OneUnitPerFile'
  <2>1. \A i \in 1..MaxDepth : frame'[i].fh # None =>
           /\ frame'[i].fh \in Files
           /\ lines[frame'[i].fh].unit = NameOf(frame'[i])
    <3>1. \A i \in 1..MaxDepth : frame'[i].fh # None => frame'[i].fh \in Files
      BY <1>2 DEF Frame
    <3>2. \A i \in 1..MaxDepth :
             /\ frame'[i].fh = frame[i].fh
             /\ frame'[i].fh # None => NameOf(frame'[i]) = NameOf(frame[i])
      BY <1>2 DEF Top
    <3>3. QED BY <3>1, <3>2 DEF StationInv, OneUnitPerFile
  <2>2. \A n \in LogName : work[n] # None => work[n] \in Files
    BY <1>1
  <2>3. QED BY <2>1, <2>2 DEF StationInv, OneUnitPerFile, NameOf
<1>5. ~CleanSession' /\ ~Running("green")'
  BY <1>2 DEF CleanSession, Clean, Running
<1>6. Session'
  BY <1>5
  DEF Session, CleanSessionOwnsDb, CleanSessionOwnsLog, OsFlagIsThisUnits,
      RetestRunsThisTest, CleanRunIsFiled
<1>7. QED BY <1>1, <1>2, <1>3, <1>4, <1>6

\* Going on to the next check keeps a process record well-formed.
LEMMA SteppedFrame ==
    ASSUME NEW f \in Frame
    PROVE  [f EXCEPT !.step = @ + 1] \in Frame
<1>1. f.step + 1 \in Nat
  BY DEF Frame
<1>2. QED BY <1>1 DEF Frame

\* A passed check: the session goes on to its next check, and the flag is set
\* by nothing but the temperature check.
LEMMA AdvanceStep ==
    ASSUME StationInv, Checking(StepKind), NextCheck,
           tsh' = tsh, work' = work, lines' = lines,
           db'.logPass = db.logPass,
           (db'.osFlag = 1) <=> (db.osFlag = 1 \/ PlanOf(Top)[Top.step] = "temp")
    PROVE  /\ depth' \in 0..MaxDepth
           /\ frame' \in [1..MaxDepth -> Frame]
           /\ Stack' /\ OneUnitPerFile' /\ Session'
<1>1. /\ MaxDepth \in Nat /\ depth \in 1..MaxDepth /\ depth' = depth
      /\ frame \in [1..MaxDepth -> Frame]
      /\ Top \in Frame /\ Top.pc = "run" /\ Top.step \in Nat /\ Top.step > 0
      /\ frame' = [frame EXCEPT ![depth] = [Top EXCEPT !.step = @ + 1]]
  BY StationAssumption
  DEF StationInv, TypeOK, Checking, Running, NextCheck, Become, Stack, FrameOk, Top, Frame
<1>2. /\ frame' \in [1..MaxDepth -> Frame]
      /\ Top' = [Top EXCEPT !.step = @ + 1]
      /\ \A i \in 1..MaxDepth : i # depth => frame'[i] = frame[i]
  <2>1. [Top EXCEPT !.step = @ + 1] \in Frame
    BY <1>1, SteppedFrame
  <2>2. QED BY <1>1, <2>1 DEF Top
<1>3. /\ Top'.test = Top.test /\ Top'.sn = Top.sn /\ Top'.fh = Top.fh
      /\ Top'.pn = Top.pn /\ Top'.func = Top.func
      /\ Top'.pc = "run" /\ Top'.failed = Top.failed
      /\ Top'.step = Top.step + 1
  BY <1>1, <1>2 DEF Frame
<1>4. /\ frame'[depth] = Top' /\ frame[depth] = Top
      /\ NameOf(Top') = NameOf(Top) /\ PlanOf(Top') = PlanOf(Top)
  BY <1>1, <1>3 DEF Top, NameOf, PlanOf
<1>5. Stack'
  <2>1. \A i \in 1..MaxDepth : i > depth => frame'[i] = Idle
    BY <1>2 DEF StationInv, Stack
  <2>2. \A i \in 1..MaxDepth : i < depth => frame'[i].pc \in Suspended
    BY <1>2 DEF StationInv, Stack
  <2>3. FrameOk(Top')
    <3>1. FrameOk(frame[depth]) /\ frame[depth] = Top
      BY <1>1 DEF StationInv, Stack, Top
    <3>2. QED BY <3>1, <1>1, <1>3, <1>4 DEF FrameOk, BeforeSession
  <2>4. \A i \in 1..MaxDepth : FrameOk(frame'[i])
    BY <2>3, <1>1, <1>2, <1>4 DEF StationInv, Stack
  <2>5. ~Running("sn")' /\ ~Running("func")' /\ ~Running("bi")'
    BY <1>3 DEF Running
  <2>6. QED BY <1>1, <2>1, <2>2, <2>4, <2>5 DEF Stack, FrameOk, NameOf, OwnScript
<1>6. OneUnitPerFile'
  <2>1. \A i \in 1..MaxDepth : frame'[i].fh = frame[i].fh
                              /\ NameOf(frame'[i]) = NameOf(frame[i])
    BY <1>1, <1>2, <1>3, <1>4
  <2>2. QED BY <2>1 DEF StationInv, OneUnitPerFile, NameOf
<1>7. CleanSession' => CleanSession
  BY <1>1, <1>3 DEF CleanSession, Clean
<1>8. CleanSessionOwnsDb' /\ CleanSessionOwnsLog' /\ RetestRunsThisTest'
  BY <1>1, <1>3, <1>4, <1>7
  DEF StationInv, Session, CleanSessionOwnsDb, CleanSessionOwnsLog,
      RetestRunsThisTest, NameOf
<1>9. OsFlagIsThisUnits'
  <2>1. SUFFICES ASSUME CleanSession'
                 PROVE  (db'.osFlag = 1) <=>
                          \E j \in 1..(Top'.step - 1) : PlanOf(Top')[j] = "temp"
    BY DEF OsFlagIsThisUnits, PlanOf
  <2>2. (db.osFlag = 1) <=> \E j \in 1..(Top.step - 1) : PlanOf(Top)[j] = "temp"
    BY <1>7, <2>1 DEF StationInv, Session, OsFlagIsThisUnits
  <2>3. \A j : j \in 1..Top.step <=> (j \in 1..(Top.step - 1) \/ j = Top.step)
    BY <1>1
  <2>4. Top'.step - 1 = Top.step
    BY <1>1, <1>3
  <2>5. QED BY <2>2, <2>3, <2>4, <1>4
<1>10. CleanRunIsFiled'
  BY <1>3 DEF CleanRunIsFiled, Running
<1>11. QED BY <1>1, <1>2, <1>5, <1>6, <1>8, <1>9, <1>10 DEF Session

-----------------------------------------------------------------------------
(* The steps that carry a clean session: its start, its verdict, its filing.*)

LEMMA SnGetStep ==
    ASSUME StationInv, NEW sn \in Serials, SnGet(sn)
    PROVE  StationInv'
<1> DEFINE n == <<Top.pn, Top.func, sn>>
<1>1. PICK f \in Files :
        /\ OpenLog(n, f)
        /\ db' = SessionDb(n)
        /\ Become([Top EXCEPT !.pc = "run", !.step = 1, !.sn = sn, !.fh = f])
  BY DEF SnGet
<1>2. /\ MaxDepth \in Nat /\ depth \in 1..MaxDepth /\ depth' = depth
      /\ frame \in [1..MaxDepth -> Frame] /\ Top = frame[depth]
      /\ Top \in Frame /\ Top.pc = "sn" /\ Top.func # None
      /\ tsh' = tsh /\ pass' = pass /\ power' = power
  BY <1>1, StationAssumption
  DEF StationInv, TypeOK, SnGet, Running, Become, Top
<1>3. /\ Top.fh = None /\ Top.pn \in PN /\ n \in LogName /\ f # None
      /\ Top.test # "biUntimed" => tsh = ScriptOf(Top.test)
  <2>1. FrameOk(Top) /\ OwnScript(Top, tsh)
    BY <1>2 DEF StationInv, Stack, Running, Top
  <2>2. QED BY <2>1, <1>2, StationAssumption
            DEF FrameOk, BeforeSession, OwnScript, LogName, Frame
<1> DEFINE g == [Top EXCEPT !.pc = "run", !.step = 1, !.sn = sn, !.fh = f]
<1>4. /\ g \in Frame /\ g.pc = "run" /\ g.step = 1 /\ g.sn = sn /\ g.fh = f
      /\ g.test = Top.test /\ g.failed = Top.failed
      /\ g.pn = Top.pn /\ g.func = Top.func
  BY <1>2 DEF Frame
<1>5. /\ frame' \in [1..MaxDepth -> Frame] /\ frame'[depth] = g /\ Top' = g
      /\ \A i \in 1..MaxDepth : i # depth => frame'[i] = frame[i]
  BY <1>1, <1>2, <1>4 DEF Become, Top
<1> HIDE DEF g
<1>6. /\ work \in [LogName -> Files \union {None}]
      /\ lines \in [Files -> [unit: LogName \union {None},
                              verdict: {"none", "open", "failed", "passed"}]]
      /\ db \in [pn: PN, osFlag: {0, 1}, logPass: LogName \union {None}]
  BY DEF StationInv, TypeOK
<1>7. /\ work' = [work EXCEPT ![n] = f]
      /\ lines' = [lines EXCEPT ![f].verdict = "open",
                                ![f].unit = IF work[n] # None THEN @ ELSE n]
      /\ IF work[n] # None THEN f = work[n] ELSE f \in FreeFiles
  BY <1>1 DEF OpenLog
<1>8. /\ work' \in [LogName -> Files \union {None}]
      /\ lines' \in [Files -> [unit: LogName \union {None},
                               verdict: {"none", "open", "failed", "passed"}]]
      /\ lines'[f].verdict = "open"
      /\ \A h \in Files : h # f => lines'[h] = lines[h]
      /\ work[n] = None => lines'[f].unit = n
      /\ work[n] # None => lines'[f].unit = lines[f].unit
  BY <1>2, <1>3, <1>6, <1>7
<1>9. lines'[f].unit = n
  BY <1>2, <1>3, <1>7, <1>8 DEF StationInv, OneUnitPerFile
<1>10. /\ db' \in [pn: PN, osFlag: {0, 1}, logPass: LogName \union {None}]
       /\ db'.logPass = n /\ db'.osFlag = 0
  BY <1>1, <1>3, <1>6 DEF SessionDb
<1>11. TypeOK'
  BY <1>2, <1>5, <1>8, <1>10 DEF StationInv, TypeOK
<1>12. NameOf(Top') = n /\ NameOf(g) = n
  BY <1>4, <1>5 DEF NameOf
<1>13. Stack'
  <2>1. \A i \in 1..MaxDepth : i > depth => frame'[i] = Idle
    BY <1>5 DEF StationInv, Stack
  <2>2. \A i \in 1..MaxDepth : i < depth => frame'[i].pc \in Suspended
    BY <1>5 DEF StationInv, Stack
  <2>3. FrameOk(g)
    BY <1>2, <1>3, <1>4, <1>12 DEF FrameOk, BeforeSession
  <2>4. \A i \in 1..MaxDepth : FrameOk(frame'[i])
    BY <2>3, <1>5 DEF StationInv, Stack
  <2>5. ~Running("sn")' /\ ~Running("func")' /\ ~Running("bi")'
    BY <1>4, <1>5 DEF Running
  <2>6. QED BY <1>2, <2>1, <2>2, <2>4, <2>5 DEF Stack, FrameOk, NameOf, OwnScript
<1>14. OneUnitPerFile'
  <2>1. ASSUME NEW i \in 1..MaxDepth, frame'[i].fh # None
        PROVE  lines'[frame'[i].fh].unit = NameOf(frame'[i])
    <3>1. CASE i = depth
      BY <3>1, <1>4, <1>5, <1>9, <1>12
    <3>2. CASE i # depth /\ frame[i].fh = f
      <4>1. work[n] = f
        BY <3>2, <1>7 DEF FreeFiles
      <4>2. lines[f].unit = NameOf(frame[i]) /\ lines[f].unit = n
        BY <3>2, <4>1, <1>2, <1>3 DEF StationInv, OneUnitPerFile
      <4>3. QED BY <3>2, <4>2, <1>5, <1>9
    <3>3. CASE i # depth /\ frame[i].fh # f
      <4>1. frame[i].fh \in Files /\ frame'[i] = frame[i]
        BY <3>3, <2>1, <1>2, <1>5 DEF Frame
      <4>2. lines[frame[i].fh].unit = NameOf(frame[i])
        BY <4>1, <2>1 DEF StationInv, OneUnitPerFile
      <4>3. QED BY <3>3, <4>1, <4>2, <1>8
    <3>4. QED BY <3>1, <3>2, <3>3
  <2>2. ASSUME NEW m \in LogName, work'[m] # None
        PROVE  lines'[work'[m]].unit = m
    <3>1. CASE m = n
      BY <3>1, <1>3, <1>6, <1>7, <1>9
    <3>2. CASE m # n
      <4>1. work'[m] = work[m] /\ work[m] \in Files
        BY <3>2, <2>2, <1>6, <1>7
      <4>2. work[m] # f
        BY <3>2, <4>1, <1>3, <1>7 DEF FreeFiles, StationInv, OneUnitPerFile
      <4>3. lines'[work[m]] = lines[work[m]]
        BY <4>1, <4>2, <1>8
      <4>4. work[m] # None /\ lines[work[m]].unit = m
        BY <2>2, <4>1 DEF StationInv, OneUnitPerFile
      <4>5. QED BY <4>1, <4>3, <4>4
    <3>3. QED BY <3>1, <3>2
  <2>3. QED BY <2>1, <2>2 DEF OneUnitPerFile, NameOf
<1>15. Session'
  <2>1. CleanSessionOwnsDb'
    BY <1>10, <1>12 DEF CleanSessionOwnsDb, NameOf
  <2>2. CleanSessionOwnsLog'
    BY <1>3, <1>4, <1>5, <1>6, <1>7, <1>8, <1>12
    DEF CleanSessionOwnsLog, NameOf
  <2>3. OsFlagIsThisUnits'
    BY <1>4, <1>5, <1>10 DEF OsFlagIsThisUnits
  <2>4. RetestRunsThisTest'
    BY <1>2, <1>3, <1>4, <1>5 DEF RetestRunsThisTest
  <2>5. CleanRunIsFiled'
    BY <1>4, <1>5 DEF CleanRunIsFiled, Running
  <2>6. QED BY <2>1, <2>2, <2>3, <2>4, <2>5 DEF Session
<1>16. QED BY <1>11, <1>13, <1>14, <1>15 DEF StationInv

\* TEST_PASSED goes to the session's own file.
LEMMA PassGreenStep ==
    ASSUME StationInv, PassGreen
    PROVE  StationInv'
<1> DEFINE g == [Top EXCEPT !.pc = "mv"]
<1>1. /\ MaxDepth \in Nat /\ depth \in 1..MaxDepth /\ depth' = depth
      /\ frame \in [1..MaxDepth -> Frame] /\ Top = frame[depth]
      /\ Top \in Frame /\ Top.pc = "run" /\ Top.fh # None /\ Top.fh \in Files
      /\ frame' = [frame EXCEPT ![depth] = g]
      /\ lines' = [lines EXCEPT ![Top.fh].verdict = "passed"]
      /\ tsh' = tsh /\ db' = db /\ work' = work /\ pass' = pass /\ power' = power
  BY StationAssumption
  DEF StationInv, TypeOK, PassGreen, Running, Become, Continue, LogVerdict, Top, Frame
<1>2. /\ g \in Frame /\ g.pc = "mv" /\ g.fh = Top.fh /\ g.failed = Top.failed
      /\ g.test = Top.test /\ g.sn = Top.sn /\ g.step = Top.step
      /\ g.pn = Top.pn /\ g.func = Top.func
  BY <1>1 DEF Frame
<1>3. NameOf(g) = NameOf(Top) /\ PlanOf(g) = PlanOf(Top)
  BY <1>2 DEF NameOf, PlanOf
<1> HIDE DEF g
<1>4. /\ frame' \in [1..MaxDepth -> Frame] /\ frame'[depth] = g /\ Top' = g
      /\ \A i \in 1..MaxDepth : i # depth => frame'[i] = frame[i]
  BY <1>1, <1>2 DEF Top
<1>5. /\ lines' \in [Files -> [unit: LogName \union {None},
                               verdict: {"none", "open", "failed", "passed"}]]
      /\ lines'[Top.fh].verdict = "passed"
      /\ \A h \in Files : lines'[h].unit = lines[h].unit
  BY <1>1 DEF StationInv, TypeOK
<1>6. TypeOK'
  BY <1>1, <1>4, <1>5 DEF StationInv, TypeOK
<1>7. Stack'
  <2>1. FrameOk(Top)
    BY <1>1 DEF StationInv, Stack
  <2>2. FrameOk(g)
    BY <2>1, <1>1, <1>2, <1>3 DEF FrameOk, BeforeSession
  <2>3. \A i \in 1..MaxDepth : FrameOk(frame'[i])
    BY <2>2, <1>4 DEF StationInv, Stack
  <2>4. ~Running("sn")' /\ ~Running("func")' /\ ~Running("bi")'
    BY <1>2, <1>4 DEF Running
  <2>5. QED BY <2>3, <2>4, <1>1, <1>4
            DEF StationInv, Stack, FrameOk, NameOf, OwnScript
<1>8. OneUnitPerFile'
  <2>1. \A i \in 1..MaxDepth : frame[i].fh # None => frame[i].fh \in Files
    BY <1>1 DEF Frame
  <2>2. \A i \in 1..MaxDepth : /\ frame'[i].fh = frame[i].fh
                               /\ NameOf(frame'[i]) = NameOf(frame[i])
    BY <1>1, <1>2, <1>3, <1>4
  <2>3. \A m \in LogName : work[m] # None => work[m] \in Files
    BY DEF StationInv, TypeOK
  <2>4. QED BY <1>1, <1>5, <2>1, <2>2, <2>3 DEF StationInv, OneUnitPerFile, NameOf
<1>9. Session'
  <2>1. CleanSession' => CleanSession
    BY <1>1, <1>2, <1>4 DEF CleanSession, Clean
  <2>2. CleanSessionOwnsDb' /\ RetestRunsThisTest'
    BY <1>1, <1>2, <1>3, <1>4, <2>1
    DEF StationInv, Session, CleanSessionOwnsDb, RetestRunsThisTest, NameOf
  <2>3. CleanSessionOwnsLog'
    BY <1>1, <1>2, <1>3, <1>4, <1>5, <2>1
    DEF StationInv, Session, CleanSessionOwnsLog, NameOf
  <2>4. OsFlagIsThisUnits'
    BY <1>1, <1>2, <1>3, <1>4, <2>1
    DEF StationInv, Session, OsFlagIsThisUnits, PlanOf
  <2>5. CleanRunIsFiled'
    BY <1>2, <1>4 DEF CleanRunIsFiled, Running
  <2>6. QED BY <2>2, <2>3, <2>4, <2>5 DEF Session
<1>10. QED BY <1>6, <1>7, <1>8, <1>9 DEF StationInv

\* The log moves to the PASS folder: under the session's own name when clean.
LEMMA ReplaceStep ==
    ASSUME StationInv, Replace
    PROVE  StationInv'
<1> DEFINE g == [Top EXCEPT !.pc = "green"]
           n == NameOf(Top)
<1>1. /\ MaxDepth \in Nat /\ depth \in 1..MaxDepth /\ depth' = depth
      /\ frame \in [1..MaxDepth -> Frame] /\ Top = frame[depth]
      /\ Top \in Frame /\ Top.pc = "mv"
      /\ frame' = [frame EXCEPT ![depth] = g]
      /\ pass' = [pass EXCEPT ![db.logPass] = work[n]]
      /\ work' = [work EXCEPT ![n] = None]
      /\ tsh' = tsh /\ db' = db /\ lines' = lines /\ power' = power
      /\ work[n] # None
  BY StationAssumption
  DEF StationInv, TypeOK, Replace, Running, Become, Continue, Top
<1>2. /\ g \in Frame /\ g.pc = "green" /\ g.fh = Top.fh /\ g.failed = Top.failed
      /\ g.test = Top.test /\ g.sn = Top.sn
      /\ g.pn = Top.pn /\ g.func = Top.func
  BY <1>1 DEF Frame
<1>3. NameOf(g) = n
  BY <1>2 DEF NameOf
<1> HIDE DEF g
<1>4. /\ frame' \in [1..MaxDepth -> Frame] /\ frame'[depth] = g /\ Top' = g
      /\ \A i \in 1..MaxDepth : i # depth => frame'[i] = frame[i]
  BY <1>1, <1>2 DEF Top
<1>5. /\ work \in [LogName -> Files \union {None}]
      /\ pass \in [LogName -> Files \union {None}]
  BY DEF StationInv, TypeOK
<1>6. /\ work' \in [LogName -> Files \union {None}]
      /\ \A m \in LogName : work'[m] # None => work'[m] = work[m]
  BY <1>1, <1>5
<1>7. pass' \in [LogName -> Files \union {None}]
  <2>1. FrameOk(Top)
    BY <1>1 DEF StationInv, Stack
  <2>2. n \in LogName
    BY <2>1, <1>1 DEF FrameOk
  <2>3. QED BY <2>2, <1>1, <1>5
<1>8. TypeOK'
  BY <1>1, <1>4, <1>6, <1>7 DEF StationInv, TypeOK
<1>9. Stack'
  <2>1. FrameOk(Top)
    BY <1>1 DEF StationInv, Stack
  <2>2. FrameOk(g)
    BY <2>1, <1>1, <1>2, <1>3 DEF FrameOk, BeforeSession
  <2>3. \A i \in 1..MaxDepth : FrameOk(frame'[i])
    BY <2>2, <1>4 DEF StationInv, Stack
  <2>4. ~Running("sn")' /\ ~Running("func")' /\ ~Running("bi")'
    BY <1>2, <1>4 DEF Running
  <2>5. QED BY <2>3, <2>4, <1>1, <1>4
            DEF StationInv, Stack, FrameOk, NameOf, OwnScript
<1>10. OneUnitPerFile'
  <2>1. \A i \in 1..MaxDepth : /\ frame'[i].fh = frame[i].fh
                               /\ NameOf(frame'[i]) = NameOf(frame[i])
    BY <1>1, <1>2, <1>3, <1>4
  <2>2. /\ \A i \in 1..MaxDepth :
              frame[i].fh # None => lines[frame[i].fh].unit = NameOf(frame[i])
        /\ \A k \in LogName : work[k] # None => lines[work[k]].unit = k
    BY DEF StationInv, OneUnitPerFile
  <2>3. \A i \in 1..MaxDepth :
              frame'[i].fh # None => lines'[frame'[i].fh].unit = NameOf(frame'[i])
    BY <1>1, <2>1, <2>2
  <2>4. \A k \in LogName : work'[k] # None => lines'[work'[k]].unit = k
    BY <1>1, <1>6, <2>2
  <2>5. QED BY <2>3, <2>4 DEF OneUnitPerFile, NameOf
<1>11. ~CleanSession'
  BY <1>2, <1>4 DEF CleanSession
<1>12. CleanRunIsFiled'
  <2>1. SUFFICES ASSUME Clean(g)
                 PROVE  /\ pass'[n] = Top.fh /\ work'[n] = None
                        /\ lines[Top.fh].verdict = "passed"
    BY <1>1, <1>2, <1>3, <1>4 DEF CleanRunIsFiled, NameOf
  <2>2. CleanSession
    BY <2>1, <1>1, <1>2 DEF CleanSession, Clean
  <2>3. /\ db.logPass = n /\ work[n] = Top.fh
        /\ lines[Top.fh].verdict = "passed"
    BY <2>2, <1>1
    DEF StationInv, Session, CleanSessionOwnsDb, CleanSessionOwnsLog
  <2>4. n \in LogName
    BY <2>1, <1>1, <1>2 DEF StationInv, Stack, FrameOk, Clean
  <2>5. QED BY <2>3, <2>4, <1>1, <1>5
<1>13. Session'
  BY <1>11, <1>12
  DEF Session, CleanSessionOwnsDb, CleanSessionOwnsLog, OsFlagIsThisUnits,
      RetestRunsThisTest
<1>14. QED BY <1>8, <1>9, <1>10, <1>13 DEF StationInv

-----------------------------------------------------------------------------
(* Every action, and the theorems.                                         *)

LEMMA InitInv == Init => StationInv
<1>1. Idle \in Frame /\ Idle.pc = "idle" /\ Idle.fh = None /\ FrameOk(Idle)
  BY DEF Idle, Frame, FrameOk, BeforeSession
<1>2. SUFFICES ASSUME Init PROVE StationInv
  OBVIOUS
<1>3. MaxDepth \in Nat /\ depth = 0 /\ \A i \in 1..MaxDepth : frame[i] = Idle
  BY <1>2, StationAssumption DEF Init
<1>4. TypeOK
  BY <1>1, <1>2, StationAssumption DEF Init, TypeOK, CloudDb, Script
<1>5. Stack
  BY <1>1, <1>3 DEF Stack, Running
<1>6. OneUnitPerFile
  BY <1>1, <1>2, <1>3 DEF OneUnitPerFile, Init
<1>7. Session
  BY <1>3
  DEF Session, CleanSessionOwnsDb, CleanSessionOwnsLog, OsFlagIsThisUnits,
      RetestRunsThisTest, CleanRunIsFiled, CleanSession, Running
<1>8. QED BY <1>4, <1>5, <1>6, <1>7 DEF StationInv

\* The running process is a well-formed record.
LEMMA TopFrame ==
    ASSUME StationInv, depth > 0
    PROVE  depth \in 1..MaxDepth /\ Top = frame[depth] /\ Top \in Frame
  BY StationAssumption DEF StationInv, TypeOK, Top

\* A call from a dialogue, a script's start or failRed.
LEMMA SuspendStep ==
    ASSUME StationInv, depth > 0, NEW script \in Script, tsh' = script,
           NEW pc \in Suspended \ {"biback"}, Call(Continue(pc), script),
           work' = work, lines' = lines,
           pc = "redo" => Top.failed,
           pc \in {"snmenu", "defmenu"} => Top.fh = None,
           pc = "funcback" => Top.pc = "func"
    PROVE  /\ depth' \in 0..MaxDepth
           /\ frame' \in [1..MaxDepth -> Frame]
           /\ Stack' /\ OneUnitPerFile' /\ Session'
<1> DEFINE g == Continue(pc)
<1>1. Top \in Frame /\ FrameOk(Top)
  BY TopFrame DEF StationInv, Stack
<1>2. pc \in {"redo", "again", "snmenu", "defmenu", "nodisk", "pnmenu", "wait",
             "funcback"}
  BY DEF Suspended, After
<1>3. /\ g \in Frame /\ g.pc = pc /\ g.fh = Top.fh /\ g.failed = Top.failed
      /\ g.test = Top.test /\ g.pn = Top.pn /\ g.func = Top.func
      /\ NameOf(g) = NameOf(Top)
  BY <1>1, <1>2 DEF Continue, Frame, NameOf
<1>4. Call(g, script)
  OBVIOUS
<1> HIDE DEF g
<1>5. FrameOk(g)
  BY <1>1, <1>2, <1>3 DEF FrameOk, BeforeSession
<1>6. QED BY <1>3, <1>4, <1>5, CallStep DEF Call

\* A dialogue goes on without a call, or passGreen's prompt is answered.
LEMMA DialogueStep ==
    ASSUME StationInv, depth > 0, NEW pc \in {"clonecfg", "choose", "off"},
           Become(Continue(pc)), work' = work, lines' = lines
    PROVE  /\ depth' \in 0..MaxDepth
           /\ frame' \in [1..MaxDepth -> Frame]
           /\ Stack' /\ OneUnitPerFile' /\ Session'
<1> DEFINE g == Continue(pc)
<1>1. Top \in Frame /\ FrameOk(Top)
  BY TopFrame DEF StationInv, Stack
<1>2. /\ g \in Frame /\ g.pc = pc /\ g.fh = Top.fh
      /\ NameOf(g) = NameOf(Top)
  BY <1>1 DEF Continue, Frame, NameOf
<1>3. frame' = [frame EXCEPT ![depth] = g] /\ depth' = depth
  BY DEF Become
<1> HIDE DEF g
<1>4. \A h \in Files : lines'[h].unit = lines[h].unit
  OBVIOUS
<1>5. FrameOk(g)
  BY <1>1, <1>2 DEF FrameOk, BeforeSession
<1>6. QED BY <1>2, <1>3, <1>4, <1>5, QuietStep

\* A function or a duration is chosen: the serial number is asked next.
LEMMA ChosenStep ==
    ASSUME StationInv, Running("func") \/ Running("bi"), depth' = depth,
           NEW func \in Func \union {None}, Running("bi") => func = Top.func,
           frame' = [frame EXCEPT ![depth] = [Top EXCEPT !.pc = "sn", !.func = func]],
           tsh' = tsh, work' = work, lines' = lines
    PROVE  /\ depth' \in 0..MaxDepth
           /\ frame' \in [1..MaxDepth -> Frame]
           /\ Stack' /\ OneUnitPerFile' /\ Session'
<1> DEFINE g == [Top EXCEPT !.pc = "sn", !.func = func]
<1>1. /\ depth > 0 /\ Top \in Frame /\ FrameOk(Top)
      /\ Top.pc \in {"func", "bi"} /\ tsh = ScriptOf(Top.test)
  BY TopFrame DEF StationInv, Stack, Running
<1>2. /\ g \in Frame /\ g.pc = "sn" /\ g.fh = Top.fh
      /\ g.test = Top.test /\ g.pn = Top.pn
  BY <1>1 DEF Frame
<1>3. frame' = [frame EXCEPT ![depth] = g]
  OBVIOUS
<1> HIDE DEF g
<1>4. FrameOk(g) /\ g.fh = None /\ OwnScript(g, tsh')
  BY <1>1, <1>2 DEF FrameOk, BeforeSession, OwnScript
<1>5. \A h \in Files : lines'[h].unit = lines[h].unit
  OBVIOUS
<1>6. QED BY <1>1, <1>2, <1>3, <1>4, <1>5, QuietStep

LEMMA CallActions ==
    ASSUME StationInv,
           \/ MenuTest \/ OtherBack \/ NoTestForPn \/ SnGetBack
           \/ \E key \in {"n", "other"} : RedKey(key)
    PROVE  StationInv'
<1>0. depth > 0 => /\ depth \in 1..MaxDepth /\ Top = frame[depth]
                   /\ FrameOk(Top)
  BY TopFrame DEF StationInv, Stack
<1>1. CASE MenuTest \/ OtherBack
  <2>1. PICK script \in Script : WriteAndCall(Continue("wait"), script)
    BY <1>1, StationAssumption DEF MenuTest, OtherBack, ProgramScript, Script
  <2>2. /\ depth > 0 /\ UNCHANGED <<db, work, pass, lines, power>>
    BY <1>1 DEF MenuTest, OtherBack, Running
  <2>3. "wait" \in Suspended \ {"biback"}
    BY DEF Suspended, After
  <2>4. /\ depth' \in 0..MaxDepth /\ frame' \in [1..MaxDepth -> Frame]
        /\ Stack' /\ OneUnitPerFile' /\ Session'
    BY <2>1, <2>2, <2>3, SuspendStep DEF WriteAndCall
  <2>5. QED BY <2>1, <2>2, <2>4 DEF StationInv, TypeOK, WriteAndCall
<1>2. CASE NoTestForPn
  <2>2. /\ Running("nopn") /\ depth > 0 /\ "menu" \in Script
        /\ WriteAndCall(Continue("defmenu"), "menu")
        /\ Top.fh = None
        /\ UNCHANGED <<db, work, pass, lines, power>>
    BY <1>0, <1>2
    DEF NoTestForPn, Running, Script, FrameOk, BeforeSession
  <2>3. /\ "defmenu" \in Suspended \ {"biback"}
        /\ Call(Continue("defmenu"), "menu") /\ tsh' = "menu"
    BY <2>2 DEF Suspended, After, WriteAndCall
  <2>4. /\ depth' \in 0..MaxDepth /\ frame' \in [1..MaxDepth -> Frame]
        /\ Stack' /\ OneUnitPerFile' /\ Session'
    BY <2>2, <2>3, SuspendStep
  <2>5. QED BY <2>2, <2>4 DEF StationInv, TypeOK, WriteAndCall
<1>3. CASE SnGetBack
  <2>2. /\ Running("sn") /\ depth > 0 /\ "menu" \in Script
        /\ WriteAndCall(Continue("snmenu"), "menu")
        /\ Top.fh = None
        /\ db' = [db EXCEPT !.osFlag = 0]
        /\ UNCHANGED <<work, pass, lines, power>>
    BY <1>0, <1>3
    DEF SnGetBack, Running, Script, FrameOk, BeforeSession
  <2>3. /\ "snmenu" \in Suspended \ {"biback"}
        /\ Call(Continue("snmenu"), "menu") /\ tsh' = "menu"
    BY <2>2 DEF Suspended, After, WriteAndCall
  <2>4. /\ depth' \in 0..MaxDepth /\ frame' \in [1..MaxDepth -> Frame]
        /\ Stack' /\ OneUnitPerFile' /\ Session'
    BY <2>2, <2>3, SuspendStep
  <2>5. QED BY <2>2, <2>4 DEF StationInv, TypeOK, WriteAndCall
<1>4. CASE \E key \in {"n", "other"} : RedKey(key)
  <2>2. /\ Running("red") /\ depth > 0 /\ tsh \in Script
        /\ Call(Continue("redo"), tsh)
        /\ Top.failed
        /\ power' \in {"on", "going"}
        /\ UNCHANGED <<tsh, db, work, pass, lines>>
    BY <1>0, <1>4
    DEF RedKey, Running, StationInv, FrameOk, TypeOK
  <2>3. "redo" \in Suspended \ {"biback"}
    BY DEF Suspended, After
  <2>4. /\ depth' \in 0..MaxDepth /\ frame' \in [1..MaxDepth -> Frame]
        /\ Stack' /\ OneUnitPerFile' /\ Session'
    BY <2>2, <2>3, SuspendStep
  <2>5. QED BY <2>2, <2>4 DEF StationInv, TypeOK
<1>5. QED BY <1>1, <1>2, <1>3, <1>4

\* The menus of a test program: a choice, or a call of the main menu.
LEMMA ProgramMenus ==
    ASSUME StationInv, FuncMenu \/ BiMenu
    PROVE  StationInv'
<1>1. /\ depth > 0 /\ depth \in 1..MaxDepth /\ Top \in Frame /\ FrameOk(Top)
      /\ UNCHANGED <<db, work, pass, lines, power>>
      /\ "menu" \in Script
  BY TopFrame DEF StationInv, Stack, FuncMenu, BiMenu, Running, Script
<1>2. ASSUME tsh' \in Script, depth' \in 0..MaxDepth,
             frame' \in [1..MaxDepth -> Frame], Stack', OneUnitPerFile', Session'
      PROVE  StationInv'
  BY <1>1, <1>2 DEF StationInv, TypeOK
<1>3. tsh \in Script
  BY DEF StationInv, TypeOK
<1>4. CASE \E func \in {"T1", "T2"} :
             /\ Running("func") /\ tsh' = tsh
             /\ Become([Top EXCEPT !.pc = "sn", !.func = func])
  <2>1. PICK func \in Func :
             /\ Running("func") /\ tsh' = tsh
             /\ Become([Top EXCEPT !.pc = "sn", !.func = func])
    BY <1>4 DEF Func
  <2>2. ~Running("bi")
    BY <2>1 DEF Running
  <2>3. QED BY <1>1, <1>2, <1>3, <2>1, <2>2, ChosenStep DEF Become
<1>5. CASE Running("func") /\ WriteAndCall(Continue("funcback"), "menu")
  <2>1. "funcback" \in Suspended \ {"biback"}
    BY DEF Suspended, After
  <2>2. Top.pc = "func" /\ Call(Continue("funcback"), "menu") /\ tsh' = "menu"
    BY <1>5 DEF Running, WriteAndCall
  <2>3. QED BY <1>1, <1>2, <2>1, <2>2, SuspendStep
<1>6. CASE Running("bi") /\ Become(Continue("sn")) /\ tsh' = tsh
  <2>1. Continue("sn") = [Top EXCEPT !.pc = "sn", !.func = Top.func]
    BY <1>1 DEF Continue, Frame
  <2>2. Top.func \in Func \union {None}
    BY <1>1 DEF Frame
  <2>3. QED BY <1>1, <1>2, <1>3, <1>6, <2>1, <2>2, ChosenStep DEF Become
<1>7. CASE /\ Running("bi")
           /\ WriteAndCall([Top EXCEPT !.pc = "biback", !.test = "biUntimed"], "menu")
  <2> DEFINE g == [Top EXCEPT !.pc = "biback", !.test = "biUntimed"]
  <2>1. /\ g \in Frame /\ g.pc = "biback" /\ g.test = "biUntimed"
        /\ g.fh = Top.fh /\ g.pn = Top.pn /\ NameOf(g) = NameOf(Top)
    BY <1>1 DEF Frame, NameOf
  <2>2. Call(g, "menu") /\ tsh' = "menu" /\ Top.pc = "bi"
    BY <1>7 DEF Running, WriteAndCall
  <2> HIDE DEF g
  <2>3. g.pc \in Suspended
    BY <2>1 DEF Suspended, After
  <2>4. FrameOk(g)
    BY <1>1, <2>1, <2>2 DEF FrameOk, BeforeSession
  <2>5. QED BY <1>1, <1>2, <2>1, <2>2, <2>3, <2>4, CallStep
<1>8. QED BY <1>4, <1>5, <1>6, <1>7 DEF FuncMenu, BiMenu

LEMMA ExitActions ==
    ASSUME StationInv,
           \/ MenuPowerOff \/ MenuEnd \/ SnGetNameError \/ CheckRaise
           \/ PassGreenNoLog \/ ReplaceMissing \/ PowerOff
    PROVE  StationInv'
<1>1. /\ depth > 0 /\ Exit /\ work' = work /\ lines' = lines
      /\ tsh' = tsh /\ pass' = pass /\ power' \in {power, "going"}
      /\ db' = db \/ db' = [db EXCEPT !.osFlag = 0]
  BY DEF MenuPowerOff, MenuEnd, SnGetNameError, CheckRaise, PassGreenNoLog,
         ReplaceMissing, PowerOff, Running, Checking
<1>2. /\ depth' \in 0..MaxDepth /\ frame' \in [1..MaxDepth -> Frame]
      /\ Stack' /\ OneUnitPerFile' /\ Session'
  BY <1>1, ExitStep
<1>3. QED BY <1>1, <1>2 DEF StationInv, TypeOK

LEMMA CheckActions ==
    ASSUME StationInv, CheckPass \/ TempPass \/ ClonePass \/ CheckFail
    PROVE  StationInv'
<1>1. CASE CheckPass \/ TempPass \/ ClonePass
  <2>1. /\ Checking(StepKind) /\ NextCheck
        /\ UNCHANGED <<tsh, work, pass, lines, power>>
        /\ \/ db' = db /\ PlanOf(Top)[Top.step] # "temp"
           \/ db' = [db EXCEPT !.osFlag = 1] /\ PlanOf(Top)[Top.step] = "temp"
    BY <1>1 DEF CheckPass, TempPass, ClonePass, Checking, StepKind
  <2>2. /\ db' \in [pn: PN, osFlag: {0, 1}, logPass: LogName \union {None}]
        /\ db'.logPass = db.logPass
        /\ (db'.osFlag = 1) <=> (db.osFlag = 1 \/ PlanOf(Top)[Top.step] = "temp")
    BY <2>1 DEF StationInv, TypeOK
  <2>3. /\ depth' \in 0..MaxDepth /\ frame' \in [1..MaxDepth -> Frame]
        /\ Stack' /\ OneUnitPerFile' /\ Session'
    BY <2>1, <2>2, AdvanceStep
  <2>4. QED BY <2>1, <2>2, <2>3 DEF StationInv, TypeOK
<1>2. CASE CheckFail
  <2> DEFINE g == [Top EXCEPT !.pc = "red", !.failed = TRUE]
  <2>1. /\ depth > 0 /\ Top \in Frame /\ FrameOk(Top) /\ depth' = depth
        /\ frame' = [frame EXCEPT ![depth] = g]
        /\ UNCHANGED <<tsh, db, work, pass, power>>
        /\ LogVerdict("failed")
    BY <1>2, TopFrame DEF StationInv, Stack, CheckFail, Checking, Running, Become
  <2>2. /\ g \in Frame /\ g.pc = "red" /\ g.failed /\ g.fh = Top.fh
        /\ NameOf(g) = NameOf(Top)
    BY <2>1 DEF Frame, NameOf
  <2>3. /\ lines' \in [Files -> [unit: LogName \union {None},
                                verdict: {"none", "open", "failed", "passed"}]]
        /\ \A h \in Files : lines'[h].unit = lines[h].unit
    BY <2>1 DEF LogVerdict, StationInv, TypeOK, Frame
  <2> HIDE DEF g
  <2>4. FrameOk(g)
    BY <2>1, <2>2 DEF FrameOk, BeforeSession
  <2>5. /\ depth' \in 0..MaxDepth /\ frame' \in [1..MaxDepth -> Frame]
        /\ Stack' /\ OneUnitPerFile' /\ Session'
    BY <2>1, <2>2, <2>3, <2>4, QuietStep
  <2>6. QED BY <2>1, <2>3, <2>5 DEF StationInv, TypeOK
<1>3. QED BY <1>1, <1>2

LEMMA DialogueActions ==
    ASSUME StationInv,
           \/ MenuClone \/ MenuPn \/ Update \/ BootStation \/ Halt
           \/ \E key \in {"n", "other"} : GreenKey(key)
    PROVE  StationInv'
<1>1. ASSUME NEW pc \in {"nodisk", "wait", "pnmenu", "again"},
             depth > 0, Call(Continue(pc), tsh'), tsh' \in Script,
             db' \in [pn: PN, osFlag: {0, 1}, logPass: LogName \union {None}],
             UNCHANGED <<work, pass, lines, power>>
      PROVE  StationInv'
  <2>1. pc \in Suspended \ {"biback"}
    BY DEF Suspended, After
  <2>2. /\ depth' \in 0..MaxDepth /\ frame' \in [1..MaxDepth -> Frame]
        /\ Stack' /\ OneUnitPerFile' /\ Session'
    BY <1>1, <2>1, SuspendStep
  <2>3. QED BY <1>1, <2>2 DEF StationInv, TypeOK
<1>2. ASSUME NEW pc \in {"clonecfg", "choose", "off"},
             depth > 0, Become(Continue(pc)),
             UNCHANGED <<tsh, db, work, pass, lines, power>>
      PROVE  StationInv'
  <2>1. /\ depth' \in 0..MaxDepth /\ frame' \in [1..MaxDepth -> Frame]
        /\ Stack' /\ OneUnitPerFile' /\ Session'
    BY <1>2, DialogueStep
  <2>2. QED BY <1>2, <2>1 DEF StationInv, TypeOK
<1>3. db \in [pn: PN, osFlag: {0, 1}, logPass: LogName \union {None}]
      /\ tsh \in Script
  BY DEF StationInv, TypeOK
<1>4. CASE MenuClone
  BY <1>1, <1>2, <1>3, <1>4 DEF MenuClone, Running, WriteAndCall, Script
<1>5. ASSUME Running("choose"), tsh' \in Script,
              db' \in [pn: PN, osFlag: {0, 1}, logPass: LogName \union {None}],
              UNCHANGED <<depth, frame, work, pass, lines, power>>
       PROVE  StationInv'
  <2>1. TypeOK' /\ OneUnitPerFile'
    BY <1>5 DEF StationInv, TypeOK, OneUnitPerFile, NameOf
  <2>2. /\ ~Running("sn")' /\ ~Running("func")' /\ ~Running("bi")'
        /\ ~CleanSession' /\ ~Running("green")'
    BY <1>5 DEF CleanSession, Running, Top
  <2>3. Stack'
    BY <1>5, <2>2 DEF StationInv, Stack, FrameOk, NameOf, OwnScript
  <2>4. Session'
    BY <2>2
    DEF Session, CleanSessionOwnsDb, CleanSessionOwnsLog, OsFlagIsThisUnits,
        RetestRunsThisTest, CleanRunIsFiled
  <2>5. QED BY <2>1, <2>3, <2>4 DEF StationInv
<1>6. CASE Update
  <2>1. db' \in [pn: PN, osFlag: {0, 1}, logPass: LogName \union {None}]
    BY <1>3, <1>6 DEF Update, CloudDb
  <2>2. QED BY <1>3, <1>5, <1>6, <2>1 DEF Update, Script
<1>7. CASE MenuPn
  <2>1. PICK pn \in PN :
          /\ db' = [db EXCEPT !.pn = pn]
          /\ IF pn = "n"
             THEN WriteAndCall(Continue("pnmenu"), "menu")
             ELSE UNCHANGED <<depth, frame, tsh>>
    BY <1>7 DEF MenuPn
  <2>2. Running("choose") /\ depth > 0 /\ UNCHANGED <<work, pass, lines, power>>
    BY <1>7 DEF MenuPn, Running
  <2>3. db' \in [pn: PN, osFlag: {0, 1}, logPass: LogName \union {None}]
    BY <2>1, <1>3
  <2>4. CASE pn = "n"
    BY <2>1, <2>2, <2>3, <2>4, <1>1 DEF WriteAndCall, Script
  <2>5. CASE pn # "n"
    BY <2>1, <2>2, <2>3, <2>5, <1>3, <1>5
  <2>6. QED BY <2>4, <2>5
<1>8. CASE \E key \in {"n", "other"} : GreenKey(key)
  BY <1>1, <1>2, <1>3, <1>8 DEF GreenKey, Running
<1>9. CASE BootStation
  <2>1. /\ depth = 0 /\ depth' = 1 /\ MaxDepth \in Nat /\ 1 \in 1..MaxDepth
        /\ frame \in [1..MaxDepth -> Frame]
        /\ frame' = [frame EXCEPT ![1] = Process("menu")]
        /\ UNCHANGED <<tsh, db, work, pass, lines, power>>
    BY <1>9, StationAssumption DEF BootStation, StationInv, TypeOK
  <2>2. /\ Process("menu") \in Frame /\ Process("menu").fh = None
        /\ Process("menu").pc = "choose" /\ FrameOk(Process("menu"))
    BY DEF Process, At, Idle, Frame, StationInv, TypeOK, FrameOk, BeforeSession
  <2>3. /\ frame' \in [1..MaxDepth -> Frame] /\ frame'[1] = Process("menu")
        /\ \A i \in 1..MaxDepth : i # 1 => frame'[i] = frame[i]
    BY <2>1, <2>2
  <2>4. TypeOK'
    BY <2>1, <2>3 DEF StationInv, TypeOK
  <2>5. Stack'
    BY <2>1, <2>2, <2>3
    DEF StationInv, Stack, FrameOk, Running, Top, NameOf, OwnScript
  <2>6. OneUnitPerFile'
    BY <2>1, <2>2, <2>3 DEF StationInv, OneUnitPerFile, NameOf
  <2>7. ~CleanSession' /\ ~Running("green")'
    BY <2>1, <2>2, <2>3 DEF CleanSession, Running, Top
  <2>8. Session'
    BY <2>7
    DEF Session, CleanSessionOwnsDb, CleanSessionOwnsLog, OsFlagIsThisUnits,
        RetestRunsThisTest, CleanRunIsFiled
  <2>9. QED BY <2>4, <2>5, <2>6, <2>8 DEF StationInv
<1>10. CASE Halt
  <2>1. /\ depth' = 0 /\ MaxDepth \in Nat
        /\ frame' = [i \in 1..MaxDepth |-> Idle] /\ power' = "on"
        /\ UNCHANGED <<tsh, db, work, pass, lines>>
    BY <1>10, StationAssumption DEF Halt
  <2>2. Idle \in Frame /\ Idle.pc = "idle" /\ Idle.fh = None /\ FrameOk(Idle)
    BY DEF Idle, Frame, FrameOk, BeforeSession
  <2>3. \A i \in 1..MaxDepth : frame'[i] = Idle
    BY <2>1
  <2>4. TypeOK'
    BY <2>1, <2>2 DEF StationInv, TypeOK
  <2>5. Stack'
    BY <2>1, <2>2, <2>3 DEF Stack, FrameOk, Running, NameOf
  <2>6. OneUnitPerFile'
    BY <2>1, <2>2, <2>3 DEF StationInv, OneUnitPerFile
  <2>7. ~CleanSession' /\ ~Running("green")'
    BY <2>1 DEF CleanSession, Running
  <2>8. Session'
    BY <2>7
    DEF Session, CleanSessionOwnsDb, CleanSessionOwnsLog, OsFlagIsThisUnits,
        RetestRunsThisTest, CleanRunIsFiled
  <2>9. QED BY <2>4, <2>5, <2>6, <2>8 DEF StationInv
<1>11. QED BY <1>4, <1>7, <1>8, <1>9, <1>10, <1>6

LEMMA StutterInv == ASSUME StationInv, UNCHANGED vars PROVE StationInv'
  BY DEF StationInv, TypeOK, Stack, FrameOk, OwnScript, OneUnitPerFile, Session,
         CleanSessionOwnsDb,
         CleanSessionOwnsLog, OsFlagIsThisUnits, RetestRunsThisTest,
         CleanRunIsFiled, CleanSession, Clean, Running, Top, NameOf, PlanOf, vars

\* The inductive invariant of the station: it holds at the start and every
\* step of every script, menu, prompt and power failure keeps it.
THEOREM StationInvariant == Spec => []StationInv
<1>1. StationInv /\ [Next]_vars => StationInv'
  <2>1. SUFFICES ASSUME StationInv, [Next]_vars PROVE StationInv'
    OBVIOUS
  <2>2. QED BY <2>1, SnGetStep, PassGreenStep, ReplaceStep, CallActions,
               ProgramMenus, ExitActions, CheckActions, DialogueActions, StutterInv DEF Next
<1>2. QED BY <1>1, InitInv, PTL DEF Spec

\* Every variable of the station keeps its type, whatever the nesting.
THEOREM TypeCorrect == Spec => []TypeOK
<1>1. StationInv => TypeOK
  BY DEF StationInv
<1>2. QED BY <1>1, StationInvariant, PTL

\* passGreen of a clean session reads back the PASS name this session stored,
\* although every script of the station writes that database entry.
THEOREM OwnsDb == Spec => []CleanSessionOwnsDb
<1>1. StationInv => CleanSessionOwnsDb
  BY DEF StationInv, Session
<1>2. QED BY <1>1, StationInvariant, PTL

\* The log name of a clean session refers to the file its handler writes, and
\* the file carries no verdict of an earlier or other run.
THEOREM OwnsLog == Spec => []CleanSessionOwnsLog
<1>1. StationInv => CleanSessionOwnsLog
  BY DEF StationInv, Session
<1>2. QED BY <1>1, StationInvariant, PTL

\* The flag that admits the OS restore is never left over from another unit.
THEOREM FlagIsThisUnits == Spec => []OsFlagIsThisUnits
<1>1. StationInv => OsFlagIsThisUnits
  BY DEF StationInv, Session
<1>2. QED BY <1>1, StationInvariant, PTL

\* The first retest of a failed session runs the test that failed.
THEOREM FirstRetest == Spec => []RetestRunsThisTest
<1>1. StationInv => RetestRunsThisTest
  BY DEF StationInv, Session
<1>2. QED BY <1>1, StationInvariant, PTL

\* A clean session that shows PASS has filed its own log under its own name.
THEOREM CleanRunFiled == Spec => []CleanRunIsFiled
<1>1. StationInv => CleanRunIsFiled
  BY DEF StationInv, Session
<1>2. QED BY <1>1, StationInvariant, PTL

\* No log file ever collects the lines of two units.
THEOREM NoMixedLog == Spec => []OneUnitPerFile
<1>1. StationInv => OneUnitPerFile
  BY DEF StationInv
<1>2. QED BY <1>1, StationInvariant, PTL
=============================================================================
