------------------------------ MODULE CgosProofs ------------------------------
(***************************************************************************)
(* What the congatec library tells and the board obeys, for any number of  *)
(* programs, any questions, any faults and any values of the board, with   *)
(* the check of inputs and outputs among the programs.                     *)
(***************************************************************************)
EXTENDS CgosGpio, SequenceTheorems, TLAPS

\* What a driver that is opening a board holds, by the stage it is at.
Held == <<{"cdv"}, {"cdv", "window"}, {"cdv", "window", "hi"}, {"cdv", "window", "code"},
          {"cdv", "window", "code"}, {"cdv", "window", "code", "data"},
          {"cdv", "window", "code", "data"}, {"cdv", "window", "code", "data", "maps"}>>

DrvFields == drv = [at |-> drv.at, cdv |-> drv.cdv, boards |-> drv.boards, base |-> drv.base,
                    stage |-> drv.stage, holds |-> drv.holds]

DrvInv ==
    /\ DrvFields /\ drv.base \in Nat /\ drv.stage \in 1..8
    /\ drv.at = "absent" => drv.holds = {}
    /\ drv.at = "opening" =>
         /\ drv.boards = 0 /\ (~drv.cdv => drv.base > Bases)
         /\ drv.holds = IF drv.base <= Bases THEN Held[drv.stage]
                        ELSE IF drv.cdv THEN {"cdv"} ELSE {}
    /\ DriverTidy

\* Every function's steps are one of these.
AllWork == {<<>>, <<"load", "turn">>, <<"fetch">>, <<"begin", "end">>, <<"begin", "fetch">>, <<"whole">>,
            <<"begin", "on", "fetch">>, <<"get">>, <<"put">>}
Work(p) == Steps(Fct(call[p].ask.f))

\* The shape of the variables.
CallFields(c) == c = [at |-> c.at, ask |-> c.ask, i |-> c.i, more |-> c.more, loc |-> c.loc,
                      got |-> c.got, status |-> c.status, seen |-> c.seen, told |-> c.told]
Shape ==
    /\ scene \in Scenes
    /\ call = [p \in Progs |-> call[p]]
    /\ brd = [val |-> brd.val, begun |-> brd.begun]
    /\ brd.val = [k \in DOMAIN scene.val |-> brd.val[k]]
    /\ brd.begun = [u \in Units |-> brd.begun[u]]

\* Before a request is served nothing of it has been done.
FreshCall(c) == /\ c.at = "down" => Askable(c.ask) /\ c.i = 1 /\ c.status = "ok"
                /\ c.at = "install" => c.ask.f = "LibInstall"
Fresh(p) == FreshCall(call[p])

\* What the steps so far of p's call have read has been seen, and what they set.
Done(p) ==
    LET c == call[p] IN
    \A j \in 1..c.i - 1 :
        /\ Work(p)[j] \in {"get", "fetch"} /\ OwnKey(c.ask)[1] # "info" => c.got \in c.seen
        /\ Work(p)[j] \in {"put", "end", "whole"} => ValueOf(c.ask) \in c.seen

\* The request served has the driver's variables to itself, and no other is.
Mine(p) ==
    LET c == call[p] IN
    /\ Askable(c.ask) /\ UnitOf(c.ask) # {}
    /\ cdv.by = p /\ cdv.unit = Passed(c.ask) /\ cdv.reg = c.ask.reg /\ cdv.m = c.ask.m
    /\ c.i \in 1..Len(Work(p)) + 1
Progress(p) ==
    LET c == call[p]  k == OwnKey(call[p].ask) IN
    /\ c.status = "ok" /\ c.ask.f # "IOIsAvailable" => Done(p)
    /\ Work(p) = <<"load", "turn">> /\ c.i = 2 => c.loc = brd.val[k] \/ k \in scene.drifts
    /\ Work(p) = <<"begin", "end">> /\ c.i = 2 => brd.begun[k[2]] = p
Served(p) == /\ call[p].at = "in" <=> sem = p
             /\ call[p].at = "in" => Mine(p) /\ Progress(p)

\* What was told is what was seen.
Truly(t) == t.ok => /\ Reads(t.ask) /\ OwnKey(t.ask)[1] # "info" => t.got \in t.seen
                    /\ Writes(t.ask) => ValueOf(t.ask) \in t.seen

PInv(p) == CallFields(call[p]) /\ Fresh(p) /\ Served(p) /\ Truly(call[p].told)
CgosInv == Shape /\ \A p \in Progs : PInv(p)

-----------------------------------------------------------------------------
(* The driver.                                                             *)

LEMMA DrvInitial == CgosInit => DrvInv
<1> SUFFICES ASSUME CgosInit PROVE DrvInv
  OBVIOUS
<1>1. drv = Ready \/ drv = Absent
  BY DEF CgosInit
<1>2. CASE drv = Ready
  BY <1>2 DEF DrvInv, DrvFields, DriverTidy, Ready
<1>3. CASE drv = Absent
  BY <1>3 DEF DrvInv, DrvFields, DriverTidy, Absent
<1>4. QED BY <1>1, <1>2, <1>3

LEMMA DriverKeeps == ASSUME DrvInv, DriverNext PROVE DrvInv'
<1>1. ASSUME NEW ok \in BOOLEAN, Load(ok) PROVE DrvInv'
  <2>1. drv' = [Absent EXCEPT !.at = "opening", !.cdv = ok, !.base = IF ok THEN 1 ELSE Bases + 1,
                              !.holds = IF ok THEN {"cdv"} ELSE {}]
    BY <1>1 DEF Load
  <2>2. /\ DrvFields' /\ drv'.at = "opening" /\ drv'.boards = 0 /\ drv'.stage = 1 /\ (drv'.cdv <=> ok)
        /\ drv'.base = (IF ok THEN 1 ELSE Bases + 1) /\ drv'.holds = (IF ok THEN {"cdv"} ELSE {})
    BY <2>1 DEF Absent, DrvFields
  <2>3. Held[1] = {"cdv"}
    BY DEF Held
  <2>4. QED BY <2>2, <2>3 DEF DrvInv, DriverTidy, Bases
<1>2. CASE Stage
  <2> DEFINE s == Stages[drv.stage]
             held == (drv.holds \cup s.adds) \ s.drops
  <2>1. /\ DrvFields /\ drv.at = "opening" /\ drv.base <= Bases /\ drv.stage \in 1..8
        /\ drv.holds = Held[drv.stage] /\ drv.cdv /\ drv.boards = 0 /\ drv.base \in Nat
    BY <1>2 DEF Stage, DrvInv, DrvFields, Bases
  <2>2. CASE drv.stage < 8
    <3>1. drv' = [drv EXCEPT !.stage = @ + 1, !.holds = held]
      BY <1>2, <2>2 DEF Stage, Stages
    <3>2. held = Held[drv.stage + 1]
      BY <2>1, <2>2 DEF Stages, Held
    <3> HIDE DEF held
    <3>3. /\ DrvFields' /\ drv'.at = "opening" /\ drv'.boards = 0 /\ drv'.cdv
          /\ drv'.base = drv.base /\ drv'.stage = drv.stage + 1 /\ drv'.holds = held
      BY <2>1, <3>1 DEF DrvFields
    <3>4. drv'.stage \in 1..8 /\ drv'.base \in Nat
      BY <2>1, <2>2, <3>3
    <3>5. QED BY <2>1, <3>2, <3>3, <3>4 DEF DrvInv, DriverTidy
  <2>3. CASE drv.stage = 8
    <3>1. drv' = [drv EXCEPT !.at = "ready", !.boards = 1, !.stage = 1, !.holds = held]
      BY <1>2, <2>3 DEF Stage, Stages
    <3>2. held = {"cdv", "code", "data", "maps"}
      BY <2>1, <2>3 DEF Stages, Held
    <3> HIDE DEF held
    <3>3. /\ DrvFields' /\ drv'.at = "ready" /\ drv'.boards = 1 /\ drv'.stage = 1
          /\ drv'.base = drv.base /\ drv'.holds = held
      BY <2>1, <3>1 DEF DrvFields
    <3>4. QED BY <2>1, <3>2, <3>3 DEF DrvInv, DriverTidy, Ready
  <2>4. QED BY <2>1, <2>2, <2>3
<1>3. CASE StageFails
  <2>1. drv' = [drv EXCEPT !.base = @ + 1, !.stage = 1, !.holds = {"cdv"}]
        /\ drv.at = "opening" /\ drv.base <= Bases
    BY <1>3 DEF StageFails
  <2>2. DrvFields /\ drv.base \in Nat /\ drv.cdv /\ drv.boards = 0 /\ Held[1] = {"cdv"}
    BY <2>1 DEF DrvInv, DrvFields, Held, Bases
  <2>3. /\ DrvFields' /\ drv'.at = "opening" /\ drv'.boards = 0 /\ drv'.cdv
        /\ drv'.stage = 1 /\ drv'.holds = {"cdv"} /\ drv'.base = drv.base + 1
    BY <2>1, <2>2 DEF DrvFields
  <2>4. QED BY <2>2, <2>3 DEF DrvInv, DriverTidy
<1>4. CASE Boardless
  <2>1. drv' = [drv EXCEPT !.at = "ready"] /\ drv.at = "opening" /\ drv.base > Bases
    BY <1>4 DEF Boardless
  <2>2. /\ DrvFields /\ drv.boards = 0 /\ drv.base \in Nat /\ drv.stage \in 1..8
        /\ drv.holds = IF drv.cdv THEN {"cdv"} ELSE {}
    BY <2>1 DEF DrvInv, DrvFields, Bases
  <2>3. /\ DrvFields' /\ drv'.at = "ready" /\ drv'.boards = 0 /\ drv'.cdv = drv.cdv
        /\ drv'.holds = drv.holds /\ drv'.base = drv.base /\ drv'.stage = drv.stage
    BY <2>1, <2>2 DEF DrvFields
  <2>4. QED BY <2>2, <2>3 DEF DrvInv, DriverTidy
<1>5. CASE Unload
  BY <1>5 DEF Unload, DrvInv, DrvFields, DriverTidy, Absent
<1>6. QED BY <1>1, <1>2, <1>3, <1>4, <1>5 DEF DriverNext

\* No one else touches the driver's state.
LEMMA OnlyDriver == GpioNext => DriverNext \/ drv' = drv
<1>1. ASSUME NEW p, Serve(p) PROVE drv' = drv
  BY <1>1 DEF Serve, Installed, Enter, Reject, Again, CgebFails, Cgeb, Finish
<1>2. ASSUME NEW p, NEW a, Issue(p, a) PROVE drv' = drv
  BY <1>2 DEF Issue
<1>3. ASSUME NEW p, LibInitialize(p) \/ LibUninitialize(p) \/ LibInstall(p) PROVE drv' = drv
  BY <1>3 DEF LibInitialize, LibUninitialize, LibInstall
<1>4. ASSUME NEW k, Drift(k) PROVE drv' = drv
  BY <1>4 DEF Drift
<1>5. CgosNext => DriverNext \/ drv' = drv
  BY <1>1, <1>2, <1>3, <1>4 DEF CgosNext
<1>6. StartTool \/ ToolGoesOn \/ Judge => drv' = drv
  BY DEF StartTool, ToolGoesOn, Judge, cgosVars
<1>7. ToolAsks => drv' = drv
  BY <1>2, <1>3 DEF ToolAsks
<1>8. QED BY <1>5, <1>6, <1>7 DEF GpioNext

\* A driver that is loaded holds what its board needs and nothing of the boards
\* it could not open, whichever stage failed at whichever address.
\* (UlaOpenDriver, CgebOpenRaw, CgebClose)
THEOREM DriverStaysTidy == GpioSpec => []DriverTidy
<1>1. GpioInit => DrvInv
  BY DrvInitial DEF GpioInit
<1>2. DrvInv /\ [GpioNext]_gpioVars => DrvInv'
  <2> SUFFICES ASSUME DrvInv, [GpioNext]_gpioVars PROVE DrvInv'
    OBVIOUS
  <2>1. DriverNext \/ drv' = drv
    BY OnlyDriver DEF gpioVars, cgosVars
  <2>2. QED BY <2>1, DriverKeeps DEF DrvInv, DrvFields, DriverTidy
<1>3. DrvInv => DriverTidy
  BY DEF DrvInv
<1>4. QED BY <1>1, <1>2, <1>3, PTL DEF GpioSpec

-----------------------------------------------------------------------------
(* What the functions do.                                                  *)

LEMMA WorkIs == ASSUME NEW f PROVE Steps(f) \in AllWork
BY DEF Steps, AllWork

LEMMA PutsAre ==
    /\ \A g \in Puts : g \in DOMAIN Thing /\ Thing[g] \notin {"in", "info"}
    /\ \A g \in Puts : g \notin Untranslated /\ g # "IOXorAndXor" /\ g # "Cgeb"
BY DEF Puts, Thing, Untranslated

LEMMA Plainly ==
    /\ {"I2CWrite", "I2CWriteRegister"} \subseteq Untranslated \cap BusFcts
    /\ {"WDogSetConfig", "WDogDisable", "IOIsAvailable", "IOXorAndXor", "I2CWrite",
         "I2CWriteRegister"} \cap DOMAIN Thing = {}
    /\ {"WDogSetConfig", "WDogDisable", "IOIsAvailable", "IOXorAndXor"} \cap BusFcts = {}
    /\ {"I2CWrite", "IOIsAvailable", "IOXorAndXor"} \cap Puts = {}
    /\ {"I2CWrite", "IOIsAvailable"} \cap DOMAIN AsksFor = {}
BY DEF Untranslated, BusFcts, Thing, AsksFor, Puts

LEMMA Putting ==
    ASSUME NEW f, Steps(f) \in {<<"begin", "end">>, <<"whole">>, <<"put">>}
    PROVE  f \in Puts \cup {"WDogSetConfig", "WDogDisable", "I2CWrite", "I2CWriteRegister"}
BY DEF Steps, Thing, Puts

LEMMA WriteKeys ==
    ASSUME NEW a, Writes(a), a.reg \notin {"in", "info"}
    PROVE  OwnKey(a)[1] \notin {"in", "info"}
<1> DEFINE f == Fct(a.f)
<1>1. Steps(f) \in {<<"begin", "end">>, <<"whole">>, <<"put">>}
  BY WorkIs DEF Writes, AllWork
<1> HIDE DEF f
<1>2. f \in Puts \cup {"WDogSetConfig", "WDogDisable", "I2CWrite", "I2CWriteRegister"}
  BY <1>1, Putting
<1>3. KeyOf(f, a.reg, Passed(a))[1] \notin {"in", "info"}
  <2>1. CASE f \in Puts
    <3>1. f \in DOMAIN Thing /\ Thing[f] \notin {"in", "info"} /\ f \notin Untranslated
      BY <2>1, PutsAre
    <3>2. f # "IOXorAndXor" /\ f # "Cgeb" /\ f \notin {"WDogSetConfig", "WDogDisable"}
      BY <2>1, <3>1, PutsAre, Plainly
    <3>3. KeyOf(f, a.reg, Passed(a)) = <<Thing[f], Passed(a)>>
      BY <3>1, <3>2 DEF KeyOf
    <3>4. QED BY <3>1, <3>3
  <2>2. CASE f \in {"WDogSetConfig", "WDogDisable"}
    BY <2>2, Plainly DEF KeyOf
  <2>3. CASE f \in {"I2CWrite", "I2CWriteRegister"}
    BY <2>3, Plainly DEF KeyOf
  <2>4. QED BY <1>2, <2>1, <2>2, <2>3
<1>4. QED BY <1>3 DEF OwnKey, f

LEMMA TurnKeys ==
    ASSUME NEW a, Steps(Fct(a.f)) = <<"load", "turn">>
    PROVE  Fct(a.f) = "IOXorAndXor" /\ OwnKey(a)[1] = "pins"
<1>1. Fct(a.f) = "IOXorAndXor"
  BY DEF Steps, Thing, Puts
<1>2. QED BY <1>1, Plainly DEF OwnKey, KeyOf

LEMMA AvailableKey ==
    ASSUME NEW a, a.f = "IOIsAvailable"
    PROVE  OwnKey(a)[1] = "info" /\ Steps(Fct(a.f)) = <<"get">>
<1>1. Fct(a.f) = "IOIsAvailable"
  BY Plainly DEF Fct
<1>2. QED BY <1>1, Plainly DEF OwnKey, KeyOf, Steps

LEMMA WriteWork == ASSUME NEW a, a.f = "I2CWrite" PROVE Steps(Fct(a.f)) = <<"begin", "end">>
BY Plainly DEF Fct, Steps

-----------------------------------------------------------------------------
(* What steps do to the calls of others, and to a call not served.          *)

LEMMA Unmoved ==
    ASSUME NEW q \in Progs, PInv(q), call'[q] = call[q], UNCHANGED <<scene, brd, cdv, sem>>
    PROVE  PInv(q)'
BY DEF PInv, CallFields, Fresh, FreshCall, Served, Truly, Mine, Progress, Done, Work

LEMMA Waiting ==
    ASSUME NEW q \in Progs, PInv(q), call'[q] = call[q], call[q].at # "in", sem' # q
    PROVE  PInv(q)'
BY DEF PInv, CallFields, Fresh, FreshCall, Served, Truly

\* A step of a call that is not served, and stays so.
LEMMA Unserved ==
    ASSUME CgosInv, NEW p \in Progs, NEW c, call' = [call EXCEPT ![p] = c],
           UNCHANGED <<scene, brd, cdv, sem>>, call[p].at # "in", c.at # "in",
           CallFields(c), FreshCall(c), Truly(c.told)
    PROVE  CgosInv'
<1>1. call' = [q \in Progs |-> IF q = p THEN c ELSE call[q]]
  BY DEF CgosInv, Shape
<1>2. Shape'
  BY <1>1 DEF CgosInv, Shape
<1>3. ASSUME NEW q \in Progs, q # p PROVE PInv(q)'
  BY <1>1, <1>3, Unmoved DEF CgosInv
<1>4. PInv(p)'
  BY <1>1 DEF CgosInv, PInv, CallFields, Fresh, FreshCall, Served, Truly
<1>5. QED BY <1>2, <1>3, <1>4 DEF CgosInv

LEMMA Calm == ASSUME CgosInv, UNCHANGED <<scene, brd, cdv, sem, call>> PROVE CgosInv'
<1>1. Shape'
  BY DEF CgosInv, Shape
<1>2. ASSUME NEW q \in Progs PROVE PInv(q)'
  BY Unmoved DEF CgosInv
<1>3. QED BY <1>1, <1>2 DEF CgosInv

-----------------------------------------------------------------------------
(* The steps of the library.                                               *)

LEMMA TellKept ==
    ASSUME NEW c, NEW ok, NEW got
    PROVE  CallFields(Tell(c, ok, got)) /\ Tell(c, ok, got).at = "idle"
BY DEF Tell, NoCall, CallFields

LEMMA TellFields ==
    ASSUME NEW c, NEW ok, NEW got
    PROVE  Tell(c, ok, got).told = [ask |-> c.ask, ok |-> ok, got |-> got, seen |-> c.seen]
BY DEF Tell, NoCall

\* A call that failed was told nothing.
LEMMA FailedTruly == ASSUME NEW c, NEW got PROVE Truly(Tell(c, FALSE, got).told)
<1> DEFINE t == Tell(c, FALSE, got).told
<1>1. t = [ask |-> c.ask, ok |-> FALSE, got |-> got, seen |-> c.seen]
  BY TellFields
<1> HIDE DEF t
<1>2. Truly(t)
  BY <1>1 DEF Truly
<1>3. QED BY <1>2 DEF t

\* Nor one that neither reads nor writes.
LEMMA IdleTruly ==
    ASSUME NEW c, NEW ok, NEW got, Steps(Fct(c.ask.f)) = <<>> PROVE Truly(Tell(c, ok, got).told)
<1> DEFINE t == Tell(c, ok, got).told
<1>1. t = [ask |-> c.ask, ok |-> ok, got |-> got, seen |-> c.seen]
  BY TellFields
<1> HIDE DEF t
<1>2. Steps(Fct(t.ask.f)) = <<>>
  BY <1>1
<1>3. ~Reads(t.ask) /\ ~Writes(t.ask)
  BY <1>2 DEF Reads, Writes
<1>4. Truly(t)
  BY <1>3 DEF Truly
<1>5. QED BY <1>4 DEF t

\* What the library asks when it is opened or installed.
LEMMA Nothing ==
    ASSUME NEW f, f \in {"none", "LibInitialize", "LibInstall"} PROVE Steps(Fct(f)) = <<>>
<1>1. Fct(f) \in {"none", "DrvGetVersion", "LibInstall"}
  BY DEF Fct, AsksFor
<1> DEFINE g == Fct(f)
<1> HIDE DEF g
<1>2. g \in {"none", "DrvGetVersion", "LibInstall"} => Steps(g) = <<>>
  BY DEF Steps, Puts, Thing
<1>3. QED BY <1>1, <1>2 DEF g

LEMMA NoCallFields ==
    /\ CallFields(NoCall) /\ NoCall.i = 1 /\ NoCall.status = "ok" /\ NoCall.at = "idle"
    /\ NoCall.ask = NoAsk /\ Steps(Fct(NoAsk.f)) = <<>> /\ Truly(NoCall.told)
<1>1. CallFields(NoCall) /\ NoCall.i = 1 /\ NoCall.status = "ok" /\ NoCall.at = "idle"
      /\ NoCall.ask = NoAsk /\ NoCall.told.ask = NoAsk
  BY DEF NoCall, CallFields
<1>2. NoAsk.f = "none"
  BY DEF NoAsk, Question
<1>3. Steps(Fct(NoAsk.f)) = <<>>
  BY <1>2, Nothing
<1>4. ~Reads(NoAsk) /\ ~Writes(NoAsk)
  BY <1>3 DEF Reads, Writes
<1>5. QED BY <1>1, <1>3, <1>4 DEF Truly

LEMMA Initially == CgosInit => CgosInv
<1> SUFFICES ASSUME CgosInit PROVE CgosInv
  OBVIOUS
<1>1. Shape
  BY CgosAssumption DEF CgosInit, Shape
<1>2. ASSUME NEW q \in Progs PROVE PInv(q)
  <2>1. call[q] = NoCall /\ sem = "none" /\ q # "none"
    BY CgosAssumption DEF CgosInit
  <2>2. QED BY <2>1, NoCallFields DEF PInv, Fresh, FreshCall, Served
<1>3. QED BY <1>1, <1>2 DEF CgosInv

LEMMA IssueKeeps ==
    ASSUME CgosInv, NEW p \in Progs, NEW a, Askable(a), Issue(p, a) PROVE CgosInv'
<1> DEFINE none == [NoCall EXCEPT !.ask = a]
           down == [call[p] EXCEPT !.at = "down", !.ask = a, !.i = 1, !.more = 0, !.loc = {}, !.got = {},
                                   !.status = "ok", !.seen = Looks(brd.val, a)]
           c == IF lib[p].inits = 0 THEN Tell(none, FALSE, {}) ELSE down
<1>1. call' = [call EXCEPT ![p] = c] /\ call[p].at = "idle" /\ UNCHANGED <<scene, brd, cdv, sem>>
  BY DEF Issue, CanCall
<1>2. CallFields(call[p]) /\ Truly(call[p].told)
  BY DEF CgosInv, PInv
<1>3. /\ CallFields(down) /\ down.at = "down" /\ down.ask = a /\ down.i = 1 /\ down.status = "ok"
      /\ down.told = call[p].told
  <2> DEFINE k == call[p]  v == Looks(brd.val, a)
  <2>1. CallFields(k)
    BY <1>2
  <2> HIDE DEF k, v
  <2>2. ASSUME NEW d, d = [k EXCEPT !.at = "down", !.ask = a, !.i = 1, !.more = 0, !.loc = {},
                                   !.got = {}, !.status = "ok", !.seen = v]
        PROVE  /\ CallFields(d) /\ d.at = "down" /\ d.ask = a /\ d.i = 1 /\ d.status = "ok"
               /\ d.told = k.told
    <3>1. d = [at |-> "down", ask |-> a, i |-> 1, more |-> 0, loc |-> {}, got |-> {},
               status |-> "ok", seen |-> v, told |-> k.told]
      BY <2>1, <2>2 DEF CallFields
    <3>2. QED BY <3>1 DEF CallFields
  <2>3. QED BY <2>2 DEF k, v
<1>4. Truly(Tell(none, FALSE, {}).told)
  BY FailedTruly
<1> HIDE DEF none, down
<1>5. CallFields(c) /\ Truly(c.told) /\ c.at # "in" /\ FreshCall(c)
  BY <1>2, <1>3, <1>4, TellKept DEF FreshCall
<1> HIDE DEF c
<1>6. QED BY <1>1, <1>5, Unserved

LEMMA PlainFields ==
    ASSUME NEW f, NEW a,
           a = [f |-> f, t |-> 0, i |-> 0, reg |-> "none", m |-> NoAsk.m, fits |-> TRUE]
    PROVE  /\ a.f = f /\ a.reg = "none"
           /\ a = [f |-> a.f, t |-> a.t, i |-> a.i, reg |-> a.reg, m |-> a.m, fits |-> a.fits]
OBVIOUS

LEMMA InitializeKeeps ==
    ASSUME CgosInv, NEW p \in Progs, LibInitialize(p) PROVE CgosInv'
<1> DEFINE a == Question("LibInitialize", 0, 0, "none", NoAsk.m, TRUE)
           opens == lib[p].inits = 0 /\ drv.at # "absent"
           down == [NoCall EXCEPT !.at = "down", !.ask = a, !.told = @]
           none == [NoCall EXCEPT !.ask = a]
           c == IF opens THEN down ELSE Tell(none, lib[p].inits > 0, {})
<1>1. call' = [call EXCEPT ![p] = c] /\ call[p].at = "idle" /\ UNCHANGED <<scene, brd, cdv, sem>>
  BY DEF LibInitialize, CanCall
<1>a. a = [f |-> "LibInitialize", t |-> 0, i |-> 0, reg |-> "none", m |-> NoAsk.m, fits |-> TRUE]
  BY DEF Question
<1> HIDE DEF a
<1>2. a.f = "LibInitialize" /\ a.reg = "none"
      /\ a = [f |-> a.f, t |-> a.t, i |-> a.i, reg |-> a.reg, m |-> a.m, fits |-> a.fits]
  BY <1>a, PlainFields
<1>3. Steps(Fct(a.f)) = <<>>
  BY <1>2, Nothing
<1>4. ~Reads(a) /\ ~Writes(a)
  BY <1>3 DEF Reads, Writes
<1>5. Askable(a)
  BY <1>2, <1>4 DEF Askable, Question
<1>6. CallFields(down) /\ down.at = "down" /\ down.ask = a /\ down.i = 1 /\ down.status = "ok"
      /\ down.told = NoCall.told
  <2>1. ASSUME NEW d, d = down
        PROVE  /\ CallFields(d) /\ d.at = "down" /\ d.ask = a /\ d.i = 1 /\ d.status = "ok"
               /\ d.told = NoCall.told
    BY <2>1, NoCallFields DEF CallFields
  <2>2. QED BY <2>1
<1>7. none.ask = a
  BY DEF NoCall
<1> HIDE DEF none, down, opens
<1>8. Truly(Tell(none, lib[p].inits > 0, {}).told)
  BY <1>3, <1>7, IdleTruly
<1>9. CallFields(c) /\ Truly(c.told) /\ c.at # "in" /\ FreshCall(c)
  BY <1>5, <1>6, <1>8, TellKept, NoCallFields DEF FreshCall
<1> HIDE DEF c
<1>10. QED BY <1>1, <1>9, Unserved

LEMMA InstallKeeps ==
    ASSUME CgosInv, NEW p \in Progs, LibInstall(p) PROVE CgosInv'
<1> DEFINE c == [NoCall EXCEPT !.at = "install",
                               !.ask = Question("LibInstall", 0, 0, "none", NoAsk.m, TRUE)]
<1>1. call' = [call EXCEPT ![p] = c] /\ call[p].at = "idle" /\ UNCHANGED <<scene, brd, cdv, sem>>
  BY DEF LibInstall, CanCall
<1> DEFINE a == Question("LibInstall", 0, 0, "none", NoAsk.m, TRUE)
<1>a. a = [f |-> "LibInstall", t |-> 0, i |-> 0, reg |-> "none", m |-> NoAsk.m, fits |-> TRUE]
  BY DEF Question
<1> HIDE DEF a
<1>2. a.f = "LibInstall"
  BY <1>a, PlainFields
<1>3. c = [NoCall EXCEPT !.at = "install", !.ask = a]
  BY DEF a
<1> HIDE DEF c
<1>4. CallFields(c) /\ c.at = "install" /\ c.told = NoCall.told /\ c.ask = a
  BY <1>3, NoCallFields DEF CallFields
<1>5. QED BY <1>1, <1>2, <1>4, Unserved, NoCallFields DEF FreshCall

LEMMA InstalledKeeps ==
    ASSUME CgosInv, NEW p \in Progs, NEW ok \in BOOLEAN, Installed(p, ok) PROVE CgosInv'
<1> DEFINE c == Tell(call[p], ok, {})
<1>1. call' = [call EXCEPT ![p] = c] /\ call[p].at = "install" /\ UNCHANGED <<scene, brd, cdv, sem>>
  BY DEF Installed
<1>2. call[p].ask.f = "LibInstall"
  BY <1>1 DEF CgosInv, PInv, Fresh, FreshCall
<1>4. Truly(c.told)
  BY <1>2, Nothing, IdleTruly
<1> HIDE DEF c
<1>5. CallFields(c) /\ c.at = "idle"
  BY TellKept DEF c
<1>6. QED BY <1>1, <1>4, <1>5, Unserved DEF FreshCall

LEMMA RejectKeeps ==
    ASSUME CgosInv, NEW p \in Progs, Reject(p) PROVE CgosInv'
<1> DEFINE c == Tell(call[p], FALSE, {})
<1>1. call' = [call EXCEPT ![p] = c] /\ call[p].at = "down" /\ UNCHANGED <<scene, brd, cdv, sem>>
  BY DEF Reject
<1> HIDE DEF c
<1>2. Truly(c.told) /\ CallFields(c) /\ c.at = "idle"
  BY TellKept, FailedTruly DEF c
<1>3. QED BY <1>1, <1>2, Unserved DEF FreshCall

-----------------------------------------------------------------------------
(* The steps of the driver.                                                *)

LEMMA WorkLength ==
    ASSUME NEW a
    PROVE  /\ Len(Steps(Fct(a.f))) \in Nat /\ DOMAIN Steps(Fct(a.f)) = 1..Len(Steps(Fct(a.f)))
BY WorkIs DEF AllWork

LEMMA EnterKeeps == ASSUME CgosInv, NEW p \in Progs, Enter(p) PROVE CgosInv'
<1> DEFINE c == [call[p] EXCEPT !.at = "in"]
<1>1. /\ call' = [call EXCEPT ![p].at = "in"] /\ call[p].at = "down" /\ sem = "none" /\ sem' = p
      /\ ~Refused(call[p].ask, lib[p].board) /\ UNCHANGED <<scene, brd>>
      /\ cdv' = [by |-> p, unit |-> Passed(call[p].ask), reg |-> call[p].ask.reg, m |-> call[p].ask.m]
  BY DEF Enter
<1>2. call' = [q \in Progs |-> IF q = p THEN c ELSE call[q]]
  BY <1>1 DEF CgosInv, Shape
<1>3. /\ CallFields(c) /\ c.at = "in" /\ c.ask = call[p].ask /\ c.i = call[p].i
      /\ c.status = call[p].status /\ c.told = call[p].told
  <2>1. CallFields(call[p])
    BY DEF CgosInv, PInv
  <2>2. QED BY <2>1 DEF CallFields
<1> HIDE DEF c
<1>4. call'[p] = c
  BY <1>2
<1>5. Askable(c.ask) /\ c.i = 1 /\ c.status = "ok" /\ Truly(c.told) /\ UnitOf(c.ask) # {}
  BY <1>1, <1>3 DEF CgosInv, PInv, Fresh, FreshCall, Refused
<1>6. Shape'
  BY <1>1, <1>2 DEF CgosInv, Shape
<1>7. ASSUME NEW q \in Progs, q # p PROVE PInv(q)'
  <2>1. call[q].at # "in" /\ sem' # q
    BY <1>1, <1>7, CgosAssumption DEF CgosInv, PInv, Served
  <2>2. call'[q] = call[q] /\ PInv(q)
    BY <1>2, <1>7 DEF CgosInv
  <2>3. QED BY <2>1, <2>2, Waiting
<1>8. Mine(p)'
  <2>1. Len(Steps(Fct(c.ask.f))) \in Nat
    BY WorkLength
  <2>2. /\ cdv'.by = p /\ cdv'.unit = Passed(c.ask) /\ cdv'.reg = c.ask.reg /\ cdv'.m = c.ask.m
    BY <1>1, <1>3
  <2>3. QED BY <1>4, <1>5, <2>1, <2>2 DEF Mine, Work
<1>9. Progress(p)'
  BY <1>4, <1>5 DEF Progress, Done
<1>10. PInv(p)'
  BY <1>1, <1>3, <1>4, <1>5, <1>8, <1>9 DEF PInv, Fresh, FreshCall, Served, CallFields
<1>11. QED BY <1>6, <1>7, <1>10 DEF CgosInv

\* One call is served; the others wait.
LEMMA Alone ==
    ASSUME CgosInv, NEW p \in Progs, call[p].at = "in"
    PROVE  sem = p /\ Mine(p) /\ Progress(p) /\ \A q \in Progs : q # p => call[q].at # "in"
BY DEF CgosInv, PInv, Served

\* What remains to be shown of a step of the call that is served.
SameCall(c, d) == CallFields(d) /\ d.at = c.at /\ d.ask = c.ask /\ d.told = c.told
LEMMA ServedStep ==
    ASSUME CgosInv, NEW p \in Progs, call[p].at = "in", UNCHANGED <<scene, cdv, sem>>, Shape',
           \A q \in Progs : SameCall(call[q], call'[q]),
           \A q \in Progs : q # p => call'[q].i = call[q].i /\ call'[q].status = call[q].status,
           call'[p].i \in 1..Len(Work(p)) + 1, Progress(p)'
    PROVE  CgosInv'
<1>1. sem = p /\ Mine(p) /\ \A q \in Progs : q # p => call[q].at # "in"
  BY Alone
<1>2. ASSUME NEW q \in Progs, q # p PROVE PInv(q)'
  <2>1. call[q].at # "in" /\ sem' # q /\ PInv(q) /\ SameCall(call[q], call'[q])
    BY <1>1, <1>2 DEF CgosInv
  <2>2. call'[q].i = call[q].i /\ call'[q].status = call[q].status
    BY <1>2
  <2>3. QED BY <2>1, <2>2 DEF PInv, SameCall, Fresh, FreshCall, Served
<1>3. SameCall(call[p], call'[p]) /\ PInv(p)
  BY DEF CgosInv
<1>4. Mine(p)'
  BY <1>1, <1>3 DEF Mine, Work, SameCall
<1>5. PInv(p)'
  BY <1>1, <1>3, <1>4 DEF PInv, SameCall, Fresh, FreshCall, Served
<1>6. QED BY <1>2, <1>5 DEF CgosInv

LEMMA AgainKeeps == ASSUME CgosInv, NEW p \in Progs, Again(p) PROVE CgosInv'
<1> DEFINE c == [call[p] EXCEPT !.more = @ + 1]
<1>1. call' = [call EXCEPT ![p].more = @ + 1] /\ call[p].at = "in" /\ UNCHANGED <<scene, cdv, sem, brd>>
  BY DEF Again, Serving
<1>2. call' = [q \in Progs |-> IF q = p THEN c ELSE call[q]]
  BY <1>1 DEF CgosInv, Shape
<1>3. CallFields(call[p])
  BY DEF CgosInv, PInv
<1>4. /\ CallFields(c) /\ c.at = call[p].at /\ c.ask = call[p].ask /\ c.i = call[p].i /\ c.loc = call[p].loc
      /\ c.got = call[p].got /\ c.status = call[p].status /\ c.seen = call[p].seen /\ c.told = call[p].told
  BY <1>3 DEF CallFields
<1> HIDE DEF c
<1>5. Shape'
  BY <1>1, <1>2 DEF CgosInv, Shape
<1>6. \A q \in Progs : SameCall(call[q], call'[q])
  BY <1>2, <1>4 DEF CgosInv, PInv, SameCall
<1>7. Mine(p) /\ Progress(p)
  BY <1>1, Alone
<1>8. Progress(p)'
  BY <1>1, <1>2, <1>4, <1>7 DEF Progress, Done, Work
<1>9. call'[p].i \in 1..Len(Work(p)) + 1
  BY <1>2, <1>4, <1>7 DEF Mine
<1>10. QED BY <1>1, <1>2, <1>5, <1>6, <1>8, <1>9, ServedStep

LEMMA CgebFailsKeeps == ASSUME CgosInv, NEW p \in Progs, CgebFails(p) PROVE CgosInv'
<1> DEFINE st == IF call[p].ask.f = "IOIsAvailable" THEN "ok" ELSE "bad"
           c == [call[p] EXCEPT !.i = Len(Work(p)) + 1, !.status = st]
<1>1. /\ call' = [call EXCEPT ![p].i = Len(Work(p)) + 1, ![p].status = st]
      /\ call[p].at = "in" /\ UNCHANGED <<scene, cdv, sem, brd>>
  BY DEF CgebFails, Serving, StepsOf, Work
<1>2. call' = [q \in Progs |-> IF q = p THEN c ELSE call[q]]
  BY <1>1 DEF CgosInv, Shape
<1>3. CallFields(call[p])
  BY DEF CgosInv, PInv
<1>4. /\ CallFields(c) /\ c.at = call[p].at /\ c.ask = call[p].ask /\ c.i = Len(Work(p)) + 1
      /\ c.status = st /\ c.told = call[p].told
  <2> DEFINE k == call[p]  n == Len(Work(p)) + 1
  <2>1. c = [k EXCEPT !.i = n, !.status = st] /\ CallFields(k)
    BY <1>3
  <2> HIDE DEF c, k, n, st
  <2>2. CallFields(c) /\ c.at = k.at /\ c.ask = k.ask /\ c.i = n /\ c.status = st /\ c.told = k.told
    BY <2>1 DEF CallFields
  <2>3. QED BY <2>2 DEF k, n
<1> HIDE DEF c
<1>5. Shape'
  BY <1>1, <1>2 DEF CgosInv, Shape
<1>6. \A q \in Progs : SameCall(call[q], call'[q])
  BY <1>2, <1>4 DEF CgosInv, PInv, SameCall
<1>7. Len(Work(p)) \in Nat
  BY WorkLength DEF Work
<1>8. call'[p] = c
  BY <1>2
<1>9. Progress(p)'
  <2>1. Work(p)' = Work(p)
    BY <1>4, <1>8 DEF Work
  <2>2. ASSUME Work(p) = <<"load", "turn">> \/ Work(p) = <<"begin", "end">> PROVE c.i # 2
    <3>1. Len(Work(p)) = 2
      BY <2>2
    <3>2. QED BY <1>4, <3>1
  <2>3. c.status = "ok" => c.ask.f = "IOIsAvailable"
    BY <1>4
  <2>4. QED BY <1>8, <2>1, <2>2, <2>3 DEF Progress
<1>10. call'[p].i \in 1..Len(Work(p)) + 1
  BY <1>4, <1>7, <1>8
<1>11. QED BY <1>1, <1>2, <1>5, <1>6, <1>9, <1>10, ServedStep

\* A call that is watching notes what it asks for; nothing else of it changes.
LEMMA Watching ==
    ASSUME NEW cs, NEW v, NEW q \in Progs, CallFields(cs[q]), NEW d, d = Watch(cs, v)[q]
    PROVE  /\ CallFields(d) /\ d.at = cs[q].at /\ d.ask = cs[q].ask /\ d.i = cs[q].i /\ d.loc = cs[q].loc
           /\ d.got = cs[q].got /\ d.status = cs[q].status /\ d.told = cs[q].told
<1> DEFINE k == cs[q]
           seen == IF k.at \in {"down", "in"} THEN k.seen \cup Looks(v, k.ask) ELSE k.seen
<1>1. d = [k EXCEPT !.seen = seen] /\ CallFields(k)
  BY DEF Watch
<1> HIDE DEF k, seen
<1>2. /\ CallFields(d) /\ d.at = k.at /\ d.ask = k.ask /\ d.i = k.i /\ d.loc = k.loc
      /\ d.got = k.got /\ d.status = k.status /\ d.told = k.told
  BY <1>1 DEF CallFields
<1>3. QED BY <1>2 DEF k

LEMMA Seeing ==
    ASSUME NEW cs, NEW v, NEW q \in Progs, CallFields(cs[q]), NEW d, d = Watch(cs, v)[q],
           cs[q].at \in {"down", "in"}
    PROVE  d.seen = cs[q].seen \cup Looks(v, cs[q].ask)
BY DEF Watch, CallFields

LEMMA WatchAll == ASSUME NEW cs, NEW v PROVE Watch(cs, v) = [q \in Progs |-> Watch(cs, v)[q]]
BY DEF Watch

\* Where a value is written, what is on the wires is what was written.
LEMMA PlainLevel ==
    ASSUME NEW v, NEW k, k[1] \notin {"in", "info"}
    PROVE  Level(v, k) = v[k] /\ (Known(v, k) => k \in DOMAIN v)
BY DEF Level, Known

LEMMA SameKnown ==
    ASSUME NEW v, NEW w, NEW k, DOMAIN w = DOMAIN v, Known(v, k) PROVE Known(w, k)
BY DEF Known

LEMMA StepAt ==
    ASSUME NEW w \in AllWork, NEW j \in 1..Len(w)
    PROVE  /\ w[j] = "turn" => w = <<"load", "turn">> /\ j = 2
           /\ w[j] = "end" => w = <<"begin", "end">> /\ j = 2
           /\ w[j] = "whole" => w = <<"whole">> /\ j = 1
           /\ w[j] = "put" => w = <<"put">> /\ j = 1
           /\ w = <<"load", "turn">> /\ j = 1 => w[j] = "load"
           /\ w = <<"begin", "end">> /\ j = 1 => w[j] = "begin"
<1>1. CASE Len(w) = 0
  BY <1>1
<1>2. CASE w \in {<<"fetch">>, <<"whole">>, <<"get">>, <<"put">>}
  BY <1>2
<1>3. CASE w \in {<<"load", "turn">>, <<"begin", "end">>, <<"begin", "fetch">>}
  <2>1. Len(w) = 2
    BY <1>3
  <2>2. j \in {1, 2}
    BY <2>1
  <2>3. QED BY <1>3, <2>2
<1>4. CASE w = <<"begin", "on", "fetch">>
  <2>1. j \in {1, 2, 3}
    BY <1>4
  <2>2. QED BY <1>4, <2>1
<1>5. QED BY <1>1, <1>2, <1>3, <1>4 DEF AllWork

\* What the driver's variables hold is what the request it serves asks for.
LEMMA AskedOnly ==
    ASSUME NEW p, Mine(p)
    PROVE  /\ Key(p) = OwnKey(call[p].ask) /\ cdv.m = call[p].ask.m /\ cdv.by = p
           /\ Given(p) = ValueOf(call[p].ask)
<1> DEFINE a == call[p].ask
           e == [a EXCEPT !.m = cdv.m]
<1>1. Key(p) = OwnKey(a) /\ cdv.m = a.m /\ cdv.by = p
  BY DEF Mine, Key, OwnKey
<1>2. a = [f |-> a.f, t |-> a.t, i |-> a.i, reg |-> a.reg, m |-> a.m, fits |-> a.fits]
  BY DEF Mine, Askable, Question
<1>3. e.f = a.f /\ e.m = a.m
  BY <1>1, <1>2
<1> HIDE DEF e
<1>4. ValueOf(e) = ValueOf(a)
  BY <1>3 DEF ValueOf
<1>5. QED BY <1>1, <1>4 DEF Given, e

LEMMA CgebKeeps == ASSUME CgosInv, NEW p \in Progs, NEW less \in BOOLEAN, Cgeb(p, less) PROVE CgosInv'
<1> DEFINE a == call[p].ask
           k == OwnKey(a)
           j == call[p].i
           s == Work(p)[j]
           turned == Flip(Flip(call[p].loc, a.m[1]) \cap a.m[2], a.m[3])
           val == CASE s = "turn" -> [brd.val EXCEPT ![k] = turned]
                    [] s \in {"put", "end", "whole"} -> [brd.val EXCEPT ![k] = ValueOf(a)]
                    [] OTHER -> brd.val
           begun == CASE s = "begin" -> [brd.begun EXCEPT ![k[2]] = p]
                      [] s \in {"end", "whole", "fetch"} -> [brd.begun EXCEPT ![k[2]] = "none"]
                      [] OTHER -> brd.begun
           st == IF less THEN "less" ELSE call[p].status
           lo == IF s = "load" THEN Level(brd.val, k) ELSE call[p].loc
           go == IF s \in {"get", "fetch"} THEN Level(brd.val, k) ELSE call[p].got
           c == [call[p] EXCEPT !.i = j + 1, !.status = st, !.loc = lo, !.got = go]
           cs == [q \in Progs |-> IF q = p THEN c ELSE call[q]]
<1>1. call[p].at = "in" /\ j <= Len(Work(p)) /\ UNCHANGED <<scene, cdv, sem>>
  BY DEF Cgeb, Serving, StepsOf, Work
<1>2. /\ sem = p /\ Mine(p) /\ Progress(p) /\ CallFields(call[p]) /\ p # "none"
  BY <1>1, Alone, CgosAssumption DEF CgosInv, PInv
<1>3. Key(p) = k /\ cdv.m = a.m /\ cdv.by = p /\ Given(p) = ValueOf(a)
  BY <1>2, AskedOnly
<1>5. /\ Known(brd.val, k) /\ (less => s \in {"get", "fetch"})
      /\ brd' = [val |-> val, begun |-> begun]
  BY <1>3 DEF Cgeb, StepsOf, Work
<1>6. call' = Watch(cs, val)
  <2> DEFINE es == [call EXCEPT
          ![p].i = @ + 1, ![p].status = IF less THEN "less" ELSE @,
          ![p].loc = IF s = "load" THEN Level(brd.val, k) ELSE @,
          ![p].got = IF s \in {"get", "fetch"} THEN Level(brd.val, k) ELSE @]
  <2>1. call' = Watch(es, val)
    BY <1>3 DEF Cgeb, StepsOf, Work
  <2>2. call = [q \in Progs |-> call[q]]
    BY DEF CgosInv, Shape
  <2>3. es = cs
    BY <1>2, <2>2 DEF CallFields
  <2> HIDE DEF es, cs, val
  <2>4. QED BY <2>1, <2>3
<1>7. /\ CallFields(c) /\ c.at = "in" /\ c.ask = a /\ c.i = j + 1 /\ c.loc = lo /\ c.got = go
      /\ c.status = st /\ c.told = call[p].told /\ c.seen = call[p].seen
  <2> DEFINE d == call[p]  n == j + 1
  <2>1. c = [d EXCEPT !.i = n, !.status = st, !.loc = lo, !.got = go] /\ CallFields(d) /\ d.at = "in"
    BY <1>1, <1>2
  <2> HIDE DEF c, d, n, st, lo, go
  <2>2. /\ CallFields(c) /\ c.at = d.at /\ c.ask = d.ask /\ c.i = n /\ c.loc = lo /\ c.got = go
        /\ c.status = st /\ c.told = d.told /\ c.seen = d.seen
    BY <2>1 DEF CallFields
  <2>3. QED BY <2>1, <2>2 DEF d, n
<1> HIDE DEF c
<1>8. \A q \in Progs : CallFields(cs[q])
  BY <1>7 DEF CgosInv, PInv
<1> DEFINE c2 == Watch(cs, val)[p]
<1>9. cs[p] = c /\ \A q \in Progs : q # p => cs[q] = call[q]
  OBVIOUS
<1> HIDE DEF cs, val, begun, st, lo, go
<1>10. ASSUME NEW q \in Progs
       PROVE  /\ call'[q] = Watch(cs, val)[q] /\ SameCall(call[q], call'[q])
              /\ q # p => call'[q].i = call[q].i /\ call'[q].status = call[q].status
  <2>1. call'[q] = Watch(cs, val)[q]
    BY <1>6
  <2> DEFINE d == call'[q]
  <2>2. SameCall(cs[q], d) /\ d.i = cs[q].i /\ d.status = cs[q].status
    <3>1. CallFields(cs[q]) /\ d = Watch(cs, val)[q]
      BY <1>8, <2>1
    <3> HIDE DEF d
    <3>2. QED BY <3>1, Watching DEF SameCall
  <2>3. CASE q = p
    BY <1>1, <1>7, <1>9, <2>1, <2>2, <2>3 DEF SameCall
  <2>4. CASE q # p
    BY <1>9, <2>1, <2>2, <2>4 DEF SameCall
  <2>5. QED BY <2>3, <2>4
<1>11. /\ call'[p].i = j + 1 /\ call'[p].status = st /\ call'[p].loc = lo /\ call'[p].got = go
       /\ call'[p].ask = a /\ call'[p].seen = call[p].seen \cup Looks(val, a)
  <2> DEFINE d == call'[p]
  <2>1. d = Watch(cs, val)[p] /\ CallFields(cs[p])
    BY <1>8, <1>10
  <2> HIDE DEF d
  <2>2. /\ d.i = cs[p].i /\ d.status = cs[p].status /\ d.loc = cs[p].loc
        /\ d.got = cs[p].got /\ d.ask = cs[p].ask
    BY <2>1, Watching
  <2>3. cs[p].at = "in" => d.seen = cs[p].seen \cup Looks(val, cs[p].ask)
    BY <2>1, Seeing
  <2>4. QED BY <1>7, <1>9, <2>2, <2>3 DEF d
<1> DEFINE w == Work(p)
<1>12. /\ w \in AllWork /\ j \in 1..Len(w) /\ Len(w) \in Nat /\ UnitOf(a) # {} /\ Askable(a)
       /\ w = Steps(Fct(a.f)) /\ DOMAIN w = 1..Len(w)
  <2>1. w \in AllWork /\ Len(w) \in Nat /\ DOMAIN w = 1..Len(w)
    BY WorkIs, WorkLength DEF Work
  <2>2. j \in 1..Len(w) + 1 /\ UnitOf(a) # {} /\ Askable(a)
    BY <1>2 DEF Mine
  <2>3. QED BY <1>1, <2>1, <2>2 DEF Work
<1>13. /\ s = "turn" => w = <<"load", "turn">> /\ j = 2
       /\ w = <<"load", "turn">> /\ j = 1 => s = "load"
       /\ w = <<"begin", "end">> /\ j = 1 => s = "begin"
  BY <1>12, StepAt
<1>14. (\E n \in 1..Len(w) : w[n] \in {"put", "end", "whole"}) => Writes(a)
  BY <1>12 DEF Writes
<1>15. Writes(a) => k[1] \notin {"in", "info"}
  BY <1>12, WriteKeys DEF Askable
<1>16. w = <<"load", "turn">> => k[1] = "pins"
  BY <1>12, TurnKeys
<1>17. DOMAIN brd.val = DOMAIN scene.val /\ scene \in Scenes
  BY DEF CgosInv, Shape
<1>18. DOMAIN val = DOMAIN brd.val
  BY DEF val
<1>19. Looks(val, a) = {Level(val, k)}
  <2>1. Known(val, k)
    BY <1>5, <1>18, SameKnown
  <2>2. QED BY <1>12, <2>1 DEF Looks
<1>20. s \in {"load", "get", "fetch", "begin"} => val = brd.val
  BY DEF val
<1>21. s \in {"put", "end", "whole"} => Level(val, k) = ValueOf(a)
  <2> SUFFICES ASSUME s \in {"put", "end", "whole"} PROVE Level(val, k) = ValueOf(a)
    OBVIOUS
  <2>1. k[1] \notin {"in", "info"}
    BY <1>12, <1>14, <1>15
  <2>2. k \in DOMAIN brd.val /\ Level(val, k) = val[k]
    BY <1>5, <2>1, PlainLevel
  <2>3. val[k] = ValueOf(a)
    BY <2>2 DEF val
  <2>4. QED BY <2>2, <2>3
<1>22. Shape'
  <2>1. brd' = [val |-> brd'.val, begun |-> brd'.begun] /\ brd'.val = val /\ brd'.begun = begun
    BY <1>5
  <2>2. call' = [q \in Progs |-> call'[q]]
    BY <1>6, WatchAll
  <2>3. val = [x \in DOMAIN scene.val |-> val[x]]
    BY <1>17 DEF val, CgosInv, Shape
  <2>4. begun = [u \in Units |-> begun[u]]
    BY DEF begun, CgosInv, Shape
  <2>5. QED BY <1>1, <1>17, <2>1, <2>2, <2>3, <2>4 DEF Shape
<1>23. Work(p)' = w /\ OwnKey(call'[p].ask) = k
  BY <1>11 DEF Work
<1>24. ASSUME st = "ok", a.f # "IOIsAvailable" PROVE Done(p)'
  <2>1. Done(p)
    BY <1>2, <1>24 DEF Progress, st
  <2>2. go \in call'[p].seen \/ s \notin {"get", "fetch"}
    BY <1>11, <1>19, <1>20 DEF go
  <2>3. ASSUME NEW n \in 1..j
        PROVE  /\ w[n] \in {"get", "fetch"} /\ k[1] # "info" => go \in call'[p].seen
               /\ w[n] \in {"put", "end", "whole"} => ValueOf(a) \in call'[p].seen
    <3>1. CASE n = j
      BY <1>11, <1>19, <1>21, <2>2, <3>1
    <3>2. CASE n # j
      <4>1. n \in 1..j - 1
        BY <1>12, <3>2
      <4>2. /\ w[n] \in {"get", "fetch"} /\ k[1] # "info" => call[p].got \in call[p].seen
            /\ w[n] \in {"put", "end", "whole"} => ValueOf(a) \in call[p].seen
        BY <2>1, <4>1 DEF Done
      <4>3. s \notin {"get", "fetch"} => go = call[p].got
        BY DEF go
      <4>4. QED BY <1>11, <2>2, <4>2, <4>3
    <3>3. QED BY <3>1, <3>2
  <2>4. call'[p].i - 1 = j
    BY <1>11, <1>12
  <2>5. QED BY <1>11, <1>23, <2>3, <2>4 DEF Done
<1>25. w = <<"load", "turn">> /\ j + 1 = 2 => lo = val[k]
  <2> SUFFICES ASSUME w = <<"load", "turn">>, j = 1 PROVE lo = val[k]
    BY <1>12
  <2>1. s = "load" /\ k[1] = "pins"
    BY <1>13, <1>16
  <2>2. lo = brd.val[k]
    BY <2>1, PlainLevel DEF lo
  <2>3. QED BY <1>20, <2>1, <2>2
<1>26. w = <<"begin", "end">> /\ j + 1 = 2 => begun[k[2]] = p
  <2> SUFFICES ASSUME w = <<"begin", "end">>, j = 1 PROVE begun[k[2]] = p
    BY <1>12
  <2>1. s = "begin" /\ w[2] = "end" /\ 2 \in 1..Len(w)
    BY <1>13
  <2>2. k \in DOMAIN scene.val
    BY <1>5, <1>14, <1>15, <1>17, <2>1, PlainLevel
  <2>3. k[2] \in Units
    BY <1>17, <2>2, CgosAssumption
  <2>4. begun = [brd.begun EXCEPT ![k[2]] = p] /\ k[2] \in DOMAIN brd.begun
    BY <2>1, <2>3 DEF begun, CgosInv, Shape
  <2>5. QED BY <2>4
<1>27. Progress(p)'
  BY <1>5, <1>11, <1>23, <1>24, <1>25, <1>26 DEF Progress
<1>28. call'[p].i \in 1..Len(Work(p)) + 1
  BY <1>11, <1>12
<1>29. QED BY <1>1, <1>10, <1>22, <1>27, <1>28, ServedStep

\* What a call is told that its steps have read or set.
LEMMA EndTruly ==
    ASSUME CgosInv, NEW p \in Progs, call[p].at = "in", call[p].i > Len(Work(p)),
           call[p].status = "ok", Work(p) # <<>>,
           NEW t, t.ask = call[p].ask, t.got = call[p].got, t.seen = call[p].seen
    PROVE  Truly(t)
<1> DEFINE a == call[p].ask
           w == Work(p)
<1>1. Mine(p) /\ Progress(p)
  BY Alone
<1>2. /\ Len(w) \in Nat /\ DOMAIN w = 1..Len(w) /\ w = Steps(Fct(a.f))
  BY WorkLength DEF Work
<1>3. call[p].i - 1 = Len(w)
  BY <1>1, <1>2 DEF Mine
<1>4. CASE a.f = "IOIsAvailable"
  <2>1. OwnKey(a)[1] = "info" /\ w = <<"get">>
    BY <1>2, <1>4, AvailableKey
  <2>2. ~Writes(a)
    BY <1>2, <2>1 DEF Writes
  <2>3. QED BY <2>1, <2>2 DEF Truly
<1>5. CASE a.f # "IOIsAvailable"
  <2>1. Done(p)
    BY <1>1, <1>5 DEF Progress
  <2>2. \A n \in 1..Len(w) :
            /\ w[n] \in {"get", "fetch"} /\ OwnKey(a)[1] # "info" => call[p].got \in call[p].seen
            /\ w[n] \in {"put", "end", "whole"} => ValueOf(a) \in call[p].seen
    BY <1>3, <2>1 DEF Done
  <2>3. Reads(a) => \E n \in 1..Len(w) : w[n] \in {"get", "fetch"}
    BY <1>2 DEF Reads
  <2>4. Writes(a) => \E n \in 1..Len(w) : w[n] \in {"put", "end", "whole"}
    BY <1>2 DEF Writes
  <2>5. /\ Reads(a) /\ OwnKey(a)[1] # "info" => call[p].got \in call[p].seen
        /\ Writes(a) => ValueOf(a) \in call[p].seen
    BY <2>2, <2>3, <2>4
  <2>6. QED BY <2>5 DEF Truly
<1>6. QED BY <1>4, <1>5

LEMMA FinishKeeps == ASSUME CgosInv, NEW p \in Progs, Finish(p) PROVE CgosInv'
<1> DEFINE c == call[p]
           own == StepsOf(p) = <<>>
           answer == Own(c.ask, lib[p].board)
           done == IF own THEN answer # {} ELSE c.status = "ok"
           got == IF own /\ done THEN CHOOSE v \in answer : TRUE ELSE c.got
           ok == done /\ c.ask.f # "CgbcGetInfo" /\ (Fct(c.ask.f) \in ByValue => got # {})
           gives == IF ok THEN got ELSE {}
           okay == ok
           e == Tell(c, okay, gives)
<1>1. /\ call' = [call EXCEPT ![p] = e] /\ c.at = "in" /\ ~Serving(p) /\ sem' = "none"
      /\ UNCHANGED <<scene, cdv, brd>>
  BY DEF Finish
<1>2. call' = [q \in Progs |-> IF q = p THEN e ELSE call[q]]
  BY <1>1 DEF CgosInv, Shape
<1>4. CallFields(e) /\ e.at = "idle"
  BY TellKept
<1>5. ~own => (ok => c.status = "ok" /\ gives = c.got)
  OBVIOUS
<1>6. StepsOf(p) = Work(p) /\ ~(c.i <= Len(Work(p)))
  BY <1>1 DEF Serving, StepsOf, Work
<1> HIDE DEF gives, okay
<1>7. e.told = [ask |-> c.ask, ok |-> okay, got |-> gives, seen |-> c.seen]
  BY TellFields
<1> HIDE DEF e
<1>8. Truly(e.told)
  <2> DEFINE t == e.told
  <2>1. t.ask = c.ask /\ t.ok = okay /\ t.got = gives /\ t.seen = c.seen
    BY <1>7
  <2> HIDE DEF t
  <2>2. CASE own
    <3>1. Steps(Fct(c.ask.f)) = <<>>
      BY <2>2 DEF StepsOf
    <3>2. ~Reads(t.ask) /\ ~Writes(t.ask)
      BY <2>1, <3>1 DEF Reads, Writes
    <3>3. Truly(t)
      BY <3>2 DEF Truly
    <3>4. QED BY <3>3 DEF t
  <2>3. CASE ~own
    <3>1. CASE t.ok
      <4>1. c.status = "ok" /\ gives = c.got
        BY <1>5, <2>1, <2>3, <3>1 DEF okay
      <4>2. Work(p) # <<>> /\ c.i > Len(Work(p))
        <5>1. Mine(p)
          BY <1>1, Alone
        <5>2. c.i \in 1..Len(Work(p)) + 1 /\ Len(Work(p)) \in Nat
          BY <5>1, WorkLength DEF Mine, Work
        <5>3. QED BY <1>6, <2>3, <5>2
      <4>3. Truly(t)
        BY <1>1, <2>1, <4>1, <4>2, EndTruly
      <4>4. QED BY <4>3 DEF t
    <3>2. CASE ~t.ok
      BY <3>2 DEF Truly, t
    <3>3. QED BY <3>1, <3>2
  <2>4. QED BY <2>2, <2>3
<1>9. Shape'
  BY <1>1, <1>2 DEF CgosInv, Shape
<1>10. ASSUME NEW q \in Progs PROVE PInv(q)'
  <2>1. sem' # q
    BY <1>1, CgosAssumption
  <2>2. CASE q = p
    <3>1. call'[q] = e
      BY <1>2, <2>2
    <3>2. QED BY <1>4, <1>8, <2>1, <3>1 DEF PInv, Fresh, FreshCall, Served
  <2>3. CASE q # p
    <3>1. call'[q] = call[q] /\ call[q].at # "in" /\ PInv(q)
      BY <1>1, <1>2, <2>3, Alone DEF CgosInv
    <3>2. QED BY <2>1, <3>1, Waiting
  <2>4. QED BY <2>2, <2>3
<1>11. QED BY <1>9, <1>10 DEF CgosInv

LEMMA DriftKeeps == ASSUME CgosInv, NEW k, Drift(k) PROVE CgosInv'
<1> DEFINE val == [brd.val EXCEPT ![k] = Flip(@, {1})]
<1>1. /\ brd' = [brd EXCEPT !.val[k] = Flip(@, {1})] /\ call' = Watch(call, brd'.val)
      /\ k \in scene.drifts /\ UNCHANGED <<scene, cdv, sem>>
  BY DEF Drift
<1>2. /\ brd' = [val |-> brd'.val, begun |-> brd'.begun] /\ brd'.val = val /\ brd'.begun = brd.begun
  <2>1. brd = [val |-> brd.val, begun |-> brd.begun]
    BY DEF CgosInv, Shape
  <2>2. brd' = [brd EXCEPT !.val = val]
    BY <1>1, <2>1
  <2> HIDE DEF val
  <2>3. QED BY <2>1, <2>2
<1>3. val = [x \in DOMAIN scene.val |-> val[x]] /\ \A x \in DOMAIN scene.val : x # k => val[x] = brd.val[x]
  BY DEF CgosInv, Shape
<1>4. \A x : x # k => val[x] = brd.val[x]
  BY DEF CgosInv, Shape
<1> HIDE DEF val
<1>5. Shape'
  <2>1. call' = [q \in Progs |-> call'[q]]
    BY <1>1, WatchAll
  <2>2. QED BY <1>1, <1>2, <1>3, <2>1 DEF CgosInv, Shape
<1>6. ASSUME NEW q \in Progs PROVE PInv(q)'
  <2> DEFINE c == call[q]
             d == call'[q]
  <2>1. CallFields(c) /\ d = Watch(call, val)[q] /\ PInv(q)
    BY <1>1, <1>2 DEF CgosInv, PInv
  <2>2. /\ CallFields(d) /\ d.at = c.at /\ d.ask = c.ask /\ d.i = c.i /\ d.loc = c.loc
        /\ d.got = c.got /\ d.status = c.status /\ d.told = c.told
    <3> HIDE DEF d
    <3>1. QED BY <2>1, Watching
  <2>3. c.at = "in" => c.seen \subseteq d.seen
    <3> HIDE DEF d
    <3>1. QED BY <2>1, Seeing
  <2>4. c.at = "in" => Mine(q)' /\ Progress(q)'
    <3> SUFFICES ASSUME c.at = "in" PROVE Mine(q)' /\ Progress(q)'
      OBVIOUS
    <3>1. Mine(q) /\ Progress(q)
      BY <2>1 DEF PInv, Served
    <3>2. Mine(q)' /\ Work(q)' = Work(q) /\ OwnKey(d.ask) = OwnKey(c.ask)
      BY <1>1, <2>2, <3>1 DEF Mine, Work
    <3>3. Done(q) => Done(q)'
      BY <2>2, <2>3, <3>2 DEF Done
    <3>4. c.loc = brd.val[OwnKey(c.ask)] \/ OwnKey(c.ask) \in scene.drifts
          => d.loc = val[OwnKey(c.ask)] \/ OwnKey(c.ask) \in scene.drifts
      BY <1>1, <1>4, <2>2
    <3>5. QED BY <1>1, <1>2, <2>2, <3>1, <3>2, <3>3, <3>4 DEF Progress
  <2>5. QED BY <1>1, <2>1, <2>2, <2>4 DEF PInv, Fresh, FreshCall, Served
<1>7. QED BY <1>5, <1>6 DEF CgosInv

-----------------------------------------------------------------------------
(* Every step.                                                             *)

LEMMA QuietKeeps ==
    ASSUME CgosInv, NEW p \in Progs, DriverNext \/ LibUninitialize(p) \/ Judge PROVE CgosInv'
<1>1. UNCHANGED <<scene, brd, cdv, sem, call>>
  BY DEF DriverNext, Load, Stage, StageFails, Boardless, Unload, NoCalls, LibUninitialize, Judge
<1>2. QED BY <1>1, Calm

LEMMA ServeKeeps == ASSUME CgosInv, NEW p \in Progs, Serve(p) PROVE CgosInv'
BY InstalledKeeps, EnterKeeps, RejectKeeps, AgainKeeps, CgebFailsKeeps, CgebKeeps, FinishKeeps DEF Serve

LEMMA CgosKeeps == ASSUME CgosInv, CgosNext PROVE CgosInv'
<1>1. ASSUME NEW p \in scene.free, NEW a \in scene.asks, Issue(p, a) PROVE CgosInv'
  <2>1. p \in Progs /\ Askable(a)
    BY CgosAssumption DEF CgosInv, Shape
  <2>2. QED BY <1>1, <2>1, IssueKeeps
<1>2. ASSUME NEW p \in scene.opens, LibInitialize(p) \/ LibUninitialize(p) \/ LibInstall(p)
      PROVE  CgosInv'
  <2>1. p \in Progs
    BY CgosAssumption DEF CgosInv, Shape
  <2>2. QED BY <1>2, <2>1, InitializeKeeps, InstallKeeps, QuietKeeps
<1>3. DriverNext => CgosInv'
  BY QuietKeeps, ToolAssumption
<1>4. QED BY <1>1, <1>2, <1>3, ServeKeeps, DriftKeeps DEF CgosNext

LEMMA CombinedOnlyReads == ASSUME NEW a, a.f = "I2CWriteReadCombined" PROVE ~Writes(a)
<1>1. "I2CWriteReadCombined" \notin DOMAIN AsksFor
  BY DEF AsksFor
<1>2. Fct(a.f) = "I2CWriteReadCombined"
  BY <1>1 DEF Fct
<1>3. Steps("I2CWriteReadCombined") = <<"begin", "on", "fetch">>
  BY DEF Steps, Thing, Puts
<1>4. QED BY <1>2, <1>3 DEF Writes

LEMMA ShapeAskable ==
    ASSUME NEW f, NEW reg, NEW m, NEW a,
           a = [f |-> f, t |-> 0, i |-> 0, reg |-> reg, m |-> m, fits |-> TRUE],
           reg \notin {"in", "info"} \/ f = "I2CWriteReadCombined"
    PROVE  Askable(a)
<1>1. a = [f |-> a.f, t |-> a.t, i |-> a.i, reg |-> a.reg, m |-> a.m, fits |-> a.fits]
  OBVIOUS
<1>2. a.f = f /\ a.reg = reg
  OBVIOUS
<1>3. Writes(a) => a.reg \notin {"in", "info"}
  BY <1>2, CombinedOnlyReads
<1>4. QED BY <1>1, <1>3 DEF Askable, Question

\* The tool asks what a program may ask.
ToolAsked == {Plain(f) : f \in {"LibInitialize", "LibInstall", "BoardOpen", "BoardClose"}}
             \cup {Write(r, v) : r \in {"cfg0", "cfg1", "out"}, v \in SUBSET Bits} \cup {Combined}

LEMMA ToolAskable == ASSUME NEW i \in DOMAIN ToolCalls PROVE Askable(ToolCalls[i])
<1>1. ToolCalls \in Seq(ToolAsked)
  <2> DEFINE before == <<Plain("LibInitialize"), Plain("LibInstall"), Plain("LibInitialize"),
                         Plain("BoardOpen"), Write("cfg0", Bits), Write("cfg1", {})>>
             after == <<Combined, Plain("BoardClose")>>
  <2>1. before \in Seq(ToolAsked)
    BY DEF ToolAsked
  <2>2. after \in Seq(ToolAsked)
    BY DEF ToolAsked
  <2>3. Drive \in Seq(ToolAsked)
    <3>1. Bits = 1..2 /\ 2 \in Nat
      BY DEF Bits
    <3>2. Drive \in [1..2 -> ToolAsked]
      BY <3>1 DEF Drive, ToolAsked
    <3> HIDE DEF ToolAsked, Drive
    <3>3. \A S, f : f \in [1..2 -> S] => f \in Seq(S)
      OBVIOUS
    <3>4. QED BY <3>2, <3>3
  <2> HIDE DEF before, after
  <2>4. before \o Drive \o after \in Seq(ToolAsked)
    BY <2>1, <2>2, <2>3
  <2>5. QED BY <2>4 DEF ToolCalls, before, after
<1>2. ToolCalls[i] \in ToolAsked
  BY <1>1
<1>3. ASSUME NEW a \in ToolAsked PROVE Askable(a)
  <2>1. ASSUME NEW f, a = Plain(f) PROVE Askable(a)
    <3>1. a = [f |-> f, t |-> 0, i |-> 0, reg |-> "none", m |-> NoAsk.m, fits |-> TRUE]
      BY <2>1 DEF Plain, Question
    <3>2. QED BY <3>1, ShapeAskable
  <2>2. ASSUME NEW r \in {"cfg0", "cfg1", "out"}, NEW v, a = Write(r, v) PROVE Askable(a)
    <3>1. a = [f |-> "I2CWrite", t |-> 0, i |-> 0, reg |-> r, m |-> <<v, {}, {}>>, fits |-> TRUE]
      BY <2>2 DEF Write, Question
    <3>2. QED BY <3>1, ShapeAskable
  <2>3. ASSUME a = Combined PROVE Askable(a)
    <3>1. a = [f |-> "I2CWriteReadCombined", t |-> 0, i |-> 0, reg |-> "in", m |-> NoAsk.m, fits |-> TRUE]
      BY <2>3 DEF Combined, Question
    <3>2. QED BY <3>1, ShapeAskable
  <2>4. QED BY <2>1, <2>2, <2>3 DEF ToolAsked
<1>4. QED BY <1>2, <1>3

LEMMA ToolKeeps == ASSUME CgosInv, ToolAsks PROVE CgosInv'
<1>1. LibInitialize(Tool) \/ LibInstall(Tool) \/ Issue(Tool, ToolCalls[gpio.at])
  BY DEF ToolAsks
<1>2. Askable(ToolCalls[gpio.at])
  BY ToolAskable DEF ToolAsks
<1>3. QED BY <1>1, <1>2, ToolAssumption, InitializeKeeps, InstallKeeps, IssueKeeps

LEMMA GpioKeeps == CgosInv /\ [GpioNext]_gpioVars => CgosInv'
<1> SUFFICES ASSUME CgosInv, [GpioNext]_gpioVars PROVE CgosInv'
  OBVIOUS
<1>1. CASE StartTool \/ ToolGoesOn \/ UNCHANGED gpioVars
  <2>1. UNCHANGED cgosVars
    BY <1>1 DEF StartTool, ToolGoesOn, gpioVars
  <2>2. QED BY <2>1, Calm DEF cgosVars
<1>2. QED BY <1>1, ToolKeeps, CgosKeeps, QuietKeeps, ToolAssumption DEF GpioNext

\* A call that succeeds was told what the thing it asked for was during the call,
\* and set what it set then, however many programs ask at the same time and
\* whatever fails: no request finds another's data in the driver's variables.
\* (CallDrvPlain, CallDrvStruct, cgos_ioctl, UlaDeviceIoControl)
THEOREM LibraryTold == GpioSpec => []CgosTold
<1>1. GpioInit => CgosInv
  BY Initially DEF GpioInit
<1>2. CgosInv => CgosTold
  BY DEF CgosInv, PInv, Truly, CgosTold
<1>3. QED BY <1>1, <1>2, GpioKeeps, PTL DEF GpioSpec

-----------------------------------------------------------------------------
(* What the board obeys.                                                   *)

\* The value a request being served sets is the one it asks for, of the thing
\* it asks for.
LEMMA CgebObeys ==
    ASSUME CgosInv, NEW p \in Progs, NEW less \in BOOLEAN, Cgeb(p, less),
           NEW k \in DOMAIN brd.val, brd.val'[k] # brd.val[k]
    PROVE  k \in scene.drifts \/ ObeysOf(p, k)
<1> DEFINE a == call[p].ask
           j == call[p].i
           w == Work(p)
           s == w[j]
           o == OwnKey(a)
           turned == Flip(Flip(call[p].loc, a.m[1]) \cap a.m[2], a.m[3])
           val == CASE s = "turn" -> [brd.val EXCEPT ![o] = turned]
                    [] s \in {"put", "end", "whole"} -> [brd.val EXCEPT ![o] = ValueOf(a)]
                    [] OTHER -> brd.val
<1>1. call[p].at = "in" /\ j <= Len(w)
  BY DEF Cgeb, Serving, StepsOf, Work
<1>2. Mine(p) /\ Progress(p)
  BY <1>1 DEF CgosInv, PInv, Served
<1>3. brd'.val = val
  BY <1>2, AskedOnly DEF Cgeb, StepsOf, Work
<1>4. /\ w \in AllWork /\ j \in 1..Len(w) /\ Len(w) \in Nat /\ w = Steps(Fct(a.f))
      /\ DOMAIN w = 1..Len(w)
  <2>1. w \in AllWork /\ Len(w) \in Nat /\ DOMAIN w = 1..Len(w)
    BY WorkIs, WorkLength DEF Work
  <2>2. QED BY <1>1, <1>2, <2>1 DEF Mine, Work
<1>5. val[k] # brd.val[k]
  BY <1>3
<1>6. \/ s = "turn" /\ k = o /\ val[k] = turned
      \/ s \in {"put", "end", "whole"} /\ k = o /\ val[k] = ValueOf(a)
  BY <1>5
<1> HIDE DEF val, turned
<1>7. CASE s = "turn"
  <2>1. w = <<"load", "turn">> /\ j = 2
    BY <1>4, <1>7, StepAt
  <2>2. Fct(a.f) = "IOXorAndXor" /\ a.f # "I2CWrite"
    BY <1>4, <2>1, TurnKeys, Plainly DEF Fct
  <2>3. k \in scene.drifts \/ call[p].loc = brd.val[k]
    BY <1>2, <1>6, <1>7, <2>1 DEF Progress, Work
  <2>4. val[k] = turned
    BY <1>6, <1>7
  <2>5. QED BY <1>1, <1>3, <1>6, <2>2, <2>3, <2>4 DEF ObeysOf, turned
<1>8. CASE s # "turn"
  <2>1. s \in {"put", "end", "whole"} /\ k = o /\ val[k] = ValueOf(a)
    BY <1>6, <1>8
  <2>2. Writes(a)
    BY <1>4, <2>1 DEF Writes
  <2>3. Fct(a.f) # "IOXorAndXor"
    <3>1. Steps("IOXorAndXor") = <<"load", "turn">>
      BY DEF Steps, Thing, Puts
    <3>2. QED BY <1>4, <2>1, <3>1
  <2>4. a.f = "I2CWrite" => brd.begun[k[2]] = p
    <3> SUFFICES ASSUME a.f = "I2CWrite" PROVE brd.begun[k[2]] = p
      OBVIOUS
    <3>1. w = <<"begin", "end">>
      BY <1>4, WriteWork
    <3>2. j = 2
      BY <1>4, <2>1, <3>1
    <3>3. QED BY <1>2, <2>1, <3>1, <3>2 DEF Progress, Work
  <2>5. QED BY <1>1, <1>3, <2>1, <2>2, <2>3, <2>4 DEF ObeysOf
<1>9. QED BY <1>7, <1>8

LEMMA OnlyServed ==
    ASSUME NEW k \in DOMAIN brd.val, GpioNext, brd.val'[k] # brd.val[k]
    PROVE  (\E p \in Progs, less \in BOOLEAN : Cgeb(p, less)) \/ k \in scene.drifts
<1>1. ASSUME NEW p, Serve(p), brd' # brd PROVE \E less \in BOOLEAN : Cgeb(p, less)
  BY <1>1 DEF Serve, Installed, Enter, Reject, Again, CgebFails, Finish
<1>2. ASSUME NEW p, NEW a, Issue(p, a) PROVE brd' = brd
  BY <1>2 DEF Issue
<1>3. ASSUME NEW p, LibInitialize(p) \/ LibUninitialize(p) \/ LibInstall(p) PROVE brd' = brd
  BY <1>3 DEF LibInitialize, LibUninitialize, LibInstall
<1>4. DriverNext => brd' = brd
  BY DEF DriverNext, Load, Stage, StageFails, Boardless, Unload, NoCalls
<1>5. ASSUME NEW d, Drift(d) PROVE k \in scene.drifts
  <2>1. CASE k = d
    BY <1>5, <2>1 DEF Drift
  <2>2. CASE k # d
    <3>1. brd' = [brd EXCEPT !.val[d] = Flip(@, {1})]
      BY <1>5 DEF Drift
    <3>2. brd'.val[k] = brd.val[k]
      BY <2>2, <3>1
    <3>3. QED BY <3>2
  <2>3. QED BY <2>1, <2>2
<1>6. StartTool \/ ToolGoesOn \/ Judge => brd' = brd
  BY DEF StartTool, ToolGoesOn, Judge, cgosVars
<1>7. ToolAsks => brd' = brd
  BY <1>2, <1>3 DEF ToolAsks
<1>8. CgosNext => (\E p \in Progs, less \in BOOLEAN : Cgeb(p, less)) \/ k \in scene.drifts
  BY <1>1, <1>2, <1>3, <1>4, <1>5 DEF CgosNext
<1>9. QED BY <1>6, <1>7, <1>8 DEF GpioNext

\* No request reaches another thing of the board than the one it asks for, sets
\* another value, turns pins from what they were before someone else set them,
\* or goes on with a transfer begun by another.  (UlaDeviceIoControl,
\* zCgosIOXorAndXor, I2CTransfer)
THEOREM BoardObeys == GpioSpec => CgosObeyed
<1>1. GpioInit => CgosInv
  BY Initially DEF GpioInit
<1>2. CgosInv /\ [GpioNext]_gpioVars =>
         [\A k \in DOMAIN brd.val : brd.val'[k] # brd.val[k] =>
             k \in scene.drifts \/ \E p \in Progs : ObeysOf(p, k)]_cgosVars
  <2> SUFFICES ASSUME CgosInv, [GpioNext]_gpioVars, cgosVars' # cgosVars,
                      NEW k \in DOMAIN brd.val, brd.val'[k] # brd.val[k]
               PROVE  k \in scene.drifts \/ \E p \in Progs : ObeysOf(p, k)
    OBVIOUS
  <2>1. GpioNext
    BY DEF gpioVars
  <2>2. QED BY <2>1, OnlyServed, CgebObeys
<1>3. QED BY <1>1, <1>2, GpioKeeps, PTL DEF GpioSpec, CgosObeyed
=============================================================================
