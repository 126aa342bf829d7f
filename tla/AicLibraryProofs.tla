---------------------------- MODULE AicLibraryProofs ----------------------------
(***************************************************************************)
(* What the library keeps true, for any number of programs, any calls with *)
(* any arguments, any boards, any registers to start with and any faults:  *)
(* what counting the card's ports leaves behind, then the whole library.   *)
(***************************************************************************)
EXTENDS AicLibrary, TLAPS

\* Behind the read of the counts; and where a count is under way.
Behind == {"askinfo", "info", "group"}
Counting == {"privilege", "select", "flash"} \cup Behind

\* The counts of p are the board's.
Right(p) == /\ lib[p].cnt[Main] = board.main /\ lib[p].setcom = board.com
            /\ lib[p].usb = board.usb /\ lib[p].fan = board.fan

\* Counting needs the identity; counts read without an error are the board's,
\* and so is what a program has settled on, which then counts no more.
Honest(p) ==
    /\ pc[p] \in Counting => lib[p].id
    /\ pc[p] \in Behind /\ ~err[p] => Right(p) /\ lib[p].det
    /\ pc[p] = "group" => board.groups
    /\ pc[p] \in {"vers", "more"} => op[p] \in {"GetFW", "GetBootLoad"}
    /\ lib[p].poe => lib[p].cnt[Pcie] = board.pcie /\ board.groups
    /\ Known(p) => Right(p) /\ lib[p].det /\ lib[p].id /\ pc[p] \notin Counting \cup {"efcoid"}

\* A program that has the AIC for itself is answered what it has asked for; and
\* one that makes no calls learns nothing.
Sole(p) == /\ Who[scene] = {p} => /\ pc[p] = "info" /\ ~err[p] => poeinfo = Get
                                  /\ Known(p) => (lib[p].poe <=> board.groups)
           /\ p \notin Who[scene] => pc[p] = "idle" /\ ~Known(p)

\* The types, but for POEINFO's, which the PoE calls write too.
Types == /\ scene \in Scenes /\ board \in AllBoards
         /\ lib \in [Procs -> Statics] /\ op \in [Procs -> Calls \cup {"none"}]
         /\ err \in [Procs -> BOOLEAN]
         /\ ret \in [Procs -> {"none", "true", "false"}] /\ faults \in 0..MaxFaults[scene]
         /\ pc = [p \in Procs |-> pc[p]]

CountsInv == /\ Types
             /\ \A p \in Procs : Honest(p) /\ Sole(p)

-----------------------------------------------------------------------------
LEMMA CountsInitial == CountsInit => CountsInv
<1> SUFFICES ASSUME CountsInit PROVE CountsInv
  OBVIOUS
<1>1. Unknown \in Statics
  BY CountsAssumption DEF Unknown, Statics, Groups
<1>2. board \in AllBoards /\ 0 \in 0..MaxFaults[scene]
  BY CountsAssumption DEF CountsInit
<1>3. Types
  BY <1>1, <1>2 DEF CountsInit, Types
<1>5. ASSUME NEW p \in Procs PROVE Honest(p) /\ Sole(p)
  <2>1. pc[p] = "idle" /\ lib[p] = Unknown
    BY DEF CountsInit
  <2>2. ~Unknown.poe /\ ~(Unknown.bound[Main] > 0)
    BY DEF Unknown, Main, Groups
  <2>3. QED BY <2>1, <2>2 DEF Honest, Sole, Known, Counting, Behind
<1>4. QED BY <1>3, <1>5 DEF CountsInv

(* A step of one program leaves the others and the board alone. *)
Mine(p) ==
    /\ scene' = scene /\ board' = board
    /\ lib' = [lib EXCEPT ![p] = lib'[p]]
    /\ pc' = [pc EXCEPT ![p] = pc'[p]]
    /\ op' = [op EXCEPT ![p] = op'[p]]
    /\ err' = [err EXCEPT ![p] = err'[p]]
    /\ ret' = [ret EXCEPT ![p] = ret'[p]]

LEMMA OneMoves ==
    ASSUME CountsInv, NEW p \in Procs, p \in Who[scene], Mine(p),
           lib'[p] \in Statics, op'[p] \in Calls \cup {"none"},
           err'[p] \in BOOLEAN, ret'[p] \in {"none", "true", "false"},
           faults' \in 0..MaxFaults[scene], Honest(p)', Sole(p)'
    PROVE  CountsInv'
<1>1. Types'
  BY DEF CountsInv, Types, Mine
<1>3. ASSUME NEW q \in Procs, q # p PROVE Honest(q)' /\ Sole(q)'
  <2>1. /\ lib'[q] = lib[q] /\ pc'[q] = pc[q] /\ op'[q] = op[q] /\ err'[q] = err[q]
        /\ board' = board
    BY <1>3 DEF Mine, CountsInv, Types
  <2>2. Honest(q)'
    BY <2>1 DEF CountsInv, Honest, Known, Right
  <2>3. Sole(q)'
    BY <1>3, <2>1 DEF CountsInv, Sole, Known, Mine
  <2>4. QED BY <2>2, <2>3
<1>4. QED BY <1>1, <1>3 DEF CountsInv

-----------------------------------------------------------------------------
(* What the building blocks of the actions do to the program that moves.   *)

LEMMA FirstStepPlace ==
    ASSUME NEW o
    PROVE  /\ FirstStep(o) \notin Behind \cup {"select", "flash", "idle", "efcoid", "more"}
           /\ FirstStep(o) = "vers" => o \in {"GetFW", "GetBootLoad"}
BY DEF FirstStep, Counting, Behind

LEMMA Returns ==
    ASSUME CountsInv, NEW p \in Procs, NEW ok \in BOOLEAN, NEW l,
           Return(p, ok), Learn(p, l), scene' = scene, board' = board
    PROVE  /\ Mine(p) /\ pc'[p] = "idle" /\ op'[p] = op[p] /\ lib'[p] = l
           /\ err'[p] \in BOOLEAN /\ ret'[p] \in {"none", "true", "false"}
BY DEF Return, Learn, Goto, SetErr, Mine, CountsInv, Types

LEMMA Continues ==
    ASSUME CountsInv, NEW p \in Procs, NEW x, NEW l,
           NEW e \in BOOLEAN, Continue(p, x), Learn(p, l), SetErr(p, e),
           scene' = scene, board' = board
    PROVE  /\ Mine(p) /\ pc'[p] = x /\ op'[p] = op[p] /\ lib'[p] = l
           /\ err'[p] = e /\ ret'[p] \in {"none", "true", "false"}
BY DEF Continue, Learn, Goto, SetErr, Mine, CountsInv, Types

\* A step that fails is one fault more, within the bound.
LEMMA ReadBounded ==
    ASSUME Types, NEW ok \in BOOLEAN, Read(ok)
    PROVE  /\ faults' \in 0..MaxFaults[scene] /\ board' = board
           /\ poeinfo' = poeinfo
BY CountsAssumption DEF Types, Read

LEMMA WriteBounded ==
    ASSUME Types, NEW ok \in BOOLEAN, NEW x, WriteInfo(ok, x)
    PROVE  /\ faults' \in 0..MaxFaults[scene] /\ board' = board
           /\ (ok => poeinfo' = x)
BY CountsAssumption DEF Types, WriteInfo

\* UNCHANGED, as the building blocks have it.
LEMMA Same ==
    ASSUME Types, NEW p \in Procs
    PROVE  /\ UNCHANGED lib => Learn(p, lib[p])
           /\ UNCHANGED err => SetErr(p, err[p])
BY DEF Types, Learn, SetErr

-----------------------------------------------------------------------------
(* The actions.                                                            *)

LEMMA EnterStep ==
    ASSUME CountsInv, NEW p \in Procs, p \in Who[scene], NEW o \in Calls, NEW x,
           scene' = scene, Enter(p, o, x),
           x \notin Behind \cup {"select", "flash", "idle", "more"},
           x = "vers" => o \in {"GetFW", "GetBootLoad"},
           x = "privilege" => lib[p].id,
           Known(p) => x \notin {"privilege", "efcoid"}
    PROVE  CountsInv'
<1>1. /\ Mine(p) /\ lib'[p] = lib[p] /\ op'[p] = o /\ pc'[p] \in {"idle", x}
      /\ err'[p] \in BOOLEAN /\ ret'[p] \in {"none", "true", "false"}
  BY DEF Enter, Goto, SetErr, Mine, CountsInv, Types
<1>3. Honest(p)'
  BY <1>1 DEF Enter, CountsInv, Honest, Known, Right, Counting, Behind
<1>4. Sole(p)'
  BY <1>1 DEF Enter, Mine, CountsInv, Sole, Known, Behind
<1>5. QED
  BY <1>1, <1>3, <1>4, OneMoves, CountsAssumption DEF Enter, CountsInv, Types

LEMMA QueryStepKeeps ==
    ASSUME CountsInv, NEW p \in Procs, p \in Who[scene], NEW o \in Queries, scene' = scene, Query(p, o)
    PROVE  CountsInv'
<1>1. CASE Cached(lib[p], o)
  <2>1. Hit(p, o)
    BY <1>1 DEF Query
  <2>2. /\ Mine(p) /\ lib'[p] = lib[p] /\ op'[p] = o /\ pc'[p] = "idle"
        /\ err'[p] = FALSE /\ ret'[p] = "true"
    BY <2>1 DEF Hit, SetErr, Mine, CountsInv, Types
  <2>4. Honest(p)'
    BY <2>1, <2>2 DEF Hit, CountsInv, Honest, Known, Right, Counting, Behind
  <2>5. Sole(p)'
    BY <2>1, <2>2 DEF Hit, CountsInv, Sole, Known
  <2>6. o \in Calls
    BY DEF Calls
  <2>7. QED
    BY <2>1, <2>2, <2>4, <2>5, <2>6, OneMoves, CountsAssumption
    DEF Hit, CountsInv, Types
<1>2. CASE ~Cached(lib[p], o)
  <2> DEFINE x == IF lib[p].id THEN FirstStep(o) ELSE "efcoid"
  <2>1. Enter(p, o, x)
    BY <1>2 DEF Query
  <2>2. FirstStep(o) = "privilege" => o \in {"GetID", "AICVerify"}
    BY DEF FirstStep, Queries
  <2>3. Known(p) => lib[p].id
    BY DEF CountsInv, Honest
  <2>4. lib[p].id => x # "privilege"
    BY <1>2, <2>2 DEF Cached
  <2>5. x \notin Behind \cup {"select", "flash", "idle", "more"}
        /\ (x = "vers" => o \in {"GetFW", "GetBootLoad"}) /\ (lib[p].id => x # "efcoid")
    BY FirstStepPlace DEF Behind
  <2>6. o \in Calls
    BY DEF Calls
  <2> HIDE DEF x
  <2>7. x = "privilege" => lib[p].id
    BY DEF x
  <2>8. QED BY <2>1, <2>3, <2>4, <2>5, <2>6, <2>7, EnterStep
<1>3. QED BY <1>1, <1>2

LEMMA CountOnlyKeeps ==
    ASSUME CountsInv, NEW p \in Procs, p \in Who[scene], scene' = scene, CountOnly(p)
    PROVE  CountsInv'
<1> DEFINE x == CountEntry(lib[p])
<1>1. Enter(p, "GetCount", x) /\ "GetCount" \in Calls
  BY DEF CountOnly, Calls, PoeCalls, PoeCounts
<1>2. Known(p) => lib[p].det /\ lib[p].id
  BY DEF CountsInv, Honest
<1>3. x \in {"args", "efcoid", "privilege"} /\ (x = "privilege" => lib[p].id)
      /\ (lib[p].det /\ lib[p].id => x = "args")
  BY DEF CountEntry
<1> HIDE DEF x
<1>4. QED BY <1>1, <1>2, <1>3, EnterStep DEF Counting, Behind

LEMMA EfcoIdKeeps ==
    ASSUME CountsInv, NEW p \in Procs, p \in Who[scene], NEW ok \in BOOLEAN, scene' = scene, EfcoId(p, ok)
    PROVE  CountsInv'
<1> DEFINE l == IF ~ok THEN lib[p]
                ELSE [lib[p] EXCEPT !.id = TRUE, !.mini = IF op[p] = "GetID" THEN @ ELSE 3]
<1>1. pc[p] = "efcoid" /\ Read(ok) /\ Learn(p, l)
  BY DEF EfcoId
<1>2. /\ faults' \in 0..MaxFaults[scene] /\ board' = board /\ board \in AllBoards
      /\ op[p] \in Calls \cup {"none"} /\ err[p] \in BOOLEAN
  BY <1>1, ReadBounded DEF CountsInv, Types
<1>3. lib[p] \in Statics
  BY DEF CountsInv, Types
<1>4. /\ l \in Statics /\ l.bound = lib[p].bound /\ l.cnt = lib[p].cnt
      /\ l.poe = lib[p].poe /\ (ok => l.id)
  BY <1>3 DEF Statics
<1>5. lib[p].poe => lib[p].cnt[Pcie] = board.pcie /\ board.groups
  BY DEF CountsInv, Honest
<1>6. ~Known(p)
  BY <1>1 DEF CountsInv, Honest
<1>7. CASE ok /\ op[p] \notin {"GetID", "AICVerify"}
  <2> DEFINE x == FirstStep(op[p])
  <2>1. Continue(p, x) /\ SetErr(p, err[p])
    BY <1>7, Same DEF EfcoId, CountsInv
  <2>2. /\ x \notin Behind \cup {"select", "flash", "idle", "efcoid", "more"}
        /\ (x = "vers" => op[p] \in {"GetFW", "GetBootLoad"})
    BY FirstStepPlace
  <2> HIDE DEF x, l
  <2>3. /\ Mine(p) /\ pc'[p] = x /\ op'[p] = op[p] /\ lib'[p] = l
        /\ err'[p] = err[p] /\ ret'[p] \in {"none", "true", "false"}
    BY <1>1, <1>2, <2>1, Continues
  <2>4. Honest(p)' /\ Sole(p)'
    BY <1>2, <1>4, <1>5, <1>6, <1>7, <2>2, <2>3
    DEF Honest, Sole, Known, Right, Counting, Behind
  <2>5. QED BY <1>2, <1>4, <2>2, <2>3, <2>4, OneMoves
<1>8. CASE ~(ok /\ op[p] \notin {"GetID", "AICVerify"})
  <2>1. Return(p, ok)
    BY <1>8 DEF EfcoId
  <2> HIDE DEF l
  <2>2. /\ Mine(p) /\ pc'[p] = "idle" /\ op'[p] = op[p] /\ lib'[p] = l
        /\ err'[p] \in BOOLEAN /\ ret'[p] \in {"none", "true", "false"}
    BY <1>1, <1>2, <2>1, Returns
  <2>3. Honest(p)' /\ Sole(p)'
    BY <1>2, <1>4, <1>5, <1>6, <2>2 DEF Honest, Sole, Known, Right, Counting, Behind
  <2>4. QED BY <1>2, <1>4, <2>2, <2>3, OneMoves
<1>9. QED BY <1>7, <1>8

\* A step that leaves the counts alone, outside counting.
LEMMA Aside ==
    ASSUME CountsInv, NEW p \in Procs, p \in Who[scene], Mine(p),
           pc'[p] \in {"idle", "args", "more"}, op'[p] = op[p],
           pc'[p] = "more" => op[p] \in {"GetFW", "GetBootLoad"},
           err'[p] \in BOOLEAN, ret'[p] \in {"none", "true", "false"},
           faults' \in 0..MaxFaults[scene],
           NEW l \in Statics, lib'[p] = l,
           l.bound = lib[p].bound, l.cnt = lib[p].cnt, l.poe = lib[p].poe, l.det = lib[p].det,
           l.setcom = lib[p].setcom, l.usb = lib[p].usb, l.fan = lib[p].fan, l.id = lib[p].id
    PROVE  CountsInv'
<1>1. board' = board /\ scene' = scene
  BY DEF Mine
<1>2. Honest(p)'
  BY <1>1 DEF CountsInv, Honest, Known, Right, Counting, Behind
<1>3. Sole(p)'
  BY <1>1 DEF CountsInv, Sole, Known
<1>4. op'[p] \in Calls \cup {"none"}
  BY DEF CountsInv, Types
<1>5. QED BY <1>2, <1>3, <1>4, OneMoves

LEMMA BoardIdKeeps ==
    ASSUME CountsInv, NEW p \in Procs, p \in Who[scene], NEW ok \in BOOLEAN, scene' = scene, BoardId(p, ok)
    PROVE  CountsInv'
<1> DEFINE l == [lib[p] EXCEPT !.board = ok]
<1>1. pc[p] = "board" /\ Read(ok) /\ Learn(p, l) /\ Return(p, ok)
  BY DEF BoardId
<1>2. lib[p] \in Statics
  BY DEF CountsInv, Types
<1>3. /\ l \in Statics
      /\ l.bound = lib[p].bound /\ l.cnt = lib[p].cnt /\ l.poe = lib[p].poe /\ l.det = lib[p].det
      /\ l.setcom = lib[p].setcom /\ l.usb = lib[p].usb /\ l.fan = lib[p].fan /\ l.id = lib[p].id
  BY <1>2 DEF Statics
<1> HIDE DEF l
<1>4. QED BY <1>1, <1>3, ReadBounded, Returns, Aside DEF CountsInv

LEMMA VersKeeps ==
    ASSUME CountsInv, NEW p \in Procs, p \in Who[scene], NEW ok \in BOOLEAN, scene' = scene, Vers(p, ok)
    PROVE  CountsInv'
<1>1. /\ pc[p] = "vers" /\ Read(ok) /\ op[p] \in {"GetFW", "GetBootLoad"}
      /\ lib[p] \in Statics /\ err[p] \in BOOLEAN
  BY DEF Vers, CountsInv, Honest, Types
<1>2. CASE ok /\ board.vers > 0
  <2> DEFINE l == [lib[p] EXCEPT ![op[p]] = 1]
  <2>1. Learn(p, l) /\ Continue(p, "more") /\ SetErr(p, err[p])
    BY <1>2, Same DEF Vers, CountsInv
  <2>2. /\ l \in Statics
        /\ l.bound = lib[p].bound /\ l.cnt = lib[p].cnt /\ l.poe = lib[p].poe /\ l.det = lib[p].det
        /\ l.setcom = lib[p].setcom /\ l.usb = lib[p].usb /\ l.fan = lib[p].fan /\ l.id = lib[p].id
    <3>1. CASE op[p] = "GetFW"
      BY <1>1, <3>1 DEF Statics
    <3>2. CASE op[p] = "GetBootLoad"
      BY <1>1, <3>2 DEF Statics
    <3>3. QED BY <1>1, <3>1, <3>2
  <2> HIDE DEF l
  <2>3. QED BY <1>1, <2>1, <2>2, ReadBounded, Continues, Aside DEF CountsInv
<1>3. CASE ~(ok /\ board.vers > 0)
  <2>1. Learn(p, lib[p]) /\ Return(p, FALSE)
    BY <1>3 DEF Vers
  <2>2. QED BY <1>1, <2>1, ReadBounded, Returns, Aside DEF CountsInv
<1>4. QED BY <1>2, <1>3

LEMMA VersMoreKeeps ==
    ASSUME CountsInv, NEW p \in Procs, p \in Who[scene], NEW ok \in BOOLEAN, scene' = scene, VersMore(p, ok)
    PROVE  CountsInv'
<1> DEFINE l == [lib[p] EXCEPT ![op[p]] = IF ok THEN board.vers ELSE @]
<1>1. /\ pc[p] = "more" /\ Read(ok) /\ Learn(p, l) /\ Return(p, TRUE)
  BY DEF VersMore
<1>2. /\ op[p] \in {"GetFW", "GetBootLoad"} /\ lib[p] \in Statics /\ board.vers \in {0, 2}
  BY <1>1 DEF CountsInv, Honest, Types, AllBoards
<1>3. /\ l \in Statics
      /\ l.bound = lib[p].bound /\ l.cnt = lib[p].cnt /\ l.poe = lib[p].poe /\ l.det = lib[p].det
      /\ l.setcom = lib[p].setcom /\ l.usb = lib[p].usb /\ l.fan = lib[p].fan /\ l.id = lib[p].id
  <2>1. CASE op[p] = "GetFW"
    BY <1>2, <2>1 DEF Statics
  <2>2. CASE op[p] = "GetBootLoad"
    BY <1>2, <2>2 DEF Statics
  <2>3. QED BY <1>2, <2>1, <2>2
<1> HIDE DEF l
<1>4. board' = board /\ faults' \in 0..MaxFaults[scene]
  BY <1>1, ReadBounded DEF CountsInv
<1>5. /\ Mine(p) /\ pc'[p] = "idle" /\ op'[p] = op[p] /\ lib'[p] = l
      /\ err'[p] \in BOOLEAN /\ ret'[p] \in {"none", "true", "false"}
  BY <1>1, <1>4, Returns
<1>6. QED BY <1>3, <1>4, <1>5, Aside

LEMMA TemperatureKeeps ==
    ASSUME CountsInv, NEW p \in Procs, p \in Who[scene], NEW ok \in BOOLEAN, scene' = scene, Temperature(p, ok)
    PROVE  CountsInv'
<1>1. pc[p] = "temp" /\ Read(ok) /\ Learn(p, lib[p]) /\ Return(p, ok) /\ lib[p] \in Statics
  BY Same DEF Temperature, CountsInv, Types
<1>2. QED BY <1>1, ReadBounded, Returns, Aside DEF CountsInv

LEMMA CountDoneKeeps ==
    ASSUME CountsInv, NEW p \in Procs, p \in Who[scene], scene' = scene, CountDone(p)
    PROVE  CountsInv'
<1> DEFINE l == Detected(lib[p])
<1>1. /\ pc[p] = "args" /\ op[p] = "GetCount" /\ Learn(p, l) /\ UNCHANGED <<board, poeinfo, faults>>
      /\ Return(p, HasHW(lib[p]))
  BY DEF CountDone
<1>2. lib[p] \in Statics /\ faults \in 0..MaxFaults[scene]
  BY DEF CountsInv, Types
<1>3. /\ l \in Statics
      /\ l.bound = lib[p].bound /\ l.cnt = lib[p].cnt /\ l.poe = lib[p].poe /\ l.det = lib[p].det
      /\ l.setcom = lib[p].setcom /\ l.usb = lib[p].usb /\ l.fan = lib[p].fan /\ l.id = lib[p].id
  BY <1>2 DEF Statics, Detected
<1>4. HasHW(lib[p]) \in BOOLEAN
  BY Zenon DEF HasHW
<1> HIDE DEF l
<1>5. board' = board /\ faults' \in 0..MaxFaults[scene]
  BY <1>1, <1>2
<1>6. /\ Mine(p) /\ pc'[p] = "idle" /\ op'[p] = op[p] /\ lib'[p] = l
      /\ err'[p] \in BOOLEAN /\ ret'[p] \in {"none", "true", "false"}
  BY <1>1, <1>4, <1>5, Returns
<1>7. QED BY <1>3, <1>5, <1>6, Aside

-----------------------------------------------------------------------------
(* Counting.                                                               *)

\* A step of a count on to the next transfer.
LEMMA Ahead ==
    ASSUME CountsInv, NEW p \in Procs, p \in Who[scene], pc[p] \in Counting,
           NEW x \in {"select", "flash", "askinfo", "info", "group"}, NEW l \in Statics,
           NEW e \in BOOLEAN, Continue(p, x), Learn(p, l), SetErr(p, e), scene' = scene,
           board' = board, faults' \in 0..MaxFaults[scene],
           l.bound = lib[p].bound, l.poe = lib[p].poe, l.cnt[Pcie] = lib[p].cnt[Pcie],
           l.id = lib[p].id,
           x \in Behind /\ ~e => /\ l.cnt[Main] = board.main /\ l.setcom = board.com
                                /\ l.usb = board.usb /\ l.fan = board.fan /\ l.det,
           x = "info" /\ ~e => poeinfo' = Get,
           x = "group" => board.groups
    PROVE  CountsInv'
<1>1. /\ pc[p] # "idle" /\ ~Known(p) /\ lib[p].id
      /\ (lib[p].poe => lib[p].cnt[Pcie] = board.pcie /\ board.groups)
  BY DEF CountsInv, Honest, Counting, Behind
<1>2. /\ Mine(p) /\ pc'[p] = x /\ op'[p] = op[p] /\ lib'[p] = l
      /\ err'[p] = e /\ ret'[p] \in {"none", "true", "false"}
  BY <1>1, Continues
<1>3. ~Known(p)'
  BY <1>1, <1>2 DEF Known
<1>4. Honest(p)'
  BY <1>1, <1>2, <1>3 DEF Honest, Right, Counting, Behind
<1>5. Sole(p)'
  BY <1>1, <1>2, <1>3 DEF Sole
<1>6. op'[p] \in Calls \cup {"none"}
  BY <1>2 DEF CountsInv, Types
<1>7. QED BY <1>2, <1>4, <1>5, <1>6, OneMoves

LEMMA PrivilegeKeeps ==
    ASSUME CountsInv, NEW p \in Procs, p \in Who[scene], NEW ok \in BOOLEAN, scene' = scene, Privilege(p, ok)
    PROVE  CountsInv'
<1> DEFINE x == IF ok THEN "select" ELSE "askinfo"
<1>1. pc[p] \in Counting /\ Read(ok) /\ SetErr(p, ~ok) /\ Continue(p, x) /\ Learn(p, lib[p])
  BY Same DEF Privilege, CountsInv, Counting
<1>2. lib[p] \in Statics /\ x \in {"select", "askinfo"} /\ (x = "askinfo" => ~ok)
  BY DEF CountsInv, Types
<1> HIDE DEF x
<1>3. QED BY <1>1, <1>2, ReadBounded, Ahead DEF CountsInv, Behind

LEMMA SelectCountsKeeps ==
    ASSUME CountsInv, NEW p \in Procs, p \in Who[scene], NEW ok \in BOOLEAN, scene' = scene, SelectCounts(p, ok)
    PROVE  CountsInv'
<1> DEFINE x == IF ok THEN "flash" ELSE "askinfo"
<1>1. pc[p] \in Counting /\ Read(ok) /\ SetErr(p, ~ok) /\ Continue(p, x) /\ Learn(p, lib[p])
  BY Same DEF SelectCounts, CountsInv, Counting
<1>2. lib[p] \in Statics /\ x \in {"flash", "askinfo"} /\ (x = "askinfo" => ~ok)
  BY DEF CountsInv, Types
<1> HIDE DEF x
<1>3. QED BY <1>1, <1>2, ReadBounded, Ahead DEF CountsInv, Behind

LEMMA ReadCountsKeeps ==
    ASSUME CountsInv, NEW p \in Procs, p \in Who[scene], NEW ok \in BOOLEAN, scene' = scene, ReadCounts(p, ok)
    PROVE  CountsInv'
<1> DEFINE new == [lib[p] EXCEPT !.det = TRUE, !.setcom = board.com, !.usb = board.usb,
                                 !.fan = board.fan, !.cnt[Main] = board.main]
           l == IF ok /\ ~board.blank THEN new ELSE lib[p]
           e == ~ok \/ board.blank
<1>1. /\ pc[p] \in Counting /\ Read(ok) /\ SetErr(p, e) /\ Continue(p, "askinfo")
      /\ Learn(p, l)
  BY DEF ReadCounts, Counting
<1>2. lib[p] \in Statics /\ board \in AllBoards
  BY DEF CountsInv, Types
<1> DEFINE c == [lib[p].cnt EXCEPT ![Main] = board.main]
<1>3. /\ c \in [Groups -> {0, N}] /\ c[Pcie] = lib[p].cnt[Pcie] /\ c[Main] = board.main
      /\ new = [lib[p] EXCEPT !.det = TRUE, !.setcom = board.com, !.usb = board.usb,
                              !.fan = board.fan, !.cnt = c]
  <2>1. lib[p].cnt \in [Groups -> {0, N}] /\ board.main \in {0, N}
    BY <1>2 DEF Statics, AllBoards
  <2>2. c \in [Groups -> {0, N}] /\ c[Pcie] = lib[p].cnt[Pcie] /\ c[Main] = board.main
    BY <2>1 DEF Groups, Main, Pcie
  <2>3. QED BY <1>2, <2>2 DEF Statics
<1> HIDE DEF c, new
<1>4. /\ new \in Statics /\ new.bound = lib[p].bound /\ new.poe = lib[p].poe
      /\ new.id = lib[p].id /\ new.cnt[Pcie] = lib[p].cnt[Pcie] /\ new.cnt[Main] = board.main
      /\ new.setcom = board.com /\ new.usb = board.usb /\ new.fan = board.fan /\ new.det
  BY <1>2, <1>3 DEF Statics, AllBoards
<1>5. e \in BOOLEAN
  BY Zenon
<1>6. ~e => l = new
  BY DEF e, l
<1>7. l = new \/ l = lib[p]
  BY DEF l
<1> HIDE DEF l, e
<1>8. QED BY <1>1, <1>2, <1>4, <1>5, <1>6, <1>7, ReadBounded, Ahead DEF CountsInv

LEMMA AskPoeInfoKeeps ==
    ASSUME CountsInv, NEW p \in Procs, p \in Who[scene], NEW ok \in BOOLEAN, scene' = scene, AskPoeInfo(p, ok)
    PROVE  CountsInv'
<1> DEFINE e == err[p] \/ ~ok
<1>1. /\ pc[p] = "askinfo" /\ WriteInfo(ok, Get) /\ SetErr(p, e) /\ Continue(p, "info")
      /\ Learn(p, lib[p])
  BY Same DEF AskPoeInfo, CountsInv
<1>2. lib[p] \in Statics /\ err[p] \in BOOLEAN /\ (~err[p] => Right(p) /\ lib[p].det)
  BY <1>1 DEF CountsInv, Types, Honest, Behind
<1>3. e \in BOOLEAN
  BY Zenon
<1>4. ~e => ok /\ ~err[p]
  BY DEF e
<1> HIDE DEF e
<1>5. QED BY <1>1, <1>2, <1>3, <1>4, WriteBounded, Ahead DEF CountsInv, Counting, Behind, Right

LEMMA BoundsSet ==
    ASSUME NEW l, board \in AllBoards
    PROVE  Bounds(l) \in [Groups -> {0, N, 2 * N, 6 * N}]
<1>1. ASSUME NEW g \in Groups PROVE Bounds(l)[g] \in {0, N, 2 * N, 6 * N}
  BY DEF Bounds, Groups
<1>2. QED BY <1>1 DEF Bounds

\* The end of a count, whether or not it failed.
LEMMA CountedKeeps ==
    ASSUME CountsInv, NEW p \in Procs, p \in Who[scene], pc[p] \in {"info", "group"}, NEW l \in Statics,
           NEW e \in BOOLEAN, Counted(p, l, e), scene' = scene, board' = board,
           faults' \in 0..MaxFaults[scene],
           l.bound = lib[p].bound, l.id = lib[p].id,
           l.poe => l.cnt[Pcie] = board.pcie /\ board.groups,
           ~e => /\ l.cnt[Main] = board.main /\ l.setcom = board.com
                 /\ l.usb = board.usb /\ l.fan = board.fan /\ l.det,
           Who[scene] = {p} /\ ~e => (l.poe <=> board.groups)
    PROVE  CountsInv'
<1>1. /\ pc[p] # "idle" /\ ~Known(p) /\ lib[p].id /\ err[p] \in BOOLEAN
      /\ op[p] \in Calls \cup {"none"} /\ board \in AllBoards
  BY DEF CountsInv, Honest, Counting, Behind, Types
<1>2. CASE e
  <2>1. CASE ~CountKnown(l, op[p])
    <3>1. Learn(p, l) /\ Return(p, FALSE)
      BY <1>2, <2>1 DEF Counted
    <3>2. /\ Mine(p) /\ pc'[p] = "idle" /\ op'[p] = op[p] /\ lib'[p] = l
          /\ err'[p] \in BOOLEAN /\ ret'[p] \in {"none", "true", "false"}
      BY <1>1, <3>1, Returns DEF Counting, Behind
    <3>3. Honest(p)' /\ Sole(p)'
      BY <1>1, <3>2 DEF Honest, Sole, Known, Counting, Behind
    <3>4. QED BY <1>1, <3>2, <3>3, OneMoves
  <2>2. CASE CountKnown(l, op[p])
    <3>1. Learn(p, l) /\ Continue(p, "args") /\ SetErr(p, err[p])
      BY <1>2, <2>2, Same DEF Counted, CountsInv
    <3>2. /\ Mine(p) /\ pc'[p] = "args" /\ op'[p] = op[p] /\ lib'[p] = l
          /\ err'[p] = err[p] /\ ret'[p] \in {"none", "true", "false"}
      BY <1>1, <3>1, Continues DEF Counting, Behind
    <3>3. Honest(p)' /\ Sole(p)'
      BY <1>1, <3>2 DEF Honest, Sole, Known, Counting, Behind
    <3>4. QED BY <1>1, <3>2, <3>3, OneMoves
  <2>3. QED BY <2>1, <2>2
<1>3. CASE ~e
  <2> DEFINE n == [l EXCEPT !.bound = Bounds(l)]
  <2>1. Learn(p, n) /\ Continue(p, "args") /\ SetErr(p, err[p])
    BY <1>3, Same DEF Counted, CountsInv
  <2>2. n \in Statics /\ n.cnt = l.cnt /\ n.poe = l.poe /\ n.det = l.det /\ n.id = l.id
        /\ n.setcom = l.setcom /\ n.usb = l.usb /\ n.fan = l.fan
    BY <1>1, BoundsSet DEF Statics
  <2> HIDE DEF n
  <2>3. /\ Mine(p) /\ pc'[p] = "args" /\ op'[p] = op[p] /\ lib'[p] = n
        /\ err'[p] = err[p] /\ ret'[p] \in {"none", "true", "false"}
    BY <1>1, <2>1, <2>2, Continues DEF Counting, Behind
  <2>4. Honest(p)' /\ Sole(p)'
    BY <1>1, <1>3, <2>2, <2>3 DEF Honest, Sole, Known, Right, Counting, Behind
  <2>5. QED BY <1>1, <2>2, <2>3, <2>4, OneMoves
<1>4. QED BY <1>2, <1>3

LEMMA ReadPoeInfoKeeps ==
    ASSUME CountsInv, NEW p \in Procs, p \in Who[scene], NEW ok \in BOOLEAN, scene' = scene, ReadPoeInfo(p, ok)
    PROVE  CountsInv'
<1>1. /\ pc[p] = "info" /\ Read(ok) /\ lib[p] \in Statics /\ err[p] \in BOOLEAN /\ lib[p].id
      /\ (~err[p] => Right(p) /\ lib[p].det)
      /\ (lib[p].poe => lib[p].cnt[Pcie] = board.pcie /\ board.groups)
      /\ (Who[scene] = {p} /\ ~err[p] => poeinfo = Get)
  BY DEF ReadPoeInfo, CountsInv, Types, Honest, Sole, Counting, Behind
<1>2. CASE ok /\ board.groups /\ poeinfo = Get
  <2>1. Learn(p, lib[p]) /\ SetErr(p, err[p]) /\ Continue(p, "group")
    BY <1>2, Same DEF ReadPoeInfo, CountsInv
  <2>2. QED BY <1>1, <1>2, <2>1, ReadBounded, Ahead DEF CountsInv, Counting, Behind, Right
<1>3. CASE ~(ok /\ board.groups /\ poeinfo = Get)
  <2> DEFINE e == err[p] \/ ~ok
  <2>1. Counted(p, lib[p], e)
    BY <1>3 DEF ReadPoeInfo
  <2>2. e \in BOOLEAN
    BY Zenon
  <2>3. ~e => ok /\ ~err[p]
    BY DEF e
  <2>4. Who[scene] = {p} /\ ~e => (lib[p].poe <=> board.groups)
    BY <1>1, <1>3, <2>3
  <2> HIDE DEF e
  <2>5. QED BY <1>1, <2>1, <2>2, <2>3, <2>4, ReadBounded, CountedKeeps DEF CountsInv, Right
<1>4. QED BY <1>2, <1>3

LEMMA SelectMainKeeps ==
    ASSUME CountsInv, NEW p \in Procs, p \in Who[scene], NEW ok \in BOOLEAN, scene' = scene, SelectMain(p, ok)
    PROVE  CountsInv'
<1> DEFINE c == [lib[p].cnt EXCEPT ![Pcie] = board.pcie]
           new == [lib[p] EXCEPT !.poe = TRUE, !.cnt[Pcie] = board.pcie]
           l == IF ok THEN new ELSE lib[p]
           e == err[p] \/ ~ok
<1>1. /\ pc[p] = "group" /\ WriteInfo(ok, Main) /\ lib[p] \in Statics /\ err[p] \in BOOLEAN
      /\ lib[p].id /\ board.groups /\ board \in AllBoards
      /\ (~err[p] => Right(p) /\ lib[p].det)
      /\ (lib[p].poe => lib[p].cnt[Pcie] = board.pcie /\ board.groups)
  BY DEF SelectMain, CountsInv, Types, Honest, Counting, Behind
<1>2. c \in [Groups -> {0, N}] /\ c[Pcie] = board.pcie /\ c[Main] = lib[p].cnt[Main]
  <2>1. lib[p].cnt \in [Groups -> {0, N}] /\ board.pcie \in {0, N}
    BY <1>1 DEF Statics, AllBoards
  <2>2. QED BY <2>1 DEF Groups, Main, Pcie
<1>3. new = [lib[p] EXCEPT !.poe = TRUE, !.cnt = c]
  BY <1>1, <1>2 DEF Statics
<1>4. Counted(p, l, e)
  BY DEF SelectMain
<1>5. e \in BOOLEAN
  BY Zenon
<1>6. ~e => ok /\ ~err[p]
  BY DEF e
<1>7. (ok => l = new) /\ (~ok => l = lib[p])
  BY DEF l
<1> HIDE DEF l, new, c, e
<1>8. /\ new \in Statics /\ new.bound = lib[p].bound /\ new.poe
      /\ new.cnt[Pcie] = board.pcie /\ new.cnt[Main] = lib[p].cnt[Main]
      /\ new.id = lib[p].id /\ new.det = lib[p].det
      /\ new.setcom = lib[p].setcom /\ new.usb = lib[p].usb /\ new.fan = lib[p].fan
  BY <1>1, <1>2, <1>3 DEF Statics
<1>10. board' = board /\ faults' \in 0..MaxFaults[scene]
  BY <1>1, WriteBounded DEF CountsInv
<1>11. CASE ok
  BY <1>1, <1>4, <1>5, <1>6, <1>7, <1>8, <1>10, <1>11, CountedKeeps DEF Right
<1>12. CASE ~ok
  BY <1>1, <1>4, <1>5, <1>6, <1>7, <1>10, <1>12, CountedKeeps
<1>13. QED BY <1>11, <1>12

-----------------------------------------------------------------------------
(* The theorems.                                                           *)

LEMMA AskCountsKeeps ==
    ASSUME CountsInv, NEW p \in Procs, p \in Who[scene], AskCounts(p), scene' = scene PROVE CountsInv'
<1>1. CASE \E o \in Queries \cap Uses[scene] : Query(p, o)
  BY <1>1, QueryStepKeeps
<1>2. CASE CountOnly(p) \/ CountDone(p)
  BY <1>2, CountOnlyKeeps, CountDoneKeeps
<1>3. CASE CountStep(p)
  BY <1>3, EfcoIdKeeps, PrivilegeKeeps, SelectCountsKeeps, ReadCountsKeeps,
     AskPoeInfoKeeps, ReadPoeInfoKeeps, SelectMainKeeps DEF CountStep
<1>4. CASE QueryStep(p)
  BY <1>4, BoardIdKeeps, VersKeeps, VersMoreKeeps, TemperatureKeeps DEF QueryStep
<1>5. QED BY <1>1, <1>2, <1>3, <1>4 DEF AskCounts

LEMMA CountsInductive == CountsInv /\ [CountsNext]_countVars => CountsInv'
<1> SUFFICES ASSUME CountsInv, [CountsNext]_countVars PROVE CountsInv'
  OBVIOUS
<1>1. CASE UNCHANGED countVars
  BY <1>1 DEF countVars, CountsInv, Types, Honest, Sole, Known, Right
<1>2. CASE CountsNext
  <2>1. scene \in Scenes
    BY DEF CountsInv, Types
  <2>2. PICK p \in Who[scene] : AskCounts(p) /\ scene' = scene
    BY <1>2 DEF CountsNext
  <2>3. p \in Procs
    BY <2>1, CountsAssumption
  <2>4. QED BY <2>2, <2>3, AskCountsKeeps
<1>3. QED BY <1>1, <1>2

\* POEINFO is written with a group or the question for all of them.
LEMMA PoeInfoKept ==
    ASSUME NEW p, AskCounts(p), poeinfo \in Groups \cup {Get} PROVE poeinfo' \in Groups \cup {Get}
<1>1. ASSUME NEW o, Query(p, o) PROVE poeinfo' = poeinfo
  BY <1>1 DEF Query, Hit, Enter
<1>2. CountOnly(p) \/ CountDone(p) \/ QueryStep(p) => poeinfo' = poeinfo
  BY DEF CountOnly, Enter, CountDone, QueryStep, BoardId, Vers, VersMore, Temperature, Read
<1>3. CountStep(p) => poeinfo' \in {poeinfo, Get, Main}
  BY DEF CountStep, EfcoId, Privilege, SelectCounts, ReadCounts, AskPoeInfo, ReadPoeInfo,
     SelectMain, Read, WriteInfo
<1>4. QED BY <1>1, <1>2, <1>3 DEF AskCounts, Groups, Main

\* Whatever transfers fail and however many programs ask, every program is
\* where counting may be, and what it has settled on is the board's.
THEOREM CountsInvariant == CountsSpec => []CountsInv
<1>1. CountsInit => CountsInv
  BY CountsInitial
<1>2. CountsInv /\ [CountsNext]_countVars => CountsInv'
  BY CountsInductive
<1>3. QED BY <1>1, <1>2, PTL DEF CountsSpec

\* The static variables of the library keep their types.
THEOREM CountsTypes == CountsSpec => []TypeOK
<1>1. CountsInit => poeinfo \in Groups \cup {Get}
  BY DEF CountsInit, Groups, Main
<1>2. poeinfo \in Groups \cup {Get} /\ [CountsNext]_countVars => (poeinfo \in Groups \cup {Get})'
  BY PoeInfoKept DEF CountsNext, countVars
<1>3. CountsInv /\ poeinfo \in Groups \cup {Get} => TypeOK
  BY DEF CountsInv, Types, TypeOK
<1>4. QED BY <1>1, <1>2, <1>3, CountsInvariant, PTL DEF CountsSpec

\* A program that has set the bounds (EkSMBusGetCount, DMCI.c) has the counts
\* of the board, however many attempts failed before and whoever else asked.
THEOREM CountsMeant == CountsSpec => []BoundsMeanCounts
<1>1. CountsInv => BoundsMeanCounts
  BY DEF CountsInv, Honest, Right, BoundsMeanCounts
<1>2. QED BY <1>1, CountsInvariant, PTL

\* A program that has the AIC for itself and has finished counting knows which
\* firmware it talks to, which an answer's length tells, whatever failed before.
THEOREM FirmwareTold == CountsSpec => []FirmwareKnown
<1>1. CountsInv => FirmwareKnown
  BY CountsAssumption DEF CountsInv, Sole, FirmwareKnown, Alone
<1>2. QED BY <1>1, CountsInvariant, PTL

\* What CountsStay says of one program.
Fixed(p) ==
    /\ lib'[p].bound = lib[p].bound /\ lib'[p].cnt = lib[p].cnt
    /\ lib'[p].poe = lib[p].poe /\ lib'[p].setcom = lib[p].setcom
    /\ lib'[p].usb = lib[p].usb /\ lib'[p].fan = lib[p].fan

\* A program that knows is past the steps that would count again.
LEMMA KnownFixed ==
    ASSUME CountsInv, NEW p \in Procs, NEW q \in Procs, AskCounts(q), Known(p)
    PROVE  Fixed(p)
<1>1. lib[p] \in Statics /\ DOMAIN lib = Procs /\ lib[q] \in Statics
  BY DEF CountsInv, Types
<1>2. pc[p] \notin Counting \cup {"efcoid"}
  BY DEF CountsInv, Honest
<1>3. lib' = lib \/ \E l : Learn(q, l)
  <2>1. ASSUME NEW o, Query(q, o) PROVE lib' = lib
    BY <2>1 DEF Query, Hit, Enter
  <2>2. CountOnly(q) => lib' = lib
    BY DEF CountOnly, Enter
  <2>3. CountDone(q) => \E l : Learn(q, l)
    BY DEF CountDone
  <2>4. ASSUME NEW l, NEW e, Counted(q, l, e) PROVE \E n : Learn(q, n)
    BY <2>4 DEF Counted
  <2>5. ASSUME NEW ok \in BOOLEAN, EfcoId(q, ok) \/ ReadCounts(q, ok) PROVE \E l : Learn(q, l)
    BY <2>5 DEF EfcoId, ReadCounts
  <2>6. ASSUME NEW ok \in BOOLEAN,
               Privilege(q, ok) \/ SelectCounts(q, ok) \/ AskPoeInfo(q, ok)
        PROVE  lib' = lib
    BY <2>6 DEF Privilege, SelectCounts, AskPoeInfo
  <2>7. ASSUME NEW ok \in BOOLEAN, ReadPoeInfo(q, ok) \/ SelectMain(q, ok)
        PROVE  lib' = lib \/ \E l : Learn(q, l)
    BY <2>4, <2>7 DEF ReadPoeInfo, SelectMain
  <2>8. CountStep(q) => lib' = lib \/ \E l : Learn(q, l)
    BY <2>5, <2>6, <2>7 DEF CountStep
  <2>9. ASSUME NEW ok \in BOOLEAN, BoardId(q, ok) \/ VersMore(q, ok) \/ Vers(q, ok)
        PROVE  \E l : Learn(q, l)
    BY <2>9 DEF BoardId, Vers, VersMore
  <2>10. ASSUME NEW ok \in BOOLEAN, Temperature(q, ok) PROVE lib' = lib
    BY <2>10 DEF Temperature
  <2>11. QueryStep(q) => lib' = lib \/ \E l : Learn(q, l)
    BY <2>9, <2>10 DEF QueryStep
  <2>12. QED BY <2>1, <2>2, <2>3, <2>8, <2>11 DEF AskCounts
<1>4. CASE p # q
  BY <1>1, <1>3, <1>4 DEF Fixed, Learn
<1>5. CASE p = q
  <2>1. CASE \E o \in Queries \cap Uses[scene] : Query(p, o)
    BY <2>1 DEF Query, Hit, Enter, Fixed
  <2>2. CASE CountOnly(p)
    BY <2>2 DEF CountOnly, Enter, Fixed
  <2>3. CASE CountDone(p)
    BY <1>1, <2>3 DEF CountDone, Learn, Detected, Statics, Fixed
  <2>4. CASE CountStep(p)
    BY <1>2, <2>4 DEF CountStep, EfcoId, Privilege, SelectCounts, ReadCounts, AskPoeInfo,
       ReadPoeInfo, SelectMain, Counting, Behind
  <2>5. ASSUME NEW ok \in BOOLEAN, BoardId(p, ok) \/ Temperature(p, ok) PROVE Fixed(p)
    BY <1>1, <2>5 DEF BoardId, Temperature, Learn, Statics, Fixed
  <2>6. ASSUME NEW ok \in BOOLEAN, Vers(p, ok) \/ VersMore(p, ok) PROVE Fixed(p)
    <3>1. op[p] \in {"GetFW", "GetBootLoad"}
      BY <2>6 DEF Vers, VersMore, CountsInv, Honest
    <3>2. \/ lib'[p] = lib[p]
          \/ \E n : lib'[p] = [lib[p] EXCEPT ![op[p]] = n]
      BY <1>1, <2>6 DEF Vers, VersMore, Learn
    <3>3. QED BY <1>1, <3>1, <3>2 DEF Statics, Fixed
  <2>7. QED BY <1>5, <2>1, <2>2, <2>3, <2>4, <2>5, <2>6 DEF AskCounts, QueryStep
<1>6. QED BY <1>4, <1>5

\* The counts are static: once a program has settled on them nothing it or
\* another does, and nothing that fails, changes them.
THEOREM CountsFixed == CountsSpec => CountsStay
<1>1. CountsInv /\ [CountsNext]_countVars =>
        [\A p \in Procs : Known(p) => Fixed(p)]_countVars
  <2> SUFFICES ASSUME CountsInv, CountsNext, NEW p \in Procs, Known(p) PROVE Fixed(p)
    OBVIOUS
  <2>1. PICK q \in Procs : AskCounts(q)
    BY CountsAssumption DEF CountsNext, CountsInv, Types
  <2>2. QED BY <2>1, KnownFixed
<1>2. QED BY <1>1, CountsInvariant, PTL DEF CountsSpec, CountsStay, Fixed

-----------------------------------------------------------------------------
(* The whole library.                                                      *)

\* Where a call is once the counts are settled: at the PoE ports, at a word of
\* their switches, at the other devices, at a word of theirs.
PoePlaces == {"ctrl", "csel", "cget", "group1", "ssel", "sget", "sdet", "soff", "allr", "alls",
              "psel", "pget", "bget", "fin", "dead", "hung"}
PoeWrites == {"bset", "allw", "swr"}
PortPlaces == {"args", "get", "read", "wget", "wfix", "wput", "each", "deaf", "fmode", "fcfg",
               "ftrig", "fpwm", "type", "mon", "msel", "mread"}
PortWrites == {"write", "fwr"}
Places == PoePlaces \cup PoeWrites \cup PortPlaces \cup PortWrites

(* A step of a call that is past counting: it ends, or goes on to a place   *)
(* of S, and of the counts it settles at most those EkDetectHWCnt does.     *)
Ends(p) == /\ pc'[p] = "idle" /\ ret'[p] \in {"true", "false"}
Goes(p, S) == pc'[p] \in S /\ ret'[p] = ret[p]
Calm(p, S) == /\ Mine(p) /\ op'[p] = op[p] /\ lib'[p] \in {lib[p], Detected(lib[p])}
              /\ err'[p] \in BOOLEAN /\ (Ends(p) \/ Goes(p, S))
Heard(p) == faults' \in faults..MaxFaults[scene]

LEMMA DetectedKept ==
    ASSUME NEW l \in Statics
    PROVE  /\ Detected(l) \in Statics
           /\ Detected(l).bound = l.bound /\ Detected(l).cnt = l.cnt /\ Detected(l).poe = l.poe
           /\ Detected(l).det = l.det /\ Detected(l).setcom = l.setcom
           /\ Detected(l).usb = l.usb /\ Detected(l).fan = l.fan /\ Detected(l).id = l.id
BY DEF Detected, Statics

LEMMA CalmKeeps ==
    ASSUME CountsInv, NEW p \in Procs, p \in Who[scene], Heard(p), Calm(p, Places)
    PROVE  CountsInv'
<1>1. /\ lib[p] \in Statics /\ op[p] \in Calls \cup {"none"}
      /\ ret[p] \in {"none", "true", "false"}
  BY DEF CountsInv, Types
<1> DEFINE l == lib'[p]  x == pc'[p]
<1>2. /\ l \in Statics /\ l.bound = lib[p].bound /\ l.cnt = lib[p].cnt /\ l.poe = lib[p].poe
      /\ l.det = lib[p].det /\ l.setcom = lib[p].setcom /\ l.usb = lib[p].usb
      /\ l.fan = lib[p].fan /\ l.id = lib[p].id
  BY <1>1, DetectedKept DEF Calm
<1>3. /\ Mine(p) /\ op'[p] = op[p] /\ board' = board
      /\ err'[p] \in BOOLEAN /\ ret'[p] \in {"none", "true", "false"}
  BY <1>1 DEF Calm, Ends, Goes, Mine
<1>7. x \notin Counting \cup {"efcoid", "vers", "more"}
  BY DEF Calm, Ends, Goes, Places, PoePlaces, PoeWrites, PortPlaces, PortWrites, Counting, Behind
<1>8. Honest(p)'
  BY <1>2, <1>3, <1>7 DEF CountsInv, Honest, Known, Right, Counting, Behind
<1>9. Sole(p)'
  BY <1>2, <1>3, <1>7 DEF CountsInv, Sole, Known, Mine, Counting, Behind
<1>10. faults' \in 0..MaxFaults[scene]
  BY DEF Heard, CountsInv, Types
<1>11. QED
  BY <1>1, <1>2, <1>3, <1>8, <1>9, <1>10, OneMoves

-----------------------------------------------------------------------------
(* The PoE calls.                                                          *)

\* What the steps need to know of the state.
Shaped(p) == /\ err \in [Procs -> BOOLEAN] /\ pc = [q \in Procs |-> pc[q]]
             /\ lib \in [Procs -> Statics] /\ op \in [Procs -> Calls \cup {"none"}]
             /\ ret \in [Procs -> {"none", "true", "false"}]
             /\ faults \in 0..MaxFaults[scene] /\ MaxFaults[scene] \in Nat
             /\ p \in Procs /\ scene' = scene

\* The work of a call keeps its fields.
CallKept(p) == call' = [call EXCEPT ![p] = call'[p]] /\ DOMAIN call'[p] = DOMAIN call[p]
PoeShaped(p) == Shaped(p) /\ call = [q \in Procs |-> call[q]] /\ DOMAIN call[p] = DOMAIN NoCall

\* A step that leaves DEVCTRL alone and is not about to write it.
PoeCalm(p) == Calm(p, PoePlaces) /\ Heard(p) /\ ctrl' = ctrl /\ CallKept(p)

LEMMA Hearing ==
    ASSUME NEW p, Shaped(p), NEW ok \in BOOLEAN
    PROVE  /\ Read(ok) => Heard(p) /\ board' = board
           /\ \A x : WriteInfo(ok, x) => Heard(p) /\ board' = board
BY DEF Shaped, Read, WriteInfo, Heard

LEMMA PoeStepsCalm ==
    ASSUME NEW p, PoeShaped(p), NEW ok \in BOOLEAN,
           \/ AllPorts(p, ok) \/ ReadCtrlGet(p, ok) \/ SelectCfg(p, ok) \/ ReadCfg(p, ok)
           \/ SelectSet(p, ok) \/ ReadSet(p, ok) \/ Detect(p, ok) \/ PowerOff(p, ok)
           \/ SelectStat(p, ok) \/ ReadStat(p, ok) \/ NextGroup(p)
    PROVE  PoeCalm(p)
<1> USE DEF PoeShaped, Shaped
<1>1. CASE AllPorts(p, ok)
  <2>1. Calm(p, PoePlaces)
    BY <1>1, Hearing DEF AllPorts, Onward, Calm, Mine, Goes, PoePlaces, Continue, Goto, SetErr
  <2>2. CallKept(p)
    BY <1>1 DEF AllPorts, Onward, InCall, KeepCall, CallKept
  <2>3. Heard(p) /\ ctrl' = ctrl
    BY <1>1, Hearing DEF AllPorts, Onward, Heard
  <2>4. QED BY <2>1, <2>2, <2>3 DEF PoeCalm
<1>2. CASE ReadCtrlGet(p, ok)
  <2>1. Calm(p, PoePlaces)
    BY <1>2, Hearing DEF ReadCtrlGet, ReadOnly, aicVars, Calm, Mine, Goes, PoePlaces, Continue, Goto, SetErr
  <2>2. CallKept(p)
    BY <1>2 DEF ReadCtrlGet, ReadOnly, aicVars, InCall, KeepCall, CallKept
  <2>3. Heard(p) /\ ctrl' = ctrl
    BY <1>2, Hearing DEF ReadCtrlGet, ReadOnly, aicVars, Heard
  <2>4. QED BY <2>1, <2>2, <2>3 DEF PoeCalm
<1>3. CASE SelectCfg(p, ok)
  <2>1. Calm(p, PoePlaces)
    BY <1>3, Hearing DEF SelectCfg, Onward, Calm, Mine, Goes, PoePlaces, Continue, Goto, SetErr
  <2>2. CallKept(p)
    BY <1>3 DEF SelectCfg, Onward, InCall, KeepCall, CallKept
  <2>3. Heard(p) /\ ctrl' = ctrl
    BY <1>3, Hearing DEF SelectCfg, Onward, Heard
  <2>4. QED BY <2>1, <2>2, <2>3 DEF PoeCalm
<1>4. CASE ReadCfg(p, ok)
  <2>1. Calm(p, PoePlaces)
    BY <1>4, Hearing DEF ReadCfg, ReadOnly, aicVars, Calm, Mine, Goes, PoePlaces, Continue, Goto, SetErr
  <2>2. CallKept(p)
    BY <1>4 DEF ReadCfg, ReadOnly, aicVars, InCall, KeepCall, CallKept
  <2>3. Heard(p) /\ ctrl' = ctrl
    BY <1>4, Hearing DEF ReadCfg, ReadOnly, aicVars, Heard
  <2>4. QED BY <2>1, <2>2, <2>3 DEF PoeCalm
<1>5. CASE SelectSet(p, ok)
  <2>1. Calm(p, PoePlaces)
    BY <1>5, Hearing DEF SelectSet, Off, Onward, Calm, Mine, Goes, PoePlaces, Continue, Goto, SetErr
  <2>2. CallKept(p)
    BY <1>5 DEF SelectSet, Off, Onward, InCall, KeepCall, CallKept
  <2>3. Heard(p) /\ ctrl' = ctrl
    BY <1>5, Hearing DEF SelectSet, Off, Onward, Heard
  <2>4. QED BY <2>1, <2>2, <2>3 DEF PoeCalm
<1>6. CASE ReadSet(p, ok)
  <2>1. Calm(p, PoePlaces)
    BY <1>6, Hearing DEF ReadSet, Off, Onward, ReadOnly, aicVars, Calm, Mine, Goes, PoePlaces, Continue, Goto, SetErr
  <2>2. CallKept(p)
    BY <1>6 DEF ReadSet, Off, Onward, ReadOnly, aicVars, InCall, KeepCall, CallKept
  <2>3. Heard(p) /\ ctrl' = ctrl
    BY <1>6, Hearing DEF ReadSet, Off, Onward, ReadOnly, aicVars, Heard
  <2>4. QED BY <2>1, <2>2, <2>3 DEF PoeCalm
<1>7. CASE Detect(p, ok)
  <2>1. Calm(p, PoePlaces)
    BY <1>7, Hearing DEF Detect, Off, Onward, Calm, Mine, Goes, PoePlaces, Continue, Goto, SetErr
  <2>2. CallKept(p)
    BY <1>7 DEF Detect, Off, Onward, InCall, KeepCall, CallKept
  <2>3. Heard(p) /\ ctrl' = ctrl
    BY <1>7, Hearing DEF Detect, Off, Onward, Heard
  <2>4. QED BY <2>1, <2>2, <2>3 DEF PoeCalm
<1>8. CASE PowerOff(p, ok)
  <2>1. Calm(p, PoePlaces)
    BY <1>8, Hearing DEF PowerOff, Onward, Calm, Mine, Goes, PoePlaces, Continue, Goto, SetErr
  <2>2. CallKept(p)
    BY <1>8 DEF PowerOff, Onward, InCall, KeepCall, CallKept
  <2>3. Heard(p) /\ ctrl' = ctrl
    BY <1>8, Hearing DEF PowerOff, Onward, Heard
  <2>4. QED BY <2>1, <2>2, <2>3 DEF PoeCalm
<1>9. CASE SelectStat(p, ok)
  <2>1. Calm(p, PoePlaces)
    BY <1>9, Hearing DEF SelectStat, Calm, Mine, Goes, PoePlaces, Continue, Goto, SetErr
  <2>2. CallKept(p)
    BY <1>9 DEF SelectStat, InCall, KeepCall, CallKept
  <2>3. Heard(p) /\ ctrl' = ctrl
    BY <1>9, Hearing DEF SelectStat, Heard
  <2>4. QED BY <2>1, <2>2, <2>3 DEF PoeCalm
<1>10. CASE ReadStat(p, ok)
  <2>1. Calm(p, PoePlaces)
    BY <1>10, Hearing DEF ReadStat, ReadOnly, aicVars, Calm, Mine, Goes, PoePlaces, Continue, Goto, SetErr
  <2>2. CallKept(p)
    BY <1>10 DEF ReadStat, ReadOnly, aicVars, InCall, KeepCall, CallKept
  <2>3. Heard(p) /\ ctrl' = ctrl
    BY <1>10, Hearing DEF ReadStat, ReadOnly, aicVars, Heard
  <2>4. QED BY <2>1, <2>2, <2>3 DEF PoeCalm
<1>11. CASE NextGroup(p)
  <2>1. Calm(p, PoePlaces)
    BY <1>11, Hearing DEF NextGroup, Calm, Mine, Goes, PoePlaces, Continue, Goto, SetErr
  <2>2. CallKept(p)
    BY <1>11 DEF NextGroup, InCall, KeepCall, CallKept
  <2>3. Heard(p) /\ ctrl' = ctrl
    BY <1>11, Hearing DEF NextGroup, Heard
  <2>4. QED BY <2>1, <2>2, <2>3 DEF PoeCalm
<1>12. QED BY <1>1, <1>2, <1>3, <1>4, <1>5, <1>6, <1>7, <1>8, <1>9, <1>10, <1>11

LEMMA CallBlocks ==
    ASSUME NEW p, PoeShaped(p)
    PROVE  /\ KeepCall => CallKept(p)
           /\ \A f : InCall(p, f) /\ DOMAIN f = DOMAIN call[p] => CallKept(p)
           /\ \A ids, left : Work(p, ids, left) => CallKept(p)
           /\ Reject(p) => CallKept(p)
<1>1. /\ KeepCall => CallKept(p)
      /\ \A f : InCall(p, f) /\ DOMAIN f = DOMAIN call[p] => CallKept(p)
  BY DEF PoeShaped, Shaped, KeepCall, CallKept, InCall
<1>2. ASSUME NEW ids, NEW left, Work(p, ids, left) PROVE CallKept(p)
  <2> DEFINE f == [call[p] EXCEPT !.ids = ids, !.left = left, !.val = Unanswered(ids)]
  <2>1. DOMAIN f = DOMAIN call[p]
    OBVIOUS
  <2>2. InCall(p, f)
    BY <1>2 DEF Work
  <2> HIDE DEF f
  <2>3. QED BY <1>1, <2>1, <2>2
<1>3. ASSUME Reject(p) PROVE CallKept(p)
  <2> DEFINE f == [call[p] EXCEPT !.ids = [i \in DOMAIN @ |-> 0]]
  <2>1. DOMAIN f = DOMAIN call[p]
    OBVIOUS
  <2>2. InCall(p, f)
    BY <1>3 DEF Reject
  <2> HIDE DEF f
  <2>3. QED BY <1>1, <2>1, <2>2
<1>4. QED BY <1>1, <1>2, <1>3

LEMMA PoeInfosCalm ==
    ASSUME NEW p, PoeShaped(p), Infos(p) PROVE PoeCalm(p)
<1> USE DEF PoeShaped, Shaped
<1>1. CASE GetPOEInfos(p)
  <2>1. Calm(p, PoePlaces)
    BY <1>1 DEF GetPOEInfos, Informed, At, PoeInfos, Calm, Mine, Goes, Ends, PoePlaces, Continue, Return, Goto, SetErr, Learn
  <2>2. CallKept(p)
    BY <1>1, CallBlocks DEF GetPOEInfos
  <2>3. Heard(p) /\ ctrl' = ctrl
    BY <1>1 DEF GetPOEInfos, Informed, At, PoeInfos, Heard
  <2>4. QED BY <2>1, <2>2, <2>3 DEF PoeCalm
<1>2. CASE GetPOEInfo(p)
  <2>1. Calm(p, PoePlaces)
    BY <1>2 DEF GetPOEInfo, Informed, At, PoeInfos, Calm, Mine, Goes, Ends, PoePlaces, Continue, Return, Goto, SetErr, Learn
  <2>2. CallKept(p)
    BY <1>2, CallBlocks DEF GetPOEInfo
  <2>3. Heard(p) /\ ctrl' = ctrl
    BY <1>2 DEF GetPOEInfo, Informed, At, PoeInfos, Heard
  <2>4. QED BY <2>1, <2>2, <2>3 DEF PoeCalm
<1>3. CASE GetPOEInfos_1(p)
  <2>1. Calm(p, PoePlaces)
    BY <1>3 DEF GetPOEInfos_1, Informed, At, PoeInfos, Calm, Mine, Goes, Ends, PoePlaces, Continue, Return, Goto, SetErr, Learn
  <2>2. CallKept(p)
    BY <1>3, CallBlocks DEF GetPOEInfos_1
  <2>3. Heard(p) /\ ctrl' = ctrl
    BY <1>3 DEF GetPOEInfos_1, Informed, At, PoeInfos, Heard
  <2>4. QED BY <2>1, <2>2, <2>3 DEF PoeCalm
<1>4. CASE GetPOEInfo_1(p)
  <2>1. Calm(p, PoePlaces)
    BY <1>4 DEF GetPOEInfo_1, Informed, At, PoeInfos, Calm, Mine, Goes, Ends, PoePlaces, Continue, Return, Goto, SetErr, Learn
  <2>2. CallKept(p)
    BY <1>4, CallBlocks DEF GetPOEInfo_1
  <2>3. Heard(p) /\ ctrl' = ctrl
    BY <1>4 DEF GetPOEInfo_1, Informed, At, PoeInfos, Heard
  <2>4. QED BY <2>1, <2>2, <2>3 DEF PoeCalm
<1>5. QED
  BY <1>1, <1>2, <1>3, <1>4 DEF Infos, GetPOEInfosNI, GetPOEInfoNI, GetPOEInfosNI_1, GetPOEInfoNI_1

\* The list calls differ in their cursor and first transfer.
LEMMA ListCalm ==
    ASSUME NEW p, PoeShaped(p), NEW o \in PoeCounts, NEW c, NEW ids, NEW cur,
           NEW first \in PoePlaces, ListArgs(p, o, c, ids, cur, first)
    PROVE  PoeCalm(p)
<1> USE DEF PoeShaped, Shaped
<1>1. Calm(p, PoePlaces)
  BY DEF ListArgs, Counted1, At, Reject, Calm, Mine, Goes, Ends, PoeCounts, PoeInfos, USBInfos, FanInfos, MiniInfos, PoePlaces, Continue, Return, Goto, SetErr, Learn
<1>2. CallKept(p)
  BY CallBlocks DEF ListArgs
<1>3. Heard(p) /\ ctrl' = ctrl
  BY DEF ListArgs, Counted1, At, Heard
<1>4. QED BY <1>1, <1>2, <1>3 DEF PoeCalm

LEMMA PoeArgsCalm ==
    ASSUME NEW p, PoeShaped(p),
           \/ NoHardware(p) \/ Fin(p) \/ Configs(p) \/ Stats(p)
           \/ SetPOEConfigs_1(p) \/ SetPOEConfig(p) \/ GetBuzConfig(p) \/ SetBuzConfig(p)
    PROVE  PoeCalm(p)
<1> USE DEF PoeShaped, Shaped
<1>1. CASE NoHardware(p)
  <2>1. Calm(p, PoePlaces)
    BY <1>1 DEF NoHardware, PoeCounts, Counted1, At, Reject, PoeInfos, USBInfos, FanInfos, MiniInfos, Calm, Mine, Goes, Ends, PoePlaces, Continue, Return, Goto, SetErr, Learn
  <2>2. CallKept(p)
    BY <1>1, CallBlocks DEF NoHardware
  <2>3. Heard(p) /\ ctrl' = ctrl
    BY <1>1 DEF NoHardware, PoeCounts, Counted1, At, Reject, PoeInfos, USBInfos, FanInfos, MiniInfos, Heard
  <2>4. QED BY <2>1, <2>2, <2>3 DEF PoeCalm
<1>2. CASE Fin(p)
  <2>1. Calm(p, PoePlaces)
    BY <1>2 DEF Fin, Reject, PoeInfos, Calm, Mine, Goes, Ends, PoePlaces, Continue, Return, Goto, SetErr, Learn
  <2>2. CallKept(p)
    BY <1>2, CallBlocks DEF Fin
  <2>3. Heard(p) /\ ctrl' = ctrl
    BY <1>2 DEF Fin, Reject, PoeInfos, Heard
  <2>4. QED BY <2>1, <2>2, <2>3 DEF PoeCalm
<1>3. CASE GetPOEConfig(p)
  <2>1. Calm(p, PoePlaces)
    BY <1>3 DEF GetPOEConfig, Counted1, At, Reject, PoeInfos, USBInfos, FanInfos, MiniInfos, Calm, Mine, Goes, Ends, PoePlaces, Continue, Return, Goto, SetErr, Learn
  <2>2. CallKept(p)
    BY <1>3, CallBlocks DEF GetPOEConfig
  <2>3. Heard(p) /\ ctrl' = ctrl
    BY <1>3 DEF GetPOEConfig, Counted1, At, Reject, PoeInfos, USBInfos, FanInfos, MiniInfos, Heard
  <2>4. QED BY <2>1, <2>2, <2>3 DEF PoeCalm
<1>4. CASE GetPOEConfig_1(p)
  <2>1. Calm(p, PoePlaces)
    BY <1>4 DEF GetPOEConfig_1, Counted1, At, Reject, PoeInfos, USBInfos, FanInfos, MiniInfos, Calm, Mine, Goes, Ends, PoePlaces, Continue, Return, Goto, SetErr, Learn
  <2>2. CallKept(p)
    BY <1>4, CallBlocks DEF GetPOEConfig_1
  <2>3. Heard(p) /\ ctrl' = ctrl
    BY <1>4 DEF GetPOEConfig_1, Counted1, At, Reject, PoeInfos, USBInfos, FanInfos, MiniInfos, Heard
  <2>4. QED BY <2>1, <2>2, <2>3 DEF PoeCalm
<1>5. CASE SetPOEConfig(p)
  <2>1. Calm(p, PoePlaces)
    BY <1>5 DEF SetPOEConfig, Counted1, At, Reject, PoeInfos, USBInfos, FanInfos, MiniInfos, Calm, Mine, Goes, Ends, PoePlaces, Continue, Return, Goto, SetErr, Learn
  <2>2. CallKept(p)
    BY <1>5, CallBlocks DEF SetPOEConfig
  <2>3. Heard(p) /\ ctrl' = ctrl
    BY <1>5 DEF SetPOEConfig, Counted1, At, Reject, PoeInfos, USBInfos, FanInfos, MiniInfos, Heard
  <2>4. QED BY <2>1, <2>2, <2>3 DEF PoeCalm
<1>6. CASE GetPOEStats(p)
  <2>1. Calm(p, PoePlaces)
    BY <1>6 DEF GetPOEStats, Counted1, At, Reject, PoeInfos, USBInfos, FanInfos, MiniInfos, Calm, Mine, Goes, Ends, PoePlaces, Continue, Return, Goto, SetErr, Learn
  <2>2. CallKept(p)
    BY <1>6, CallBlocks DEF GetPOEStats
  <2>3. Heard(p) /\ ctrl' = ctrl
    BY <1>6 DEF GetPOEStats, Counted1, At, Reject, PoeInfos, USBInfos, FanInfos, MiniInfos, Heard
  <2>4. QED BY <2>1, <2>2, <2>3 DEF PoeCalm
<1>7. CASE GetPOEStat(p)
  <2>1. Calm(p, PoePlaces)
    BY <1>7 DEF GetPOEStat, Counted1, At, Reject, PoeInfos, USBInfos, FanInfos, MiniInfos, Calm, Mine, Goes, Ends, PoePlaces, Continue, Return, Goto, SetErr, Learn
  <2>2. CallKept(p)
    BY <1>7, CallBlocks DEF GetPOEStat
  <2>3. Heard(p) /\ ctrl' = ctrl
    BY <1>7 DEF GetPOEStat, Counted1, At, Reject, PoeInfos, USBInfos, FanInfos, MiniInfos, Heard
  <2>4. QED BY <2>1, <2>2, <2>3 DEF PoeCalm
<1>8. CASE GetPOEStat_1(p)
  <2>1. Calm(p, PoePlaces)
    BY <1>8 DEF GetPOEStat_1, Counted1, At, Reject, PoeInfos, USBInfos, FanInfos, MiniInfos, Calm, Mine, Goes, Ends, PoePlaces, Continue, Return, Goto, SetErr, Learn
  <2>2. CallKept(p)
    BY <1>8, CallBlocks DEF GetPOEStat_1
  <2>3. Heard(p) /\ ctrl' = ctrl
    BY <1>8 DEF GetPOEStat_1, Counted1, At, Reject, PoeInfos, USBInfos, FanInfos, MiniInfos, Heard
  <2>4. QED BY <2>1, <2>2, <2>3 DEF PoeCalm
<1>9. CASE GetBuzConfig(p)
  <2>1. Calm(p, PoePlaces)
    BY <1>9 DEF GetBuzConfig, Counted1, At, Reject, PoeInfos, USBInfos, FanInfos, MiniInfos, Calm, Mine, Goes, Ends, PoePlaces, Continue, Return, Goto, SetErr, Learn
  <2>2. CallKept(p)
    BY <1>9, CallBlocks DEF GetBuzConfig
  <2>3. Heard(p) /\ ctrl' = ctrl
    BY <1>9 DEF GetBuzConfig, Counted1, At, Reject, PoeInfos, USBInfos, FanInfos, MiniInfos, Heard
  <2>4. QED BY <2>1, <2>2, <2>3 DEF PoeCalm
<1>10. CASE SetBuzConfig(p)
  <2>1. Calm(p, PoePlaces)
    BY <1>10 DEF SetBuzConfig, Counted1, At, Reject, PoeInfos, USBInfos, FanInfos, MiniInfos, Calm, Mine, Goes, Ends, PoePlaces, Continue, Return, Goto, SetErr, Learn
  <2>2. CallKept(p)
    BY <1>10, CallBlocks DEF SetBuzConfig
  <2>3. Heard(p) /\ ctrl' = ctrl
    BY <1>10 DEF SetBuzConfig, Counted1, At, Reject, PoeInfos, USBInfos, FanInfos, MiniInfos, Heard
  <2>4. QED BY <2>1, <2>2, <2>3 DEF PoeCalm
<1>11. CASE GetPOEConfigs_1(p)
  BY <1>11, ListCalm DEF GetPOEConfigs_1, Repeating, PoeCounts, PoePlaces
<1>12. CASE SetPOEConfigs_1(p)
  BY <1>12, ListCalm DEF SetPOEConfigs_1, Repeating, PoeCounts, PoePlaces
<1>13. CASE GetPOEStatsNI_1(p)
  BY <1>13, ListCalm DEF GetPOEStatsNI_1, Repeating, PoeCounts, PoePlaces
<1>14. CASE GetPOEStats_1(p)
  <2>1. CASE Named(lib[p], call[p].ids) \/ NoPorts(lib[p]) \/ lib[p].bound[Pcie] > 0
    BY <1>14, <2>1, ListCalm DEF GetPOEStats_1, PoeCounts, PoePlaces
  <2>2. CASE ~(Named(lib[p], call[p].ids) \/ NoPorts(lib[p]) \/ lib[p].bound[Pcie] > 0)
    <3>1. Counted1(p, "GetPOEStats_1") /\ Continue(p, "dead") /\ KeepCall /\ UNCHANGED err
      BY <1>14, <2>2 DEF GetPOEStats_1
    <3>2. Calm(p, PoePlaces)
      BY <3>1 DEF Counted1, At, Calm, Mine, Goes, PoePlaces, Continue, Goto, Learn
    <3>3. QED BY <3>1, <3>2 DEF PoeCalm, CallKept, KeepCall, Heard, Counted1, At
  <2>3. QED BY <2>1, <2>2
<1>15. QED
  BY <1>1, <1>2, <1>3, <1>4, <1>5, <1>6, <1>7, <1>8, <1>9, <1>10, <1>11, <1>12, <1>13, <1>14
  DEF Configs, Stats, GetPOEConfigNI, GetPOEConfigsNI_1, GetPOEConfigNI_1, GetPOEStatsNI,
      GetPOEStatNI, GetPOEStatNI_1

\* DEVCTRL as a call is about to write it has the others' bits as they are.
\* SetPOEConfig_1 writes a byte it may not have read.
Switched(p) ==
    /\ pc[p] = "bset" => call[p].buf \ {"buz"} = ctrl \ {"buz"}
    /\ pc[p] \in {"allw", "swr"} /\ op[p] # "SetPOEConfig_1" =>
           ("buz" \in call[p].buf <=> "buz" \in ctrl)

LEMMA CalmMore ==
    ASSUME NEW p, NEW S, NEW T, S \subseteq T, Calm(p, S) PROVE Calm(p, T)
BY DEF Calm, Goes

\* Reading DEVCTRL to change it.
LEMMA SwitchRead ==
    ASSUME NEW p, PoeShaped(p), NEW ok \in BOOLEAN,
           \/ AllRead(p, ok) \/ ReadCtrlSet(p, ok) \/ ReadCtrlSetOne(p, ok) \/ ReadBuz(p, ok)
           \/ SetPOEConfig_1(p)
    PROVE  Calm(p, PoePlaces \cup PoeWrites) /\ Heard(p) /\ CallKept(p) /\ ctrl' = ctrl /\ Switched(p)'
<1> USE DEF PoeShaped, Shaped
<1>1. CASE AllRead(p, ok)
  <2>1. Calm(p, PoePlaces \cup PoeWrites)
    BY <1>1, Hearing DEF AllRead, ReadOnly, Calm, Mine, Goes, Ends, PoePlaces, PoeWrites, Continue, Return, Goto, SetErr, Learn
  <2>2. Heard(p) /\ CallKept(p) /\ ctrl' = ctrl
    BY <1>1, Hearing, CallBlocks DEF AllRead, ReadOnly, aicVars, Heard
  <2>3. Switched(p)'
    BY <1>1 DEF AllRead, ReadOnly, aicVars, InCall, Continue, Goto, NoCall, Switched
  <2>4. QED BY <2>1, <2>2, <2>3
<1>2. CASE ReadCtrlSet(p, ok)
  <2>1. Calm(p, PoePlaces \cup PoeWrites)
    BY <1>2, Hearing DEF ReadCtrlSet, ReadOnly, Calm, Mine, Goes, Ends, PoePlaces, PoeWrites, Continue, Return, Goto, SetErr, Learn
  <2>2. Heard(p) /\ CallKept(p) /\ ctrl' = ctrl
    BY <1>2, Hearing, CallBlocks DEF ReadCtrlSet, ReadOnly, aicVars, Heard
  <2>3. Switched(p)'
    BY <1>2 DEF ReadCtrlSet, ReadOnly, aicVars, InCall, Continue, Goto, NoCall, Switched
  <2>4. QED BY <2>1, <2>2, <2>3
<1>3. CASE ReadCtrlSetOne(p, ok)
  <2>1. Calm(p, PoePlaces \cup PoeWrites)
    BY <1>3, Hearing DEF ReadCtrlSetOne, ReadOnly, Calm, Mine, Goes, Ends, PoePlaces, PoeWrites, Continue, Return, Goto, SetErr, Learn
  <2>2. Heard(p) /\ CallKept(p) /\ ctrl' = ctrl
    BY <1>3, Hearing, CallBlocks DEF ReadCtrlSetOne, ReadOnly, aicVars, Heard
  <2>3. Switched(p)'
    BY <1>3 DEF ReadCtrlSetOne, ReadOnly, aicVars, InCall, Continue, Goto, NoCall, Switched, Single
  <2>4. QED BY <2>1, <2>2, <2>3
<1>4. CASE ReadBuz(p, ok)
  <2>1. Calm(p, PoePlaces \cup PoeWrites)
    BY <1>4, Hearing DEF ReadBuz, ReadOnly, Calm, Mine, Goes, Ends, PoePlaces, PoeWrites, Continue, Return, Goto, SetErr, Learn
  <2>2. Heard(p) /\ CallKept(p) /\ ctrl' = ctrl
    BY <1>4, Hearing, CallBlocks DEF ReadBuz, ReadOnly, aicVars, Heard
  <2>3. Switched(p)'
    <3> DEFINE new == IF call[p].on = {} THEN ctrl \ {"buz"} ELSE ctrl \cup {"buz"}
    <3>1. new \ {"buz"} = ctrl \ {"buz"}
      OBVIOUS
    <3>2. call'[p].buf = new /\ ctrl' = ctrl
      BY <1>4 DEF ReadBuz, ReadOnly, aicVars, InCall, NoCall
    <3>3. pc'[p] \in {"bset", "fin"}
      BY <1>4 DEF ReadBuz, Continue, Goto
    <3> HIDE DEF new
    <3>4. QED BY <3>1, <3>2, <3>3 DEF Switched
  <2>4. QED BY <2>1, <2>2, <2>3
<1>5. CASE SetPOEConfig_1(p)
  <2>1. Calm(p, PoePlaces \cup PoeWrites)
    BY <1>5, Hearing DEF SetPOEConfig_1, Counted1, At, Calm, Mine, Goes, Ends, PoePlaces, PoeWrites, Continue, Return, Goto, SetErr, Learn, PoeInfos, USBInfos, FanInfos, MiniInfos
  <2>2. Heard(p) /\ ctrl' = ctrl
    BY <1>5 DEF SetPOEConfig_1, Counted1, At, Heard
  <2>5. CallKept(p)
    BY <1>5, CallBlocks DEF SetPOEConfig_1
  <2>3. Switched(p)'
    BY <1>5, <2>1 DEF SetPOEConfig_1, Counted1, At, Continue, Return, Goto, Switched
  <2>4. QED BY <2>1, <2>2, <2>3, <2>5
<1>6. QED BY <1>1, <1>2, <1>3, <1>4, <1>5

\* Writing it.
LEMMA SwitchWritten ==
    ASSUME NEW p, PoeShaped(p), NEW ok \in BOOLEAN,
           AllWrite(p, ok) \/ CloseSwitch(p, ok) \/ WriteBuz(p, ok)
    PROVE  /\ Calm(p, PoePlaces) /\ Heard(p) /\ CallKept(p)
           /\ pc[p] \in PoeWrites /\ ctrl' \in {ctrl, call[p].buf}
<1> USE DEF PoeShaped, Shaped
<1>1. CASE AllWrite(p, ok)
  <2>1. Calm(p, PoePlaces)
    BY <1>1, Hearing DEF AllWrite, Calm, Mine, Goes, PoePlaces, Continue, Goto, SetErr
  <2>2. QED BY <1>1, <2>1, Hearing, CallBlocks DEF AllWrite, PoeWrites
<1>2. CASE CloseSwitch(p, ok)
  <2>1. Calm(p, PoePlaces)
    BY <1>2, Hearing DEF CloseSwitch, Calm, Mine, Goes, PoePlaces, Continue, Goto, SetErr
  <2>2. QED BY <1>2, <2>1, Hearing, CallBlocks DEF CloseSwitch, PoeWrites
<1>3. CASE WriteBuz(p, ok)
  <2>1. Calm(p, PoePlaces)
    BY <1>3, Hearing DEF WriteBuz, Calm, Mine, Goes, PoePlaces, Continue, Goto, SetErr
  <2>2. QED BY <1>3, <2>1, Hearing, CallBlocks DEF WriteBuz, PoeWrites
<1>4. QED BY <1>1, <1>2, <1>3

\* Every step of a PoE call but its begin.
LEMMA PoeMoves ==
    ASSUME NEW p, PoeShaped(p), PoeAct(p), ~Begin(p)
    PROVE  /\ Calm(p, PoePlaces \cup PoeWrites) /\ Heard(p) /\ CallKept(p)
           /\ \/ ctrl' = ctrl /\ Switched(p)'
              \/ pc[p] \in PoeWrites /\ pc'[p] \notin PoeWrites /\ ctrl' \in {ctrl, call[p].buf}
<1>1. PoePlaces \subseteq PoePlaces \cup PoeWrites
  OBVIOUS
<1>2. CASE PoeCalm(p)
  <2>1. pc'[p] \notin PoeWrites
    BY <1>2 DEF PoeCalm, Calm, Ends, Goes, PoePlaces, PoeWrites
  <2>2. QED BY <1>1, <1>2, <2>1, CalmMore DEF PoeCalm, Switched, PoeWrites
<1>3. ASSUME NEW ok \in BOOLEAN, AllWrite(p, ok) \/ CloseSwitch(p, ok) \/ WriteBuz(p, ok)
      PROVE  /\ Calm(p, PoePlaces \cup PoeWrites) /\ Heard(p) /\ CallKept(p) /\ pc[p] \in PoeWrites
             /\ pc'[p] \notin PoeWrites /\ ctrl' \in {ctrl, call[p].buf}
  <2>1. Calm(p, PoePlaces)
    BY <1>3, SwitchWritten
  <2>2. pc'[p] \notin PoeWrites
    BY <2>1 DEF Calm, Ends, Goes, PoePlaces, PoeWrites
  <2>3. QED BY <1>1, <1>3, <2>1, <2>2, SwitchWritten, CalmMore
<1>4. CASE PoeStep(p)
  BY <1>2, <1>3, <1>4, PoeStepsCalm, SwitchRead DEF PoeStep
<1>5. CASE SetPOEConfig_1(p)
  BY <1>5, SwitchRead
<1>6. QED
  BY <1>2, <1>4, <1>5, PoeInfosCalm, PoeArgsCalm, PoeStepsCalm
  DEF PoeAct, Sets, Buzzer, SetPOEConfigNI, SetPOEConfigsNI_1, SetPOEConfigNI_1, GetBuzConfigNI, SetBuzConfigNI

-----------------------------------------------------------------------------
(* The calls for the other devices.                                        *)

\* The registers that hold bits of several devices, and the calls that set them.
Words == {"busgpio", "com", "mini", "usb", "aiccfg"}
Setters == {"SetCOMConfigs", "SetCOMConfig", "SetminiPCIeConfigs", "SetminiPCIeConfig",
            "SetUSBConfigs", "SetUSBConfig", "SetLANConfig", "SetPowerConfig"}

TaskKept(p) == task' = [task EXCEPT ![p] = task'[p]] /\ DOMAIN task'[p] = DOMAIN NoTask
WordsKept == DOMAIN reg' = DOMAIN reg /\ \A w \in Words : reg'[w] = reg[w]

\* What is remembered of a monitor is what was, nothing, or its own description.
MemoKept(p) == /\ memo' = [memo EXCEPT ![p] = memo'[p]] /\ DOMAIN memo'[p] = DOMAIN memo[p]
               /\ DOMAIN memo'[p].dscpt = DOMAIN memo[p].dscpt
               /\ \A i \in DOMAIN memo[p].dscpt :
                      memo'[p].dscpt[i] \in {memo[p].dscpt[i], 0, i}

PortShaped(p) == /\ Shaped(p) /\ task = [q \in Procs |-> task[q]] /\ DOMAIN task[p] = DOMAIN NoTask
                 /\ memo = [q \in Procs |-> memo[q]] /\ DOMAIN memo[p] = DOMAIN NoMemo
                 /\ Words \cup {"pwm", "pwrup", "run", "monsel"} \subseteq DOMAIN reg

\* A step that leaves the words alone and is not about to write one.
PortCalm(p) == /\ Calm(p, PortPlaces) /\ Heard(p) /\ TaskKept(p) /\ WordsKept /\ MemoKept(p)
               /\ pc'[p] = "read" => op[p] \in Setters

\* A call that returns.
Over(p) == Return(p, TRUE) \/ Return(p, FALSE)

LEMMA OverCalm ==
    ASSUME NEW p, Shaped(p), Over(p), board' = board
    PROVE  /\ \A S : UNCHANGED lib => Calm(p, S)
           /\ pc'[p] = "idle"
BY DEF Shaped, Over, Return, Goto, SetErr, Calm, Mine, Ends

LEMMA TaskBlocks ==
    ASSUME NEW p, PortShaped(p)
    PROVE  /\ UNCHANGED task => TaskKept(p)
           /\ \A f : task' = [task EXCEPT ![p] = f] /\ DOMAIN f = DOMAIN NoTask => TaskKept(p)
           /\ Fail(p) => TaskKept(p) /\ Over(p)
           /\ \A ids, val : Give(p, ids, val) => TaskKept(p) /\ Over(p)
           /\ \A ids, l : Transfer(p, ids, l) =>
                  TaskKept(p) /\ Continue(p, l) /\ SetErr(p, FALSE)
<1> USE DEF PortShaped, Shaped
<1>1. /\ UNCHANGED task => TaskKept(p)
      /\ \A f : task' = [task EXCEPT ![p] = f] /\ DOMAIN f = DOMAIN NoTask => TaskKept(p)
  BY DEF TaskKept
<1>2. Fail(p) => TaskKept(p) /\ Over(p)
  BY <1>1 DEF Fail, Over
<1>3. ASSUME NEW ids, NEW val, Give(p, ids, val) PROVE TaskKept(p) /\ Over(p)
  <2> DEFINE f == [NoTask EXCEPT !.ids = ids, !.set = task[p].set, !.val = val]
  <2>1. DOMAIN f = DOMAIN NoTask
    OBVIOUS
  <2>2. task' = [task EXCEPT ![p] = f]
    BY <1>3 DEF Give
  <2> HIDE DEF f
  <2>3. QED BY <1>1, <1>3, <2>1, <2>2 DEF Give, Over
<1>4. ASSUME NEW ids, NEW l, Transfer(p, ids, l)
      PROVE  TaskKept(p) /\ Continue(p, l) /\ SetErr(p, FALSE)
  <2> DEFINE f == [task[p] EXCEPT !.ids = ids, !.at = 1]
  <2>1. DOMAIN f = DOMAIN NoTask
    OBVIOUS
  <2>2. task' = [task EXCEPT ![p] = f]
    BY <1>4 DEF Transfer
  <2> HIDE DEF f
  <2>3. QED BY <1>1, <1>4, <2>1, <2>2 DEF Transfer
<1>5. QED BY <1>1, <1>2, <1>3, <1>4

LEMMA MemoBlocks ==
    ASSUME NEW p, PortShaped(p)
    PROVE  /\ UNCHANGED memo => MemoKept(p)
           /\ \A f, v : f # "dscpt" /\ memo' = [memo EXCEPT ![p][f] = v] => MemoKept(p)
<1> USE DEF PortShaped, Shaped
<1>1. UNCHANGED memo => MemoKept(p)
  BY DEF MemoKept
<1>2. ASSUME NEW f, NEW v, f # "dscpt", memo' = [memo EXCEPT ![p][f] = v] PROVE MemoKept(p)
  <2> DEFINE m == [memo[p] EXCEPT ![f] = v]
  <2>1. DOMAIN m = DOMAIN memo[p] /\ m.dscpt = memo[p].dscpt
    BY <1>2 DEF NoMemo
  <2>2. memo' = [memo EXCEPT ![p] = m]
    BY <1>2
  <2> HIDE DEF m
  <2>3. QED BY <2>1, <2>2 DEF MemoKept
<1>3. QED BY <1>1, <1>2

(* A call that starts its transfers at l, ends, or tells something.        *)
Asks(p, o, l) == /\ Ready(p, o)
                 /\ \/ Fail(p)
                    \/ \E ids : Transfer(p, ids, l)
                    \/ \E ids, val : Give(p, ids, val)

LEMMA AsksCalm ==
    ASSUME NEW p, PortShaped(p), NEW o, NEW l \in PortPlaces, Asks(p, o, l),
           l = "read" => o \in Setters
    PROVE  PortCalm(p)
<1>1. /\ UNCHANGED <<board, poeinfo, faults, reg, memo>> /\ pc[p] = "args" /\ op[p] = o
      /\ Learn(p, lib[p]) \/ Learn(p, Detected(lib[p]))
  BY DEF Asks, Ready, Quietly
<1>2. TaskKept(p) /\ (Over(p) \/ (Continue(p, l) /\ SetErr(p, FALSE)))
  BY TaskBlocks DEF Asks
<1>3. Calm(p, PortPlaces)
  BY <1>1, <1>2 DEF Calm, Mine, Ends, Goes, Over, Return, Continue, Goto, SetErr, Learn, PortShaped, Shaped
<1>4. pc'[p] = "read" => op[p] \in Setters
  BY <1>1, <1>2 DEF Over, Return, Continue, Goto, PortShaped, Shaped
<1>5. QED BY <1>1, <1>2, <1>3, <1>4, MemoBlocks DEF PortCalm, Heard, WordsKept, PortShaped, Shaped

LEMMA InfoCalm ==
    ASSUME NEW p, PortShaped(p), NEW o, NEW kind, NEW c,
           InfoList(p, o, kind, c) \/ InfoOne(p, o, kind, c)
    PROVE  PortCalm(p)
<1>1. Asks(p, o, "mon")
  BY DEF InfoList, InfoOne, Asks
<1>2. QED BY <1>1, AsksCalm DEF PortPlaces

\* A call that makes transfers, from l on.
Working(o, l) == l \in PortPlaces /\ (l = "read" => o \in Setters)

LEMMA OneCalm ==
    ASSUME NEW p, PortShaped(p), NEW o, NEW kind, NEW c, NEW l, Working(o, l),
           \/ One(p, o, kind, c, l, TRUE) \/ Plain(p, o, l) \/ GetList(p, o, kind, c, l)
    PROVE  PortCalm(p)
<1>1. Asks(p, o, l)
  BY DEF One, Plain, GetList, List, Asks
<1>2. QED BY <1>1, AsksCalm DEF Working

LEMMA PowerCalm == ASSUME NEW p, PortShaped(p), Power(p) PROVE PortCalm(p)
<1>1. /\ \A o \in {"GetLANConfig", "GetPowerConfig"} \cup Meters : Working(o, "get")
      /\ \A o \in {"SetLANConfig", "SetPowerConfig"} : Working(o, "read")
  BY DEF Working, Meters, PortPlaces, Setters
<1>2. QED
  BY <1>1, OneCalm
  DEF Power, Meters, GetLANConfig, GetLANConfigNI, SetLANConfig, SetLANConfigNI, GetPowerConfig,
      GetPowerConfigNI, SetPowerConfig, SetPowerConfigNI, GetPower, GetTotalOnTimeMins,
      GetOnTimeSecs, GetPowerCounter, GetLastPowerStatus, GetBootCounter

LEMMA COMCalm == ASSUME NEW p, PortShaped(p), COMPorts(p) PROVE PortCalm(p)
<1>1. Working("GetCOMConfigs", "get") /\ Working("GetCOMConfig", "get")
      /\ Working("SetCOMConfigs", "read") /\ Working("SetCOMConfig", "read")
  BY DEF Working, PortPlaces, Setters
<1>2. GetCOMInfos(p) \/ GetCOMInfo(p) => PortCalm(p)
  BY InfoCalm DEF GetCOMInfos, GetCOMInfo
<1>3. GetCOMConfigs(p) => Asks(p, "GetCOMConfigs", "get")
  BY DEF GetCOMConfigs, List, Asks
<1>4. GetCOMConfig(p) => PortCalm(p)
  BY <1>1, OneCalm DEF GetCOMConfig
<1>5. SetCOMConfigs(p) => Asks(p, "SetCOMConfigs", "read")
  BY DEF SetCOMConfigs, List, Asks
<1>6. SetCOMConfig(p) => Asks(p, "SetCOMConfig", "read")
  BY DEF SetCOMConfig, One, Asks
<1>7. QED
  BY <1>1, <1>2, <1>3, <1>4, <1>5, <1>6, AsksCalm
  DEF Working, COMPorts, GetCOMInfosNI, GetCOMInfoNI, GetCOMConfigsNI, GetCOMConfigNI,
      SetCOMConfigsNI, SetCOMConfigNI

LEMMA MiniCalm == ASSUME NEW p, PortShaped(p), MiniSlots(p) PROVE PortCalm(p)
<1>1. /\ \A o \in {"GetminiPCIeConfigs", "GetminiPCIeConfig", "GetminiPCIeStats",
                   "GetminiPCIeStat"} : Working(o, "get")
      /\ \A o \in {"SetminiPCIeConfigs", "SetminiPCIeConfig"} : Working(o, "read")
  BY DEF Working, PortPlaces, Setters
<1>2. GetminiPCIeInfos(p) \/ GetminiPCIeInfo(p) => PortCalm(p)
  BY InfoCalm DEF GetminiPCIeInfos, GetminiPCIeInfo
<1>3. GetminiPCIeConfigs(p) \/ GetminiPCIeConfig(p) \/ GetminiPCIeStats(p) \/ GetminiPCIeStat(p)
      \/ SetminiPCIeConfig(p) => PortCalm(p)
  BY <1>1, OneCalm DEF GetminiPCIeConfigs, GetminiPCIeConfig, GetminiPCIeStats, GetminiPCIeStat,
     SetminiPCIeConfig
<1>4. SetminiPCIeConfigs(p) => Asks(p, "SetminiPCIeConfigs", "read")
  BY DEF SetminiPCIeConfigs, List, Asks
<1>5. QED
  BY <1>1, <1>2, <1>3, <1>4, AsksCalm
  DEF Working, MiniSlots, GetminiPCIeInfosNI, GetminiPCIeInfoNI, GetminiPCIeConfigsNI,
      GetminiPCIeConfigNI, SetminiPCIeConfigsNI, SetminiPCIeConfigNI, GetminiPCIeStatsNI,
      GetminiPCIeStatNI

LEMMA USBCalm == ASSUME NEW p, PortShaped(p), USBPorts(p) PROVE PortCalm(p)
<1>1. Working("GetUSBConfigs", "get") /\ Working("GetUSBConfig", "get")
      /\ Working("SetUSBConfigs", "read") /\ Working("SetUSBConfig", "read")
  BY DEF Working, PortPlaces, Setters
<1>2. GetUSBInfos(p) \/ GetUSBInfo(p) => PortCalm(p)
  BY InfoCalm DEF GetUSBInfos, GetUSBInfo
<1>3. GetUSBConfigs(p) \/ GetUSBConfig(p) \/ SetUSBConfig(p) => PortCalm(p)
  BY <1>1, OneCalm DEF GetUSBConfigs, GetUSBConfig, SetUSBConfig
<1>4. SetUSBConfigs(p) => Asks(p, "SetUSBConfigs", "read")
  BY DEF SetUSBConfigs, List, Asks
<1>5. QED
  BY <1>1, <1>2, <1>3, <1>4, AsksCalm
  DEF Working, USBPorts, GetUSBInfosNI, GetUSBInfoNI, GetUSBConfigsNI, GetUSBConfigNI,
      SetUSBConfigsNI, SetUSBConfigNI

LEMMA DogsCalm == ASSUME NEW p, PortShaped(p), Watchdogs(p) PROVE PortCalm(p)
<1>1. /\ \A o \in {"GetPowerupWDTConfig", "GetRuntimeWDTConfig", "GetRuntimeWDTStat"} :
             Working(o, "wget")
      /\ \A o \in {"SetPowerupWDTConfig", "SetPowerupWDTConfigNI", "SetRuntimeWDTConfig"} :
             Working(o, "wput")
  BY DEF Working, PortPlaces, Setters
<1>2. QED
  BY <1>1, OneCalm
  DEF Watchdogs, GetPowerupWDTConfig, GetPowerupWDTConfigNI, SetPowerupWDTConfig,
      SetPowerupWDTConfigNI, GetRuntimeWDTConfig, GetRuntimeWDTConfigNI, SetRuntimeWDTConfig,
      SetRuntimeWDTConfigNI, GetRuntimeWDTStat, GetRuntimeWDTStatNI

LEMMA FansCalm == ASSUME NEW p, PortShaped(p), FanGets(p) \/ FanSets(p) PROVE PortCalm(p)
<1>1. /\ \A o \in {"GetFanConfigs", "GetFanConfigsNI", "GetFanConfig", "GetFanStats",
                   "GetFanStat"} : Working(o, "each")
      /\ Working("GetFanConfigNI", "deaf")
      /\ Working("GetFanConfigs_1", "fmode") /\ Working("GetFanConfig_1", "fmode")
      /\ \A o \in {"SetFanConfigs", "SetFanConfigsNI", "SetFanConfig", "SetFanConfigs_1",
                   "SetFanConfigsNI_1", "SetFanConfig_1"} : Working(o, "fcfg")
  BY DEF Working, PortPlaces, Setters
<1>2. GetFanInfos(p) \/ GetFanInfo(p) => PortCalm(p)
  BY InfoCalm DEF GetFanInfos, GetFanInfo
<1>3. GetFanConfigs(p) \/ GetFanConfigsNI(p) \/ GetFanConfig(p) \/ GetFanConfigNI(p)
      \/ GetFanStats(p) \/ GetFanStat(p) \/ GetFanConfigs_1(p) => PortCalm(p)
  BY <1>1, OneCalm DEF GetFanConfigs, GetFanConfigsNI, GetFanConfig, GetFanConfigNI, GetFanStats,
     GetFanStat, GetFanConfigs_1
<1>4. SetFanConfigs(p) \/ SetFanConfigsNI(p) \/ SetFanConfig(p) \/ SetFanConfigs_1(p)
      \/ SetFanConfigsNI_1(p) \/ SetFanConfig_1(p) => PortCalm(p)
  BY <1>1, OneCalm DEF SetFanConfigs, SetFanConfigsNI, SetFanConfig, SetFanConfigs_1,
     SetFanConfigsNI_1, SetFanConfig_1
<1>5. GetFanConfig_1(p) => Asks(p, "GetFanConfig_1", "fmode")
  BY DEF GetFanConfig_1, Asks
<1>6. QED
  BY <1>1, <1>2, <1>3, <1>4, <1>5, AsksCalm
  DEF Working, FanGets, FanSets, GetFanInfosNI, GetFanInfoNI, GetFanStatsNI, GetFanStatNI,
      GetFanConfigsNI_1, GetFanConfigNI_1, SetFanConfigNI, SetFanConfigNI_1

LEMMA MonitorsCalm ==
    ASSUME NEW p, PortShaped(p), MonitorCalls(p), ~NextMonitor(p) PROVE PortCalm(p)
<1>1. Working("GetHWMonStats", "each") /\ Working("GetHWMonStat", "each")
  BY DEF Working, PortPlaces, Setters
<1>2. GetHWMonStats(p) \/ GetHWMonStat(p) => PortCalm(p)
  BY <1>1, OneCalm DEF GetHWMonStats, GetHWMonStat
<1>3. GetHWMonInfosA(p) => Asks(p, "GetHWMonInfosA", "mon")
  BY DEF GetHWMonInfosA, Asks
<1>4. GetHWMonInfoA(p) => Asks(p, "GetHWMonInfoA", "mon")
  BY DEF GetHWMonInfoA, Asks
<1>5. "mon" \in PortPlaces
  BY DEF PortPlaces
<1>6. QED
  BY <1>2, <1>3, <1>4, <1>5, AsksCalm
  DEF MonitorCalls, GetHWMonStatsNI, GetHWMonStatNI, GetHWMonInfosANI, GetHWMonInfosW,
      GetHWMonInfosWNI, GetHWMonInfoANI, GetHWMonInfoW, GetHWMonInfoWNI

LEMMA GoCalm ==
    ASSUME NEW p, Shaped(p), NEW x \in PortPlaces, Continue(p, x),
           board' = board, UNCHANGED lib, UNCHANGED err \/ \E e \in BOOLEAN : SetErr(p, e)
    PROVE  Calm(p, PortPlaces)
BY DEF Shaped, Continue, Goto, SetErr, Calm, Mine, Goes

LEMMA PortStepsCalm ==
    ASSUME NEW p, PortShaped(p), NEW ok \in BOOLEAN,
           \/ ReadPort(p, ok) \/ ReadWDT(p, ok) \/ RaiseWDT(p, ok) \/ WriteWDT(p, ok)
           \/ Each(p, ok) \/ ReadFanDeaf(p, ok) \/ ReadFanMode(p, ok)
           \/ WriteFanTemperatures(p, ok) \/ WriteFanDuty(p, ok)
           \/ ReadGains(p, ok) \/ ReadTypes(p, ok) \/ SelectMonitor(p, ok) \/ ReadMonitor(p, ok)
    PROVE  PortCalm(p)
<1> USE DEF PortShaped, Shaped
<1>1. CASE ReadPort(p, ok)
  <2>1. Calm(p, PortPlaces)
    BY <1>1, Hearing, TaskBlocks, OverCalm DEF ReadPort, KeepPorts, Calm, Mine, Goes, PortPlaces, Continue, Goto, SetErr
  <2>2. TaskKept(p)
    BY <1>1, TaskBlocks DEF ReadPort, KeepPorts, TaskKept
  <2>3. WordsKept /\ MemoKept(p)
    BY <1>1, MemoBlocks DEF ReadPort, KeepPorts, WordsKept, Words, Timer
  <2>4. Heard(p) /\ pc'[p] # "read"
    BY <1>1, Hearing, TaskBlocks, OverCalm DEF ReadPort, KeepPorts, Continue, Goto
  <2>5. QED BY <2>1, <2>2, <2>3, <2>4 DEF PortCalm
<1>2. CASE ReadWDT(p, ok)
  <2>1. Calm(p, PortPlaces)
    <3>1. board' = board /\ UNCHANGED lib /\ pc[p] = "wget"
      BY <1>2, Hearing DEF ReadWDT
    <3>2. CASE Over(p)
      BY <3>1, <3>2, OverCalm
    <3>3. CASE ~Over(p)
      <4>1. /\ Goto(p, "wfix") /\ UNCHANGED <<op, ret, err>>
        BY <1>2, <3>3, TaskBlocks DEF ReadWDT, Told
      <4>2. QED BY <3>1, <4>1 DEF Calm, Mine, Goes, PortPlaces, Goto
    <3>4. QED BY <3>2, <3>3
  <2>2. TaskKept(p)
    BY <1>2, TaskBlocks DEF ReadWDT, Told, Remember, TaskKept
  <2>3. WordsKept /\ MemoKept(p)
    BY <1>2, MemoBlocks DEF ReadWDT, Told, Remember, WordsKept, Words, Timer
  <2>4. Heard(p) /\ pc'[p] # "read"
    BY <1>2, Hearing, TaskBlocks, OverCalm DEF ReadWDT, Told, Remember, Continue, Goto
  <2>5. QED BY <2>1, <2>2, <2>3, <2>4 DEF PortCalm
<1>3. CASE RaiseWDT(p, ok)
  <2>1. Calm(p, PortPlaces)
    BY <1>3, Hearing, TaskBlocks, OverCalm DEF RaiseWDT, Told, Remember, Calm, Mine, Goes, PortPlaces, Continue, Goto, SetErr
  <2>2. TaskKept(p)
    BY <1>3, TaskBlocks DEF RaiseWDT, Told, Remember, TaskKept
  <2>3. WordsKept /\ MemoKept(p)
    BY <1>3, MemoBlocks DEF RaiseWDT, Told, Remember, WordsKept, Words, Timer
  <2>4. Heard(p) /\ pc'[p] # "read"
    BY <1>3, Hearing, TaskBlocks, OverCalm DEF RaiseWDT, Told, Remember, Continue, Goto
  <2>5. QED BY <2>1, <2>2, <2>3, <2>4 DEF PortCalm
<1>4. CASE WriteWDT(p, ok)
  <2>1. Calm(p, PortPlaces)
    BY <1>4, Hearing, TaskBlocks, OverCalm DEF WriteWDT, Calm, Mine, Goes, PortPlaces, Continue, Goto, SetErr
  <2>2. TaskKept(p)
    BY <1>4, TaskBlocks DEF WriteWDT, TaskKept
  <2>3. WordsKept /\ MemoKept(p)
    BY <1>4, MemoBlocks DEF WriteWDT, WordsKept, Words, Timer
  <2>4. Heard(p) /\ pc'[p] # "read"
    BY <1>4, Hearing, TaskBlocks, OverCalm DEF WriteWDT, Continue, Goto
  <2>5. QED BY <2>1, <2>2, <2>3, <2>4 DEF PortCalm
<1>5. CASE Each(p, ok)
  <2>1. Calm(p, PortPlaces)
    <3> DEFINE e == err[p] \/ ~ok
    <3>1. e \in BOOLEAN /\ "each" \in PortPlaces
      BY <1>5, Zenon DEF Each, PortPlaces
    <3>2. board' = board /\ UNCHANGED lib
      BY <1>5, Hearing DEF Each
    <3>3. (Fail(p) \/ \E ids, val : Give(p, ids, val)) \/ (Continue(p, "each") /\ SetErr(p, e))
      BY <1>5, Zenon DEF Each
    <3>4. Over(p) \/ (Continue(p, "each") /\ SetErr(p, e))
      BY <3>3, TaskBlocks
    <3> HIDE DEF e
    <3>5. QED BY <3>1, <3>2, <3>4, OverCalm, GoCalm
  <2>2. TaskKept(p)
    BY <1>5, TaskBlocks DEF Each, KeepPorts, TaskKept
  <2>3. WordsKept /\ MemoKept(p)
    BY <1>5, MemoBlocks DEF Each, KeepPorts, WordsKept, Words, Timer
  <2>4. Heard(p) /\ pc'[p] # "read"
    BY <1>5, Hearing, TaskBlocks, OverCalm DEF Each, KeepPorts, Continue, Goto
  <2>5. QED BY <2>1, <2>2, <2>3, <2>4 DEF PortCalm
<1>6. CASE ReadFanDeaf(p, ok)
  <2>1. Calm(p, PortPlaces)
    BY <1>6, Hearing, TaskBlocks, OverCalm DEF ReadFanDeaf, KeepPorts, Calm, Mine, Goes, PortPlaces, Continue, Goto, SetErr
  <2>2. TaskKept(p)
    BY <1>6, TaskBlocks DEF ReadFanDeaf, KeepPorts, TaskKept
  <2>3. WordsKept /\ MemoKept(p)
    BY <1>6, MemoBlocks DEF ReadFanDeaf, KeepPorts, WordsKept, Words, Timer
  <2>4. Heard(p) /\ pc'[p] # "read"
    BY <1>6, Hearing, TaskBlocks, OverCalm DEF ReadFanDeaf, KeepPorts, Continue, Goto
  <2>5. QED BY <2>1, <2>2, <2>3, <2>4 DEF PortCalm
<1>7. CASE ReadFanMode(p, ok)
  <2>1. Calm(p, PortPlaces)
    BY <1>7, Hearing, TaskBlocks, OverCalm DEF ReadFanMode, KeepPorts, Calm, Mine, Goes, PortPlaces, Continue, Goto, SetErr
  <2>2. TaskKept(p)
    BY <1>7, TaskBlocks DEF ReadFanMode, KeepPorts, TaskKept
  <2>3. WordsKept /\ MemoKept(p)
    BY <1>7, MemoBlocks DEF ReadFanMode, KeepPorts, WordsKept, Words, Timer
  <2>4. Heard(p) /\ pc'[p] # "read"
    BY <1>7, Hearing, TaskBlocks, OverCalm DEF ReadFanMode, KeepPorts, Continue, Goto
  <2>5. QED BY <2>1, <2>2, <2>3, <2>4 DEF PortCalm
<1>8. CASE WriteFanTemperatures(p, ok)
  <2>1. Calm(p, PortPlaces)
    BY <1>8, Hearing, TaskBlocks, OverCalm DEF WriteFanTemperatures, Calm, Mine, Goes, PortPlaces, Continue, Goto, SetErr
  <2>2. TaskKept(p)
    BY <1>8, TaskBlocks DEF WriteFanTemperatures, TaskKept
  <2>3. WordsKept /\ MemoKept(p)
    BY <1>8, MemoBlocks DEF WriteFanTemperatures, WordsKept, Words, Timer
  <2>4. Heard(p) /\ pc'[p] # "read"
    BY <1>8, Hearing, TaskBlocks, OverCalm DEF WriteFanTemperatures, Continue, Goto
  <2>5. QED BY <2>1, <2>2, <2>3, <2>4 DEF PortCalm
<1>9. CASE WriteFanDuty(p, ok)
  <2>1. Calm(p, PortPlaces)
    <3> DEFINE e == err[p] \/ ~ok
    <3>1. e \in BOOLEAN /\ "fpwm" \in PortPlaces
      BY <1>9, Zenon DEF WriteFanDuty, PortPlaces
    <3>2. board' = board /\ UNCHANGED lib
      BY <1>9, Hearing DEF WriteFanDuty
    <3>3. (Fail(p) \/ \E ids, val : Give(p, ids, val)) \/ (Continue(p, "fpwm") /\ SetErr(p, e))
      BY <1>9, Zenon DEF WriteFanDuty, Step
    <3>4. Over(p) \/ (Continue(p, "fpwm") /\ SetErr(p, e))
      BY <3>3, TaskBlocks
    <3> HIDE DEF e
    <3>5. QED BY <3>1, <3>2, <3>4, OverCalm, GoCalm
  <2>2. TaskKept(p)
    BY <1>9, TaskBlocks DEF WriteFanDuty, Step, TaskKept
  <2>3. WordsKept /\ MemoKept(p)
    BY <1>9, MemoBlocks DEF WriteFanDuty, Step, WordsKept, Words, Timer
  <2>4. Heard(p) /\ pc'[p] # "read"
    BY <1>9, Hearing, TaskBlocks, OverCalm DEF WriteFanDuty, Step, Continue, Goto
  <2>5. QED BY <2>1, <2>2, <2>3, <2>4 DEF PortCalm
<1>10. CASE ReadGains(p, ok)
  <2>1. Calm(p, PortPlaces)
    <3>1. "type" \in PortPlaces
      BY <1>10 DEF ReadGains, PortPlaces
    <3>2. board' = board /\ UNCHANGED lib
      BY <1>10, Hearing DEF ReadGains
    <3>3. (Fail(p) \/ \E ids, val : Give(p, ids, val)) \/ (Continue(p, "type") /\ UNCHANGED err)
      BY <1>10, Zenon DEF ReadGains
    <3>4. Over(p) \/ (Continue(p, "type") /\ UNCHANGED err)
      BY <3>3, TaskBlocks
    <3>5. QED BY <3>1, <3>2, <3>4, OverCalm, GoCalm
  <2>2. TaskKept(p)
    BY <1>10, TaskBlocks DEF ReadGains, KeepPorts, TaskKept
  <2>3. WordsKept /\ MemoKept(p)
    BY <1>10, MemoBlocks DEF ReadGains, KeepPorts, WordsKept, Words, Timer
  <2>4. Heard(p) /\ pc'[p] # "read"
    BY <1>10, Hearing, TaskBlocks, OverCalm DEF ReadGains, KeepPorts, Continue, Goto
  <2>5. QED BY <2>1, <2>2, <2>3, <2>4 DEF PortCalm
<1>11. CASE ReadTypes(p, ok)
  <2>1. Calm(p, PortPlaces)
    <3>1. "args" \in PortPlaces
      BY <1>11 DEF ReadTypes, PortPlaces
    <3>2. board' = board /\ UNCHANGED lib
      BY <1>11, Hearing DEF ReadTypes
    <3>3. (Fail(p) \/ \E ids, val : Give(p, ids, val)) \/ (Continue(p, "args") /\ UNCHANGED err)
      BY <1>11, Zenon DEF ReadTypes
    <3>4. Over(p) \/ (Continue(p, "args") /\ UNCHANGED err)
      BY <3>3, TaskBlocks
    <3>5. QED BY <3>1, <3>2, <3>4, OverCalm, GoCalm
  <2>2. TaskKept(p)
    BY <1>11, TaskBlocks DEF ReadTypes, Remember, TaskKept
  <2>3. WordsKept /\ MemoKept(p)
    BY <1>11, MemoBlocks DEF ReadTypes, Remember, WordsKept, Words, Timer
  <2>4. Heard(p) /\ pc'[p] # "read"
    BY <1>11, Hearing, TaskBlocks, OverCalm DEF ReadTypes, Remember, Continue, Goto
  <2>5. QED BY <2>1, <2>2, <2>3, <2>4 DEF PortCalm
<1>12. CASE SelectMonitor(p, ok)
  <2>1. Calm(p, PortPlaces)
    BY <1>12, Hearing, TaskBlocks, OverCalm DEF SelectMonitor, Tell, Calm, Mine, Goes, PortPlaces, Continue, Goto, SetErr
  <2>2. TaskKept(p)
    BY <1>12, TaskBlocks DEF SelectMonitor, Tell, TaskKept
  <2>3. WordsKept /\ MemoKept(p)
    BY <1>12, MemoBlocks DEF SelectMonitor, Tell, WordsKept, Words, Timer
  <2>4. Heard(p) /\ pc'[p] # "read"
    BY <1>12, Hearing, TaskBlocks, OverCalm DEF SelectMonitor, Tell, Continue, Goto
  <2>5. QED BY <2>1, <2>2, <2>3, <2>4 DEF PortCalm
<1>13. CASE ReadMonitor(p, ok)
  <2>1. Calm(p, PortPlaces)
    <3> DEFINE e == ~(ok /\ reg.monsel = task[p].ids[task[p].at])
    <3>1. e \in BOOLEAN /\ "mon" \in PortPlaces
      BY Zenon DEF PortPlaces
    <3>2. board' = board /\ UNCHANGED lib /\ Continue(p, "mon") /\ SetErr(p, e)
      BY <1>13, Hearing DEF ReadMonitor
    <3> HIDE DEF e
    <3>3. QED BY <3>1, <3>2, GoCalm
  <2>2. TaskKept(p)
    BY <1>13, TaskBlocks DEF ReadMonitor, Tell, TaskKept
  <2>3. WordsKept /\ MemoKept(p)
    <3>1. WordsKept
      BY <1>13 DEF ReadMonitor, WordsKept
    <3> DEFINE i == task[p].ids[task[p].at]
               new == IF (ok /\ reg.monsel = i) /\ ~reg.blank THEN reg.monsel ELSE 0
               d == [memo[p].dscpt EXCEPT ![i] = new]
               m == [memo[p] EXCEPT !.dscpt = d]
    <3>2. memo' = [memo EXCEPT ![p].dscpt[i] = new]
      BY <1>13 DEF ReadMonitor
    <3>3. new \in {0, i}
      OBVIOUS
    <3> HIDE DEF i, new
    <3>4. memo' = [memo EXCEPT ![p] = m]
      BY <3>2
    <3>5. DOMAIN d = DOMAIN memo[p].dscpt
          /\ \A j \in DOMAIN memo[p].dscpt : d[j] \in {memo[p].dscpt[j], 0, j}
      BY <3>3
    <3>6. DOMAIN m = DOMAIN memo[p] /\ m.dscpt = d
      BY DEF NoMemo
    <3> HIDE DEF m, d
    <3>7. MemoKept(p)
      BY <3>4, <3>5, <3>6 DEF MemoKept
    <3>8. QED BY <3>1, <3>7
  <2>4. Heard(p) /\ pc'[p] # "read"
    BY <1>13, Hearing, TaskBlocks, OverCalm DEF ReadMonitor, Tell, Continue, Goto
  <2>5. QED BY <2>1, <2>2, <2>3, <2>4 DEF PortCalm
<1>14. QED BY <1>1, <1>2, <1>3, <1>4, <1>5, <1>6, <1>7, <1>8, <1>9, <1>10, <1>11, <1>12, <1>13

LEMMA NextMonitorCalm ==
    ASSUME NEW p, PortShaped(p), NextMonitor(p) PROVE PortCalm(p)
<1> USE DEF PortShaped, Shaped
<1>1. pc[p] = "mon" /\ "mon" \in PortPlaces /\ "msel" \in PortPlaces
  BY DEF NextMonitor, PortPlaces
<1>2. board' = board /\ UNCHANGED lib /\ UNCHANGED <<reg, memo>> /\ Heard(p)
  BY DEF NextMonitor, Quietly, KeepPorts, Heard
<1> DEFINE i == task[p].ids[task[p].at]
           known == i \in 1..memo[p].mon /\ memo[p].dscpt[i] = 0
<1>3. CASE task[p].at > Len(task[p].ids)
  <2>1. Give(p, task[p].ids, task[p].val)
    BY <1>3 DEF NextMonitor
  <2>2. TaskKept(p) /\ Over(p)
    BY <2>1, TaskBlocks
  <2>3. QED BY <1>2, <2>2, OverCalm, MemoBlocks DEF PortCalm, WordsKept
<1>4. CASE ~(task[p].at > Len(task[p].ids))
  <2>1. UNCHANGED err /\ (Continue(p, "msel") \/ Continue(p, "mon"))
        /\ (UNCHANGED task \/ \E v : Tell(p, v))
    BY <1>4 DEF NextMonitor
  <2>2. Calm(p, PortPlaces)
    BY <1>1, <1>2, <2>1, GoCalm
  <2>3. TaskKept(p)
    BY <2>1 DEF Tell, TaskKept
  <2>4. pc'[p] # "read"
    BY <2>1 DEF Continue, Goto
  <2>5. QED BY <1>2, <2>2, <2>3, <2>4, MemoBlocks DEF PortCalm, WordsKept
<1>5. QED BY <1>3, <1>4

-----------------------------------------------------------------------------
(* The words that hold bits of several devices.                            *)

RegShaped == /\ Words \cup {"pwm", "pwrup", "run", "monsel"} \subseteq DOMAIN reg
             /\ DOMAIN reg.busgpio = {"lan", "spare"}
             /\ DOMAIN reg.aiccfg = {"mode", "timer", "auto"}

\* A word about to be written has the fields of its register, and a USB port on.
Sized(p) ==
    /\ pc[p] \in {"read", "write"} => op[p] \in Setters
    /\ pc[p] = "write" =>
         /\ op[p] = "SetLANConfig" => DOMAIN task[p].buf = {"lan", "spare"}
         /\ op[p] = "SetPowerConfig" => DOMAIN task[p].buf = {"mode", "timer", "auto"}
         /\ op[p] \in USBCalls => \E i \in DOMAIN task[p].buf : task[p].buf[i]
    /\ pc[p] = "fwr" => DOMAIN task[p].buf = {"mode", "timer", "auto"}

\* The word new has what the call o on ids leaves alone as the word old has it.
Beside(o, ids, new, old) ==
    CASE o = "SetLANConfig" -> new.spare = old.spare
      [] o = "SetPowerConfig" -> new.auto = old.auto
      [] OTHER -> \A d \in DOMAIN old : (\A i \in DOMAIN ids : ids[i] # d) => new[d] = old[d]
FansBeside(ids, new, old) ==
    /\ new.mode = old.mode /\ new.timer = old.timer
    /\ \A d \in DOMAIN old.auto : (\A i \in DOMAIN ids : ids[i] # d) => new.auto[d] = old.auto[d]

\* A word about to be written is the register's but for the call's own bits.
Meant(p) ==
    /\ pc[p] = "write" => Beside(op[p], task[p].ids, task[p].buf, reg[Word(op[p])])
    /\ pc[p] = "fwr" /\ (op[p] \in {"SetFanConfigsNI", "SetFanConfigsNI_1"} => ~err[p]) =>
           FansBeside(task[p].ids, task[p].buf, reg.aiccfg)

LEMMA WordOf ==
    ASSUME NEW o \in Setters
    PROVE  /\ Word(o) \in Words
           /\ Word(o) = "usb" => o \in USBCalls
           /\ o \in USBCalls => Word(o) = "usb"
           /\ Word(o) = "busgpio" <=> o = "SetLANConfig"
           /\ Word(o) = "aiccfg" <=> o = "SetPowerConfig"
BY DEF Setters, Words, Word, COMCalls, MiniCalls, MiniInfos, USBCalls, USBInfos

LEMMA MergedBeside ==
    ASSUME NEW o, NEW w, NEW ids, NEW set,
           o = "SetLANConfig" => DOMAIN w = {"lan", "spare"},
           o = "SetPowerConfig" => DOMAIN w = {"mode", "timer", "auto"}
    PROVE  /\ Beside(o, ids, Merged(o, w, ids, set), w)
           /\ DOMAIN Merged(o, w, ids, set) = DOMAIN w
BY DEF Beside, Merged

\* What the step of a word means for the words: read, the call's own bits
\* changed; written, one word of the register.
LEMMA ReadToSetCalm ==
    ASSUME NEW p, PortShaped(p), RegShaped, Sized(p), NEW ok \in BOOLEAN, ReadToSet(p, ok)
    PROVE  /\ Calm(p, PortPlaces \cup PortWrites) /\ Heard(p) /\ TaskKept(p) /\ reg' = reg
           /\ memo' = memo /\ pc'[p] \notin {"read", "fwr"} /\ op'[p] = op[p]
           /\ Sized(p)' /\ Meant(p)'
<1> USE DEF PortShaped, Shaped
<1> DEFINE new == Merged(op[p], reg[Word(op[p])], task[p].ids, task[p].set)
<1>1. /\ pc[p] = "read" /\ board' = board /\ Heard(p) /\ UNCHANGED <<lib, reg, memo>>
      /\ op[p] \in Setters
  BY Hearing DEF ReadToSet, KeepPorts, Sized
<1>2. \/ Fail(p) \/ \E ids, val : Give(p, ids, val)
      \/ /\ Continue(p, "write") /\ UNCHANGED err /\ Allowed(op[p], new)
         /\ task' = [task EXCEPT ![p].buf = new]
  BY DEF ReadToSet
<1> HIDE DEF new
<1>3. CASE Fail(p) \/ \E ids, val : Give(p, ids, val)
  <2>1. TaskKept(p) /\ Over(p)
    BY <1>3, TaskBlocks
  <2>2. Calm(p, PortPlaces \cup PortWrites) /\ pc'[p] = "idle"
    BY <1>1, <2>1, OverCalm
  <2>3. QED BY <1>1, <2>1, <2>2 DEF Sized, Meant, Calm
<1>4. CASE /\ Continue(p, "write") /\ UNCHANGED err /\ Allowed(op[p], new)
           /\ task' = [task EXCEPT ![p].buf = new]
  <2>1. Calm(p, PortPlaces \cup PortWrites)
    BY <1>1, <1>4 DEF Calm, Mine, Goes, PortWrites, Continue, Goto
  <2>2. TaskKept(p) /\ task'[p].buf = new /\ task'[p].ids = task[p].ids
    BY <1>4 DEF TaskKept, NoTask
  <2>3. pc'[p] = "write" /\ op'[p] = op[p]
    BY <1>4 DEF Continue, Goto
  <2>4. /\ Beside(op[p], task[p].ids, new, reg[Word(op[p])])
        /\ DOMAIN new = DOMAIN reg[Word(op[p])]
    <3>1. /\ op[p] = "SetLANConfig" => DOMAIN reg[Word(op[p])] = {"lan", "spare"}
          /\ op[p] = "SetPowerConfig" => DOMAIN reg[Word(op[p])] = {"mode", "timer", "auto"}
      BY <1>1, WordOf DEF RegShaped
    <3> DEFINE w == reg[Word(op[p])]
    <3>2. new = Merged(op[p], w, task[p].ids, task[p].set)
      BY DEF new
    <3> HIDE DEF w
    <3>3. /\ op[p] = "SetLANConfig" => DOMAIN w = {"lan", "spare"}
          /\ op[p] = "SetPowerConfig" => DOMAIN w = {"mode", "timer", "auto"}
      BY <3>1 DEF w
    <3>4. Beside(op[p], task[p].ids, new, w) /\ DOMAIN new = DOMAIN w
      BY <3>2, <3>3, MergedBeside
    <3>5. QED BY <3>4 DEF w
  <2>5. Sized(p)'
    <3>1. /\ op[p] = "SetLANConfig" => DOMAIN new = {"lan", "spare"}
          /\ op[p] = "SetPowerConfig" => DOMAIN new = {"mode", "timer", "auto"}
      BY <1>1, <2>4, WordOf DEF RegShaped
    <3>2. op[p] \in USBCalls => \E i \in DOMAIN new : new[i]
      BY <1>4 DEF Allowed
    <3>3. QED BY <1>1, <2>2, <2>3, <3>1, <3>2 DEF Sized
  <2>6. Meant(p)'
    BY <1>1, <2>2, <2>3, <2>4 DEF Meant
  <2>7. QED BY <1>1, <2>1, <2>2, <2>3, <2>5, <2>6
<1>5. QED BY <1>2, <1>3, <1>4

LEMMA WritePortCalm ==
    ASSUME NEW p, PortShaped(p), RegShaped, Sized(p), NEW ok \in BOOLEAN,
           WritePort(p, ok)
    PROVE  /\ Calm(p, PortPlaces) /\ Heard(p) /\ TaskKept(p) /\ memo' = memo /\ pc'[p] = "idle"
           /\ pc[p] = "write"
           /\ reg' \in {reg, [reg EXCEPT ![Word(op[p])] = task[p].buf]}
           /\ RegShaped' /\ (UsbStaysOn => UsbStaysOn')
<1> USE DEF PortShaped, Shaped
<1>1. /\ pc[p] = "write" /\ board' = board /\ Heard(p) /\ UNCHANGED <<lib, memo>>
      /\ reg' \in {reg, [reg EXCEPT ![Word(op[p])] = task[p].buf]}
  BY Hearing DEF WritePort
<1>2. TaskKept(p) /\ Over(p)
  BY TaskBlocks DEF WritePort
<1>3. RegShaped' /\ (UsbStaysOn => UsbStaysOn')
  <2>1. op[p] \in Setters /\ Word(op[p]) \in DOMAIN reg
    BY <1>1, WordOf DEF Sized
  <2>2. CASE reg' = reg
    BY <2>2 DEF RegShaped, UsbStaysOn
  <2>3. CASE reg' = [reg EXCEPT ![Word(op[p])] = task[p].buf]
    <3>1. RegShaped'
      <4>1. DOMAIN reg' = DOMAIN reg
        BY <2>3
      <4>2. DOMAIN reg'.busgpio = {"lan", "spare"} /\ DOMAIN reg'.aiccfg = {"mode", "timer", "auto"}
        BY <1>1, <2>1, <2>3, WordOf DEF Sized, RegShaped, Words
      <4>3. QED BY <4>1, <4>2 DEF RegShaped
    <3>2. CASE Word(op[p]) = "usb"
      <4>1. \E i \in DOMAIN task[p].buf : task[p].buf[i]
        BY <1>1, <2>1, <3>2, WordOf DEF Sized
      <4>2. reg'.usb = task[p].buf
        BY <2>1, <2>3, <3>2
      <4>3. QED BY <3>1, <4>1, <4>2 DEF UsbStaysOn
    <3>3. CASE Word(op[p]) # "usb"
      BY <2>1, <2>3, <3>1, <3>3 DEF UsbStaysOn
    <3>4. QED BY <3>2, <3>3
  <2>4. QED BY <1>1, <2>2, <2>3
<1>4. QED BY <1>1, <1>2, <1>3, OverCalm

LEMMA ModesBeside ==
    ASSUME NEW p, NEW w, DOMAIN w = {"mode", "timer", "auto"}
    PROVE  /\ FansBeside(task[p].ids, Modes(p, w), w)
           /\ DOMAIN Modes(p, w) = {"mode", "timer", "auto"}
<1> DEFINE t == task[p]
           Listed(d) == {i \in DOMAIN t.ids : t.ids[i] = d /\ t.set[i].auto # "keep"}
           auto == [d \in DOMAIN w.auto |->
                       IF Listed(d) = {} THEN w.auto[d]
                       ELSE op[p] \in NewForm
                            /\ t.set[CHOOSE i \in Listed(d) : \A j \in Listed(d) : j <= i].auto = "auto"]
<1>1. Modes(p, w) = [w EXCEPT !.auto = auto]
  BY Zenon DEF Modes
<1>2. ASSUME NEW d \in DOMAIN w.auto, \A i \in DOMAIN t.ids : t.ids[i] # d
      PROVE  auto[d] = w.auto[d]
  <2>1. Listed(d) = {}
    BY <1>2
  <2>2. QED BY <2>1, Zenon
<1> HIDE DEF auto
<1>3. QED BY <1>1, <1>2 DEF FansBeside

LEMMA ReadFanWordCalm ==
    ASSUME NEW p, PortShaped(p), RegShaped, NEW ok \in BOOLEAN, ReadFanWord(p, ok)
    PROVE  /\ Calm(p, PortPlaces \cup PortWrites) /\ Heard(p) /\ TaskKept(p) /\ reg' = reg
           /\ memo' = memo /\ pc'[p] \notin {"read", "write"} /\ op'[p] = op[p]
           /\ Sized(p)' /\ Meant(p)'
<1> USE DEF PortShaped, Shaped
<1> DEFINE w == IF ok THEN reg.aiccfg ELSE Zeroed
           new == Modes(p, w)
           e == ~ok
           writes == /\ ok \/ op[p] \in {"SetFanConfigsNI", "SetFanConfigsNI_1"}
                     /\ task[p].set[1].auto # "keep"
           x == CASE writes -> "fwr"
                  [] ~writes /\ op[p] \in NewForm /\ task[p].set[1].auto # "keep" -> "ftrig"
                  [] OTHER -> "fpwm"
<1>1. /\ pc[p] = "fcfg" /\ board' = board /\ Heard(p) /\ UNCHANGED <<lib, reg, memo>>
      /\ SetErr(p, e) /\ Continue(p, x) /\ task' = [task EXCEPT ![p].buf = new]
  BY Hearing, Zenon DEF ReadFanWord, KeepPorts
<1>2. /\ x \in {"fwr", "ftrig", "fpwm"}
      /\ x = "fwr" => ok \/ op[p] \in {"SetFanConfigsNI", "SetFanConfigsNI_1"}
  <2>1. writes \in BOOLEAN
    BY Zenon
  <2>2. writes => ok \/ op[p] \in {"SetFanConfigsNI", "SetFanConfigsNI_1"}
    OBVIOUS
  <2> HIDE DEF writes
  <2>3. QED BY <2>1, <2>2
<1>3. e \in BOOLEAN /\ (e <=> ~ok)
  BY Zenon
<1>4. DOMAIN w = {"mode", "timer", "auto"} /\ (ok => w = reg.aiccfg)
  BY DEF RegShaped, Zeroed
<1>5. /\ DOMAIN new = {"mode", "timer", "auto"}
      /\ ok => FansBeside(task[p].ids, new, reg.aiccfg)
  <2> HIDE DEF w
  <2>1. QED BY <1>4, ModesBeside
<1> HIDE DEF w, new, e, writes, x
<1>6. Calm(p, PortPlaces \cup PortWrites)
  BY <1>1, <1>2, <1>3 DEF Calm, Mine, Goes, PortWrites, PortPlaces, Continue, Goto, SetErr
<1>7. TaskKept(p) /\ task'[p].buf = new /\ task'[p].ids = task[p].ids
  BY <1>1 DEF TaskKept, NoTask
<1>8. pc'[p] = x /\ op'[p] = op[p] /\ err'[p] = e
  BY <1>1 DEF Continue, Goto, SetErr
<1>9. Sized(p)'
  BY <1>2, <1>5, <1>7, <1>8 DEF Sized
<1>10. Meant(p)'
  BY <1>1, <1>2, <1>3, <1>5, <1>7, <1>8 DEF Meant
<1>11. QED BY <1>1, <1>2, <1>6, <1>7, <1>8, <1>9, <1>10

LEMMA WriteFanWordCalm ==
    ASSUME NEW p, PortShaped(p), RegShaped, Sized(p), NEW ok \in BOOLEAN,
           WriteFanWord(p, ok)
    PROVE  /\ Calm(p, PortPlaces) /\ Heard(p) /\ TaskKept(p) /\ memo' = memo
           /\ pc[p] = "fwr" /\ pc'[p] \in {"ftrig", "fpwm"}
           /\ reg' \in {reg, [reg EXCEPT !.aiccfg = task[p].buf]}
           /\ RegShaped' /\ (UsbStaysOn => UsbStaysOn')
<1> USE DEF PortShaped, Shaped
<1> DEFINE e == err[p] \/ ~ok
           x == IF op[p] \in NewForm THEN "ftrig" ELSE "fpwm"
<1>1. /\ pc[p] = "fwr" /\ board' = board /\ Heard(p) /\ UNCHANGED <<lib, memo, task>>
      /\ reg' \in {reg, [reg EXCEPT !.aiccfg = task[p].buf]}
  BY Hearing DEF WriteFanWord
<1>2. SetErr(p, e) /\ Continue(p, x)
  BY Zenon DEF WriteFanWord
<1>3. e \in BOOLEAN /\ x \in {"ftrig", "fpwm"}
  BY Zenon
<1> HIDE DEF e, x
<1>4. Calm(p, PortPlaces) /\ pc'[p] = x
  BY <1>1, <1>2, <1>3 DEF Calm, Mine, Goes, PortPlaces, Continue, Goto, SetErr
<1>5. RegShaped' /\ (UsbStaysOn => UsbStaysOn')
  <2>1. {"aiccfg", "usb", "busgpio"} \subseteq DOMAIN reg /\ DOMAIN task[p].buf = {"mode", "timer", "auto"}
    BY <1>1 DEF Sized, Words
  <2> DEFINE b == task[p].buf
  <2> HIDE DEF b
  <2>2. reg' = reg \/ reg' = [reg EXCEPT !.aiccfg = b]
    BY <1>1 DEF b
  <2>3. DOMAIN reg' = DOMAIN reg /\ reg'.usb = reg.usb /\ reg'.busgpio = reg.busgpio
        /\ reg'.aiccfg \in {reg.aiccfg, b}
    BY <2>1, <2>2
  <2>4. QED BY <2>1, <2>3 DEF RegShaped, UsbStaysOn, b
<1>6. TaskKept(p)
  BY <1>1, TaskBlocks
<1>7. QED BY <1>1, <1>3, <1>4, <1>5, <1>6

-----------------------------------------------------------------------------
(* A call begins, or counts.                                               *)

\* Where a call makes the transfers it is for, and a step of p alone that does
\* not lead there.
Works == {"get", "read", "wget", "wfix", "wput", "each", "deaf", "fmode", "fcfg", "ftrig", "fpwm",
          "mon", "msel", "mread"} \cup PortWrites \cup PoeWrites
Apart(p) == Mine(p) /\ pc'[p] \notin Works

LEMMA BuildingApart ==
    ASSUME CountsInv, NEW p \in Procs, scene' = scene, board' = board
    PROVE  /\ \A ok, l : Return(p, ok) /\ Learn(p, l) => Apart(p)
           /\ \A x, l, e : x \notin Works
                           /\ Continue(p, x) /\ Learn(p, l) /\ SetErr(p, e) => Apart(p)
BY DEF CountsInv, Types, Return, Continue, Goto, Learn, SetErr, Apart, Mine, Works, PortWrites, PoeWrites

LEMMA FirstStepApart ==
    ASSUME NEW o PROVE FirstStep(o) \notin Works
BY DEF FirstStep, Works, PortWrites, PoeWrites

LEMMA EnterApart ==
    ASSUME CountsInv, NEW p \in Procs, NEW o, NEW x, Enter(p, o, x), scene' = scene,
           x \notin Works
    PROVE  Apart(p)
BY DEF CountsInv, Types, Enter, Goto, SetErr, Apart, Mine, Works, PortWrites, PoeWrites

LEMMA AskCountsApart ==
    ASSUME CountsInv, NEW p \in Procs, AskCounts(p), scene' = scene
    PROVE  Apart(p)
<1>1. ASSUME NEW o, Query(p, o) PROVE Apart(p)
  <2>1. CASE Hit(p, o)
    BY <2>1 DEF CountsInv, Types, Hit, SetErr, Apart, Mine, Works, PortWrites, PoeWrites
  <2>2. CASE Enter(p, o, IF lib[p].id THEN FirstStep(o) ELSE "efcoid")
    BY <2>2, EnterApart, FirstStepApart DEF Works, PortWrites, PoeWrites
  <2>3. QED BY <1>1, <2>1, <2>2 DEF Query
<1>2. CASE CountOnly(p)
  BY <1>2, EnterApart DEF CountOnly, CountEntry, Works, PortWrites, PoeWrites
<1>3. CASE CountDone(p)
  BY <1>3, BuildingApart DEF CountDone
<1>4. ASSUME NEW ok \in BOOLEAN, Read(ok) \/ \E x : WriteInfo(ok, x) PROVE board' = board
  BY <1>4 DEF Read, WriteInfo
<1>5. /\ UNCHANGED lib => Learn(p, lib[p])
      /\ UNCHANGED err => SetErr(p, err[p])
  BY Same DEF CountsInv
<1>6. ASSUME NEW l, NEW e, Counted(p, l, e), board' = board PROVE Apart(p)
  BY <1>5, <1>6, BuildingApart DEF Counted, Works, PortWrites, PoeWrites
<1>7. ASSUME NEW ok \in BOOLEAN, EfcoId(p, ok) PROVE Apart(p)
  BY <1>4, <1>5, <1>7, BuildingApart, FirstStepApart DEF EfcoId
<1>8. ASSUME NEW ok \in BOOLEAN, Privilege(p, ok) \/ SelectCounts(p, ok) PROVE Apart(p)
  <2>1. PICK x \in {"select", "flash", "askinfo"} : Continue(p, x)
    BY <1>8 DEF Privilege, SelectCounts
  <2>2. board' = board /\ (\E e : SetErr(p, e)) /\ Learn(p, lib[p])
    BY <1>4, <1>5, <1>8 DEF Privilege, SelectCounts
  <2>3. QED BY <2>1, <2>2, BuildingApart DEF Works, PortWrites, PoeWrites
<1>9. ASSUME NEW ok \in BOOLEAN, ReadCounts(p, ok) \/ AskPoeInfo(p, ok) PROVE Apart(p)
  <2>1. PICK x \in {"askinfo", "info"} : Continue(p, x)
    BY <1>9 DEF ReadCounts, AskPoeInfo
  <2>2. board' = board /\ (\E e : SetErr(p, e)) /\ (\E l : Learn(p, l))
    BY <1>4, <1>5, <1>9 DEF ReadCounts, AskPoeInfo
  <2>3. QED BY <2>1, <2>2, BuildingApart DEF Works, PortWrites, PoeWrites
<1>10. ASSUME NEW ok \in BOOLEAN, ReadPoeInfo(p, ok) PROVE Apart(p)
  <2>1. CASE UNCHANGED <<lib, err>> /\ Continue(p, "group")
    BY <1>4, <1>5, <1>10, <2>1, BuildingApart DEF ReadPoeInfo, Works, PortWrites, PoeWrites
  <2>2. CASE \E l, e : Counted(p, l, e)
    BY <1>4, <1>6, <1>10, <2>2 DEF ReadPoeInfo
  <2>3. QED BY <1>10, <2>1, <2>2 DEF ReadPoeInfo
<1>11. ASSUME NEW ok \in BOOLEAN, SelectMain(p, ok) PROVE Apart(p)
  BY <1>4, <1>6, <1>11 DEF SelectMain
<1>12. ASSUME NEW ok \in BOOLEAN, BoardId(p, ok) \/ VersMore(p, ok) \/ Temperature(p, ok)
       PROVE  Apart(p)
  <2>1. board' = board /\ (\E r : Return(p, r)) /\ (\E l : Learn(p, l))
    BY <1>4, <1>5, <1>12 DEF BoardId, VersMore, Temperature
  <2>2. QED BY <2>1, BuildingApart
<1>13. ASSUME NEW ok \in BOOLEAN, Vers(p, ok) PROVE Apart(p)
  <2>1. board' = board /\ (\E l : Learn(p, l))
        /\ ((\E r : Return(p, r)) \/ (Continue(p, "more") /\ UNCHANGED err))
    BY <1>4, <1>13 DEF Vers
  <2>2. QED BY <1>5, <2>1, BuildingApart DEF Works, PortWrites, PoeWrites
<1>14. QED
  BY <1>1, <1>2, <1>3, <1>7, <1>8, <1>9, <1>10, <1>11, <1>12, <1>13
  DEF AskCounts, CountStep, QueryStep

\* A call that is refused.
LEMMA RefuseKeeps ==
    ASSUME CountsInv, NEW p \in Procs, p \in Who[scene], NEW o \in Calls, scene' = scene, poeinfo' = poeinfo,
           Refuse(p, o)
    PROVE  CountsInv' /\ Apart(p)
<1>1. /\ Mine(p) /\ lib'[p] = lib[p] /\ op'[p] = o /\ faults' = faults
      /\ err'[p] \in BOOLEAN /\ ret'[p] \in {"none", "true", "false"} /\ pc'[p] = "idle"
  BY DEF Refuse, Goto, SetErr, Mine, CountsInv, Types
<1>3. Honest(p)'
  BY <1>1 DEF CountsInv, Honest, Mine, Known, Right, Counting, Behind
<1>4. Sole(p)'
  BY <1>1 DEF CountsInv, Sole, Mine, Known
<1>5. CountsInv'
  BY <1>1, <1>3, <1>4, OneMoves DEF CountsInv, Types, Mine
<1>6. Apart(p)
  BY <1>1 DEF Apart, Works, PortWrites, PoeWrites
<1>7. QED BY <1>5, <1>6

LEMMA CountEntries ==
    ASSUME CountsInv, NEW p \in Procs
    PROVE  /\ Known(p) => lib[p].det /\ lib[p].id
           /\ CountEntry(lib[p]) \in {"args", "privilege", "efcoid"}
           /\ CountEntry(lib[p]) = "privilege" => lib[p].id
           /\ Known(p) => CountEntry(lib[p]) = "args"
BY DEF CountsInv, Honest, CountEntry

LEMMA BeginKeeps ==
    ASSUME CountsInv, NEW p \in Procs, p \in Who[scene], PoeShaped(p), Begin(p)
    PROVE  CountsInv' /\ Apart(p) /\ CallKept(p) /\ ctrl' = ctrl
<1> USE DEF PoeShaped, Shaped
<1>1. PICK o \in PoeCalls, ids \in Lists, on \in SUBSET {1, 2} :
         /\ Enter(p, o, Entry(lib[p], o))
         /\ InCall(p, [NoCall EXCEPT !.ids = ids,
                       !.on = IF Len(ids) > 2 /\ on # {} THEN DOMAIN ids ELSE on])
         /\ UNCHANGED <<ctrl, port, poecfg, cursor>>
  BY Zenon DEF Begin
<1>2. CallKept(p)
  <2> DEFINE f == [NoCall EXCEPT !.ids = ids,
                   !.on = IF Len(ids) > 2 /\ on # {} THEN DOMAIN ids ELSE on]
  <2>1. DOMAIN f = DOMAIN call[p] /\ InCall(p, f)
    BY <1>1
  <2> HIDE DEF f
  <2>2. QED BY <2>1, CallBlocks
<1>3. o \in Calls
  BY DEF Calls
<1>4. /\ Entry(lib[p], o) \in {"args", "privilege", "efcoid"}
      /\ Entry(lib[p], o) = "privilege" => lib[p].id
      /\ Known(p) => Entry(lib[p], o) = "args"
  BY CountEntries DEF Entry, PoeInfos, PoeVerifies
<1>5. CountsInv'
  BY <1>1, <1>3, <1>4, EnterStep DEF Behind
<1>6. Apart(p)
  BY <1>1, <1>4, EnterApart DEF Works, PortWrites, PoeWrites
<1>7. QED BY <1>1, <1>2, <1>5, <1>6

LEMMA RequestKeeps ==
    ASSUME CountsInv, NEW p \in Procs, p \in Who[scene], PortShaped(p), Request(p)
    PROVE  CountsInv' /\ Apart(p) /\ TaskKept(p) /\ reg' = reg /\ memo' = memo
<1> USE DEF PortShaped, Shaped
<1>1. scene \in Scenes
  BY DEF CountsInv, Types
<1>2. PICK r \in Requests[scene] :
        /\ IF Refused(r.op, r.set) THEN Refuse(p, r.op)
           ELSE Enter(p, r.op, EnterAt(p, r.op))
        /\ task' = [task EXCEPT ![p] = [NoTask EXCEPT !.ids = r.ids, !.set = r.set]]
        /\ KeepPorts
  BY Zenon DEF Request
<1> DEFINE o == r.op
<1>3. o \in PortCalls /\ o \in Calls
  BY <1>1, PortsAssumption DEF PortCalls, Calls, VerifyCalls
<1>4. TaskKept(p)
  <2> DEFINE f == [NoTask EXCEPT !.ids = r.ids, !.set = r.set]
  <2>1. DOMAIN f = DOMAIN NoTask /\ task' = [task EXCEPT ![p] = f]
    BY <1>2
  <2> HIDE DEF f
  <2>2. QED BY <2>1, TaskBlocks
<1>5. reg' = reg /\ memo' = memo
  BY <1>2 DEF KeepPorts
<1>7. CASE Enter(p, o, EnterAt(p, o))
  <2> DEFINE x == EnterAt(p, o)
  <2>1. /\ x \in {"args", "gain", "privilege", "efcoid"}
        /\ x = "privilege" => lib[p].id
        /\ Known(p) => x \in {"args", "gain"}
    <3>1. CASE o \in COMCalls
      <4> HIDE DEF o
      <4>1. EnterAt(p, o) = CountEntry(lib[p])
        BY <3>1 DEF EnterAt, AtHand, COMCalls, USBCalls, USBInfos, FanCalls, FanInfos, HWMonCalls, MiniInfos
      <4>2. QED BY <4>1, CountEntries
    <3>2. CASE o \in USBCalls \cup FanCalls
      <4>1. FirstStep(o) = "privilege"
        BY <3>2 DEF FirstStep, USBCalls, USBInfos, FanCalls, FanInfos, HWMonCalls, VerifyCalls,
           PoeVerifies, MiniCalls, MiniInfos, PlainCalls, Meters
      <4>2. EnterAt(p, o) \in {"args", IF lib[p].det /\ lib[p].id THEN "args"
                                       ELSE IF lib[p].id THEN "privilege" ELSE "efcoid"}
        BY <3>2, <4>1 DEF EnterAt, COMCalls, USBCalls, USBInfos, FanCalls, FanInfos, HWMonCalls
      <4>3. QED BY <4>2, CountEntries
    <3>3. CASE o \in HWMonCalls
      <4>1. FirstStep(o) = "gain"
        BY <3>3 DEF FirstStep, HWMonCalls, VerifyCalls, PoeVerifies, MiniCalls, MiniInfos,
           PlainCalls, Meters
      <4>2. EnterAt(p, o) \in {"args", IF lib[p].id THEN "gain" ELSE "efcoid"}
        BY <3>3, <4>1 DEF EnterAt, COMCalls, USBCalls, USBInfos, FanCalls, FanInfos, HWMonCalls
      <4>3. QED BY <4>2, CountEntries
    <3>4. CASE o \in MiniCalls \cup PlainCalls
      <4> HIDE DEF o
      <4>1. o \notin {"GetBoardID", "GetFW", "GetBootLoad", "GetTemperature"} \cup HWMonCalls
        BY <3>4 DEF MiniCalls, MiniInfos, PlainCalls, Meters, HWMonCalls
      <4>2. FirstStep(o) = "args"
        BY <3>4, <4>1 DEF FirstStep, VerifyCalls
      <4>3. EnterAt(p, o) \in {"args", IF lib[p].id THEN "args" ELSE "efcoid"}
        BY <3>4, <4>2 DEF EnterAt, COMCalls, USBCalls, USBInfos, FanCalls, FanInfos, HWMonCalls,
           MiniCalls, MiniInfos, PlainCalls, Meters
      <4>4. QED BY <4>3, CountEntries
    <3>5. QED BY <1>3, <3>1, <3>2, <3>3, <3>4 DEF PortCalls
  <2> HIDE DEF x
  <2>2. Enter(p, o, x)
    BY <1>7 DEF x
  <2>3. CountsInv'
    BY <1>3, <2>1, <2>2, EnterStep DEF Behind
  <2>4. Apart(p)
    BY <2>1, <2>2, EnterApart DEF Works, PortWrites, PoeWrites
  <2>5. QED BY <1>4, <1>5, <2>3, <2>4
<1>8. CASE ~Enter(p, o, EnterAt(p, o))
  <2>1. Refuse(p, o)
    BY <1>2, <1>8
  <2>2. poeinfo' = poeinfo
    BY <2>1 DEF Refuse
  <2>3. CountsInv' /\ Apart(p)
    BY <1>3, <2>1, <2>2, RefuseKeeps
  <2>4. QED BY <1>4, <1>5, <2>3
<1>9. QED BY <1>7, <1>8

-----------------------------------------------------------------------------
(* The invariant.                                                          *)

LibTypes ==
    /\ task = [p \in Procs |-> task[p]] /\ memo = [p \in Procs |-> memo[p]]
    /\ call = [p \in Procs |-> call[p]]
    /\ \A p \in Procs : /\ DOMAIN task[p] = DOMAIN NoTask /\ DOMAIN call[p] = DOMAIN NoCall
                        /\ DOMAIN memo[p] = DOMAIN NoMemo /\ DOMAIN memo[p].dscpt = 1..Monitors

LibInv == /\ CountsInv /\ LibTypes /\ RegShaped /\ DescriptionsOwn
          /\ \A p \in Procs : Sized(p) /\ (Alone => Meant(p) /\ Switched(p))

\* Every step of a port's or sensor's call but its begin.
LEMMA PortMoves ==
    ASSUME NEW p, PortShaped(p), RegShaped, Sized(p), PortAct(p) \/ SensorAct(p), ~Request(p)
    PROVE  /\ Calm(p, PortPlaces \cup PortWrites) /\ Heard(p) /\ TaskKept(p) /\ MemoKept(p)
           /\ RegShaped' /\ (UsbStaysOn => UsbStaysOn')
           /\ \/ WordsKept /\ Sized(p)' /\ Meant(p)'
              \/ /\ pc[p] = "write" /\ pc'[p] = "idle"
                 /\ reg' \in {reg, [reg EXCEPT ![Word(op[p])] = task[p].buf]}
              \/ /\ pc[p] = "fwr" /\ pc'[p] \in {"ftrig", "fpwm"}
                 /\ reg' \in {reg, [reg EXCEPT !.aiccfg = task[p].buf]}
<1> DEFINE Known1 == Calm(p, PortPlaces \cup PortWrites) /\ Heard(p) /\ TaskKept(p) /\ MemoKept(p)
                     /\ RegShaped' /\ (UsbStaysOn => UsbStaysOn')
<1>1. PortPlaces \subseteq PortPlaces \cup PortWrites
  OBVIOUS
<1>2. WordsKept => RegShaped' /\ (UsbStaysOn => UsbStaysOn')
  BY DEF WordsKept, RegShaped, UsbStaysOn, Words
<1>3. CASE PortCalm(p)
  <2>1. pc'[p] \notin PortWrites /\ op'[p] = op[p] /\ (pc'[p] = "read" => op[p] \in Setters)
    BY <1>3 DEF PortCalm, Calm, Ends, Goes, PortPlaces, PortWrites
  <2>2. Sized(p)' /\ Meant(p)'
    BY <2>1 DEF Sized, Meant, PortWrites
  <2>3. Calm(p, PortPlaces \cup PortWrites)
    BY <1>1, <1>3, CalmMore DEF PortCalm
  <2>4. QED BY <1>2, <1>3, <2>2, <2>3 DEF PortCalm
<1>4. ASSUME NEW ok \in BOOLEAN, ReadToSet(p, ok) \/ ReadFanWord(p, ok)
      PROVE  Known1 /\ WordsKept /\ Sized(p)' /\ Meant(p)'
  <2>1. reg' = reg /\ memo' = memo
    BY <1>4, ReadToSetCalm, ReadFanWordCalm
  <2>2. WordsKept /\ MemoKept(p)
    BY <2>1, MemoBlocks DEF WordsKept
  <2>3. QED BY <1>2, <1>4, <2>2, ReadToSetCalm, ReadFanWordCalm
<1>5. ASSUME NEW ok \in BOOLEAN, WritePort(p, ok)
      PROVE  /\ Known1 /\ pc[p] = "write" /\ pc'[p] = "idle"
             /\ reg' \in {reg, [reg EXCEPT ![Word(op[p])] = task[p].buf]}
  <2>1. Calm(p, PortPlaces) /\ memo' = memo
    BY <1>5, WritePortCalm
  <2>2. QED BY <1>1, <1>5, <2>1, WritePortCalm, MemoBlocks, CalmMore
<1>6. ASSUME NEW ok \in BOOLEAN, WriteFanWord(p, ok)
      PROVE  /\ Known1 /\ pc[p] = "fwr" /\ pc'[p] \in {"ftrig", "fpwm"}
             /\ reg' \in {reg, [reg EXCEPT !.aiccfg = task[p].buf]}
  <2>1. Calm(p, PortPlaces) /\ memo' = memo
    BY <1>6, WriteFanWordCalm
  <2>2. QED BY <1>1, <1>6, <2>1, WriteFanWordCalm, MemoBlocks, CalmMore
<1>7. CASE PortAct(p)
  <2>1. Power(p) \/ COMPorts(p) \/ MiniSlots(p) \/ USBPorts(p) => PortCalm(p)
    BY PowerCalm, COMCalm, MiniCalm, USBCalm
  <2>2. ASSUME NEW ok \in BOOLEAN, ReadPort(p, ok) PROVE PortCalm(p)
    BY <2>2, PortStepsCalm
  <2>3. QED BY <1>3, <1>4, <1>5, <1>7, <2>1, <2>2 DEF PortAct, PortStep
<1>8. CASE SensorAct(p)
  <2>1. Watchdogs(p) \/ FanGets(p) \/ FanSets(p) \/ MonitorCalls(p) => PortCalm(p)
    BY DogsCalm, FansCalm, MonitorsCalm, NextMonitorCalm
  <2>2. SensorStep(p) => \/ PortCalm(p)
                         \/ \E ok \in BOOLEAN : ReadFanWord(p, ok) \/ WriteFanWord(p, ok)
    BY PortStepsCalm DEF SensorStep
  <2>3. QED BY <1>3, <1>4, <1>6, <1>8, <2>1, <2>2 DEF SensorAct
<1>9. QED BY <1>7, <1>8

\* A step of one program leaves what another works on, and one that makes no
\* calls is not about to write anything.
LEMMA OthersKeep ==
    ASSUME LibInv, NEW p \in Procs, p \in Who[scene], NEW q \in Procs, q # p, Mine(p),
           task' = task \/ TaskKept(p), call' = call \/ CallKept(p)
    PROVE  Sized(q)' /\ (Alone' => Meant(q)' /\ Switched(q)')
<1>1. /\ pc'[q] = pc[q] /\ op'[q] = op[q] /\ err'[q] = err[q]
      /\ task'[q] = task[q] /\ call'[q] = call[q]
  BY DEF LibInv, CountsInv, Types, LibTypes, Mine, TaskKept, CallKept
<1>2. Sized(q)'
  BY <1>1 DEF LibInv, Sized
<1>3. CASE Alone'
  <2>1. Who[scene] = {p}
    BY <1>3 DEF Alone, Mine
  <2>2. pc[q] = "idle"
    BY <2>1 DEF LibInv, CountsInv, Sole
  <2>3. QED BY <1>1, <1>2, <2>2 DEF Meant, Switched, PortWrites, PoeWrites
<1>4. QED BY <1>2, <1>3

LEMMA LibInitial == LibInit => LibInv
<1> SUFFICES ASSUME LibInit PROVE LibInv
  OBVIOUS
<1>1. CountsInv /\ scene \in Scenes
  BY CountsInitial DEF LibInit, PoeInit, CountsInv, Types
<1>2. LibTypes
  BY DEF LibInit, PoeInit, PortsInit, LibTypes, NoMemo, Monitors
<1>3. RegShaped
  BY <1>1, PortsAssumption DEF LibInit, PortsInit, RegShaped, Words
<1>4. DescriptionsOwn
  BY DEF LibInit, PortsInit, DescriptionsOwn, NoMemo, Monitors
<1>5. \A p \in Procs : pc[p] = "idle"
  BY DEF LibInit, PoeInit, CountsInit
<1>6. QED BY <1>1, <1>2, <1>3, <1>4, <1>5 DEF LibInv, Sized, Meant, Switched

\* One program's step, seen as a whole.
LEMMA StepKeeps ==
    ASSUME LibInv, NEW p \in Procs, p \in Who[scene], CountsInv', Mine(p), RegShaped',
           task' = task \/ TaskKept(p), call' = call \/ CallKept(p),
           memo' = memo \/ MemoKept(p),
           Sized(p)', Meant(p)', Switched(p)'
    PROVE  LibInv'
<1>1. LibTypes'
  BY DEF LibInv, LibTypes, TaskKept, CallKept, MemoKept
<1>2. DescriptionsOwn'
  BY DEF LibInv, LibTypes, DescriptionsOwn, MemoKept
<1>3. ASSUME NEW q \in Procs PROVE Sized(q)' /\ (Alone' => Meant(q)' /\ Switched(q)')
  BY OthersKeep
<1>4. QED BY <1>1, <1>2, <1>3 DEF LibInv

LEMMA LibShapes ==
    ASSUME LibInv, NEW p \in Procs, scene' = scene
    PROVE  PoeShaped(p) /\ PortShaped(p)
<1>1. scene \in Scenes /\ MaxFaults[scene] \in Nat
  BY CountsAssumption DEF LibInv, CountsInv, Types
<1>2. Shaped(p)
  BY <1>1 DEF LibInv, CountsInv, Types, Shaped
<1>3. QED BY <1>2 DEF LibInv, LibTypes, RegShaped, PoeShaped, PortShaped

\* Where a step that keeps apart from the words leaves its program.
LEMMA ApartFine ==
    ASSUME NEW p, Apart(p) PROVE Sized(p)' /\ Meant(p)' /\ Switched(p)'
BY DEF Apart, Sized, Meant, Switched, Works, PortWrites, PoeWrites

LEMMA CountStepKeeps ==
    ASSUME LibInv, NEW p \in Procs, p \in Who[scene], scene' = scene, AskCounts(p),
           UNCHANGED poeOwn, UNCHANGED portOwn
    PROVE  LibInv'
<1>1. CountsInv' /\ Apart(p)
  BY AskCountsKeeps, AskCountsApart DEF LibInv
<1>2. WordsKept /\ RegShaped' /\ task' = task /\ call' = call /\ memo' = memo /\ ctrl' = ctrl
  BY DEF poeOwn, portOwn, WordsKept, RegShaped, LibInv
<1>3. QED BY <1>1, <1>2, ApartFine, StepKeeps DEF Apart

LEMMA PoeStepKeeps ==
    ASSUME LibInv, NEW p \in Procs, p \in Who[scene], scene' = scene, PoeAct(p), UNCHANGED portOwn
    PROVE  LibInv'
<1>1. PoeShaped(p)
  BY LibShapes
<1>2. WordsKept /\ RegShaped' /\ task' = task /\ memo' = memo
  BY DEF portOwn, WordsKept, RegShaped, LibInv
<1>3. CASE Begin(p)
  <2>1. CountsInv' /\ Apart(p) /\ CallKept(p) /\ ctrl' = ctrl
    BY <1>1, <1>3, BeginKeeps DEF LibInv
  <2>2. QED BY <1>2, <2>1, ApartFine, StepKeeps DEF Apart
<1>4. CASE ~Begin(p)
  <2>1. /\ Calm(p, PoePlaces \cup PoeWrites) /\ Heard(p) /\ CallKept(p)
        /\ \/ ctrl' = ctrl /\ Switched(p)'
           \/ pc[p] \in PoeWrites /\ pc'[p] \notin PoeWrites
    BY <1>1, <1>4, PoeMoves
  <2>2. CountsInv'
    <3>1. PoePlaces \cup PoeWrites \subseteq Places
      BY DEF Places
    <3>2. QED BY <2>1, <3>1, CalmMore, CalmKeeps DEF LibInv
  <2>3. Mine(p) /\ pc'[p] \notin {"read"} \cup PortWrites
    BY <2>1 DEF Calm, Ends, Goes, PoePlaces, PoeWrites, PortWrites
  <2>4. Sized(p)' /\ Meant(p)'
    BY <2>3 DEF Sized, Meant, PortWrites
  <2>5. Switched(p)'
    BY <2>1 DEF Switched, PoeWrites
  <2>6. QED BY <1>2, <2>1, <2>2, <2>3, <2>4, <2>5, StepKeeps
<1>5. QED BY <1>3, <1>4

LEMMA PortStepKeeps ==
    ASSUME LibInv, NEW p \in Procs, p \in Who[scene], scene' = scene, PortAct(p) \/ SensorAct(p), UNCHANGED poeOwn
    PROVE  LibInv' /\ (UsbStaysOn => UsbStaysOn')
<1>1. PortShaped(p) /\ RegShaped /\ Sized(p)
  BY LibShapes DEF LibInv
<1>2. call' = call /\ ctrl' = ctrl
  BY DEF poeOwn
<1>3. CASE Request(p)
  <2>1. CountsInv' /\ Apart(p) /\ TaskKept(p) /\ reg' = reg /\ memo' = memo
    BY <1>1, <1>3, RequestKeeps DEF LibInv
  <2>2. WordsKept /\ RegShaped' /\ (UsbStaysOn => UsbStaysOn')
    BY <1>1, <2>1 DEF WordsKept, RegShaped, UsbStaysOn
  <2>3. QED BY <1>2, <2>1, <2>2, ApartFine, StepKeeps DEF Apart
<1>4. CASE ~Request(p)
  <2>1. /\ Calm(p, PortPlaces \cup PortWrites) /\ Heard(p) /\ TaskKept(p) /\ MemoKept(p)
        /\ RegShaped' /\ (UsbStaysOn => UsbStaysOn')
        /\ \/ WordsKept /\ Sized(p)' /\ Meant(p)'
           \/ pc[p] \in PortWrites /\ pc'[p] \in {"idle", "ftrig", "fpwm"}
    BY <1>1, <1>4, PortMoves DEF PortWrites
  <2>2. CountsInv'
    <3>1. PortPlaces \cup PortWrites \subseteq Places
      BY DEF Places
    <3>2. QED BY <2>1, <3>1, CalmMore, CalmKeeps DEF LibInv
  <2>3. Mine(p) /\ pc'[p] \notin PoeWrites
    BY <2>1 DEF Calm, Ends, Goes, PortPlaces, PortWrites, PoeWrites
  <2>4. Sized(p)' /\ Meant(p)'
    BY <2>1 DEF Sized, Meant
  <2>5. Switched(p)'
    BY <2>3 DEF Switched, PoeWrites
  <2>6. QED BY <1>2, <2>1, <2>2, <2>3, <2>4, <2>5, StepKeeps
<1>5. QED BY <1>3, <1>4

LEMMA LibStutters == LibInv /\ UNCHANGED libVars => LibInv' /\ (UsbStaysOn => UsbStaysOn')
<1> SUFFICES ASSUME LibInv, UNCHANGED libVars PROVE LibInv' /\ (UsbStaysOn => UsbStaysOn')
  OBVIOUS
<1>1. CountsInv'
  <2>1. UNCHANGED countVars
    BY DEF libVars, countVars
  <2>2. QED BY <2>1, CountsInductive DEF LibInv
<1>2. LibTypes' /\ RegShaped' /\ DescriptionsOwn' /\ (UsbStaysOn => UsbStaysOn')
  BY DEF libVars, LibInv, LibTypes, RegShaped, DescriptionsOwn, UsbStaysOn
<1>3. \A p \in Procs : Sized(p)' /\ (Alone' => Meant(p)' /\ Switched(p)')
  BY DEF libVars, LibInv, Alone, Sized, Meant, Switched
<1>4. QED BY <1>1, <1>2, <1>3 DEF LibInv

LEMMA LibInductive == LibInv /\ [LibNext]_libVars => LibInv' /\ (UsbStaysOn => UsbStaysOn')
<1> SUFFICES ASSUME LibInv, LibNext PROVE LibInv' /\ (UsbStaysOn => UsbStaysOn')
  BY LibStutters
<1>1. scene \in Scenes
  BY DEF LibInv, CountsInv, Types
<1>2. PICK p \in Who[scene] :
        /\ scene' = scene
        /\ \/ AskCounts(p) /\ UNCHANGED poeOwn /\ UNCHANGED portOwn
           \/ PoeAct(p) /\ UNCHANGED portOwn
           \/ (PortAct(p) \/ SensorAct(p)) /\ UNCHANGED poeOwn
  BY DEF LibNext
<1>3. UNCHANGED portOwn => (UsbStaysOn => UsbStaysOn')
  BY DEF portOwn, UsbStaysOn
<1>4. p \in Procs
  BY <1>1, CountsAssumption
<1>5. QED BY <1>2, <1>3, <1>4, CountStepKeeps, PoeStepKeeps, PortStepKeeps

-----------------------------------------------------------------------------
(* The theorems.                                                           *)

\* Whatever programs call whatever, in any order and with any faults, every
\* one is where its call may be, and about to write what it should.
THEOREM LibInvariant == LibSpec => []LibInv
<1>1. LibInv /\ [LibNext]_libVars => LibInv'
  BY LibInductive
<1>2. QED BY <1>1, LibInitial, PTL DEF LibSpec

\* A program that has set the bounds (EkSMBusGetCount, DMCI.c) has the counts of
\* the board, also when it and others make every other call of the library.
THEOREM LibCountsMeant == LibSpec => []BoundsMeanCounts
<1>1. LibInv => BoundsMeanCounts
  BY DEF LibInv, CountsInv, Honest, Right, BoundsMeanCounts
<1>2. QED BY <1>1, LibInvariant, PTL

\* A program that has the AIC for itself also knows which firmware the board has,
\* although its PoE calls write the register the question is asked with.
THEOREM LibFirmwareTold == LibSpec => []FirmwareKnown
<1>1. LibInv => FirmwareKnown
  BY CountsAssumption DEF LibInv, CountsInv, Sole, FirmwareKnown, Alone
<1>2. QED BY <1>1, LibInvariant, PTL

\* The library never switches the last USB port off (EkDMCiSMBSetUSBConfigs):
\* if one is on at first one stays on, also between two programs that set them.
THEOREM LibUsbStaysOn == UsbStaysOn /\ LibSpec => []UsbStaysOn
<1>1. LibInv /\ UsbStaysOn /\ [LibNext]_libVars => UsbStaysOn'
  BY LibInductive
<1>2. QED BY <1>1, LibInvariant, PTL DEF LibSpec

\* What a program keeps as the description of a monitor (EkSMBusGetHWMonInfo) is
\* that monitor's, although another may select one between the two transfers.
THEOREM LibDescriptionsOwn == LibSpec => []DescriptionsOwn
<1>1. LibInv => DescriptionsOwn
  BY DEF LibInv
<1>2. QED BY <1>1, LibInvariant, PTL

(* What KeepsOthers says of one program.                                   *)
BuzzerAside(p) == op[p] = "SetBuzConfig" /\ pc[p] = "bset" /\ pc'[p] # "bset" =>
                      ctrl' \ {"buz"} = ctrl \ {"buz"}
BuzzerKept(p) == op[p] \notin {"SetBuzConfig", "SetPOEConfig_1"}
                 /\ pc[p] \in {"allw", "swr"} /\ pc'[p] # pc[p] =>
                     ("buz" \in ctrl' <=> "buz" \in ctrl)
NeighbourKept(p) ==
    pc[p] = "write" /\ pc'[p] # "write" =>
        CASE op[p] = "SetLANConfig" -> reg'.busgpio.spare = reg.busgpio.spare
          [] op[p] = "SetPowerConfig" -> reg'.aiccfg.auto = reg.aiccfg.auto
          [] OTHER -> \A d \in DOMAIN reg[Word(op[p])] :
                          (\A i \in DOMAIN task[p].ids : task[p].ids[i] # d) =>
                              reg'[Word(op[p])][d] = reg[Word(op[p])][d]
FanWordKept(p) ==
    pc[p] = "fwr" /\ pc'[p] # "fwr"
    /\ (op[p] \in {"SetFanConfigsNI", "SetFanConfigsNI_1"} => ~err[p]) =>
        /\ reg'.aiccfg.mode = reg.aiccfg.mode /\ reg'.aiccfg.timer = reg.aiccfg.timer
        /\ \A d \in DOMAIN reg.aiccfg.auto :
               (\A i \in DOMAIN task[p].ids : task[p].ids[i] # d) =>
                   reg'.aiccfg.auto[d] = reg.aiccfg.auto[d]
Kept1(p) == BuzzerAside(p) /\ BuzzerKept(p) /\ NeighbourKept(p) /\ FanWordKept(p)

LEMMA SwitchesAside ==
    ASSUME LibInv, Alone, NEW p \in Procs, p \in Who[scene], scene' = scene, PoeAct(p)
    PROVE  BuzzerAside(p) /\ BuzzerKept(p)
<1>1. PoeShaped(p) /\ Switched(p)
  BY LibShapes DEF LibInv
<1>2. CASE Begin(p)
  BY <1>1, <1>2, BeginKeeps DEF LibInv, BuzzerAside, BuzzerKept
<1>3. CASE ~Begin(p)
  <2>1. ctrl' \in {ctrl, call[p].buf}
    BY <1>1, <1>3, PoeMoves
  <2>2. QED BY <1>1, <2>1 DEF Switched, BuzzerAside, BuzzerKept
<1>4. QED BY <1>2, <1>3

\* A step that leaves the words alone.
LEMMA WordsAside ==
    ASSUME LibInv, NEW p \in Procs, WordsKept PROVE NeighbourKept(p) /\ FanWordKept(p)
<1>1. reg'.busgpio = reg.busgpio /\ reg'.aiccfg = reg.aiccfg
  BY DEF WordsKept, Words
<1>2. pc[p] = "write" => reg'[Word(op[p])] = reg[Word(op[p])]
  BY WordOf DEF LibInv, Sized, WordsKept
<1>3. QED BY <1>1, <1>2 DEF NeighbourKept, FanWordKept

LEMMA NeighboursAside ==
    ASSUME LibInv, Alone, NEW p \in Procs, scene' = scene, PortAct(p) \/ SensorAct(p)
    PROVE  NeighbourKept(p) /\ FanWordKept(p)
<1>1. PortShaped(p) /\ RegShaped /\ Sized(p) /\ Meant(p)
  BY LibShapes DEF LibInv
<1>2. CASE Request(p)
  <2>1. pc[p] = "idle"
    BY <1>2, Zenon DEF Request, Refuse, Enter
  <2>2. QED BY <2>1 DEF NeighbourKept, FanWordKept
<1>3. CASE WordsKept
  BY <1>3, WordsAside
<1>4. CASE /\ pc[p] = "write"
           /\ reg' \in {reg, [reg EXCEPT ![Word(op[p])] = task[p].buf]}
  <2>1. op[p] \in Setters /\ Word(op[p]) \in DOMAIN reg
    BY <1>1, <1>4, WordOf DEF Sized, RegShaped
  <2>2. reg'[Word(op[p])] \in {reg[Word(op[p])], task[p].buf}
    BY <1>4, <2>1
  <2>3. Beside(op[p], task[p].ids, reg'[Word(op[p])], reg[Word(op[p])])
    <3>1. Beside(op[p], task[p].ids, reg[Word(op[p])], reg[Word(op[p])])
      BY DEF Beside
    <3>2. QED BY <1>1, <1>4, <2>2, <3>1 DEF Meant
  <2>4. NeighbourKept(p)
    BY <2>1, <2>3, WordOf DEF Beside, NeighbourKept
  <2>5. QED BY <1>4, <2>4 DEF FanWordKept
<1>5. CASE pc[p] = "fwr" /\ reg' \in {reg, [reg EXCEPT !.aiccfg = task[p].buf]}
  <2>1. reg'.aiccfg \in {reg.aiccfg, task[p].buf}
    BY <1>1, <1>5 DEF RegShaped, Words
  <2>2. FanWordKept(p)
    BY <1>1, <1>5, <2>1 DEF Meant, FansBeside, FanWordKept
  <2>3. QED BY <1>5, <2>2 DEF NeighbourKept
<1>6. QED BY <1>1, <1>2, <1>3, <1>4, <1>5, PortMoves

LEMMA BitsStep ==
    ASSUME LibInv, Alone, [LibNext]_libVars, NEW q \in Procs PROVE Kept1(q)
<1>1. CASE pc'[q] = pc[q]
  BY <1>1 DEF Kept1, BuzzerAside, BuzzerKept, NeighbourKept, FanWordKept
<1>2. CASE pc'[q] # pc[q]
  <2>1. LibNext
    BY <1>2 DEF libVars
  <2>2. scene \in Scenes
    BY DEF LibInv, CountsInv, Types
  <2>3. PICK p \in Who[scene] :
          /\ p \in Procs /\ scene' = scene
          /\ \/ AskCounts(p) /\ UNCHANGED poeOwn /\ UNCHANGED portOwn
             \/ PoeAct(p) /\ UNCHANGED portOwn
             \/ (PortAct(p) \/ SensorAct(p)) /\ UNCHANGED poeOwn
    BY <2>1, <2>2, CountsAssumption DEF LibNext
  <2>4. p = q
    <3>1. Mine(p)
      <4>1. PoeShaped(p) /\ PortShaped(p) /\ RegShaped /\ Sized(p) /\ CountsInv
        BY <2>3, LibShapes DEF LibInv
      <4>2. CASE AskCounts(p)
        BY <2>3, <4>1, <4>2, AskCountsApart DEF Apart
      <4>3. CASE PoeAct(p)
        BY <2>3, <4>1, <4>3, BeginKeeps, PoeMoves DEF Apart, Calm
      <4>4. CASE PortAct(p) \/ SensorAct(p)
        BY <2>3, <4>1, <4>4, RequestKeeps, PortMoves DEF Apart, Calm
      <4>5. QED BY <2>3, <4>2, <4>3, <4>4
    <3>2. QED BY <1>2, <3>1 DEF Mine, LibInv, CountsInv, Types
  <2>5. UNCHANGED poeOwn => BuzzerAside(q) /\ BuzzerKept(q)
    BY DEF poeOwn, BuzzerAside, BuzzerKept
  <2>6. UNCHANGED portOwn => NeighbourKept(q) /\ FanWordKept(q)
    <3>1. UNCHANGED portOwn => WordsKept
      BY DEF portOwn, WordsKept
    <3>2. QED BY <3>1, WordsAside
  <2>7. QED BY <2>3, <2>4, <2>5, <2>6, SwitchesAside, NeighboursAside DEF Kept1
<1>3. QED BY <1>1, <1>2

\* A program that has the AIC for itself and writes back DEVCTRL, the register of
\* a port or AICCFG leaves the bits of the other devices as they are at that
\* moment, whatever failed between its read and its write.
THEOREM LibBitsKept == LibSpec => BitsKept
<1>1. LibInv /\ [LibNext]_libVars => [Alone => KeepsOthers]_libVars
  <2> SUFFICES ASSUME LibInv, [LibNext]_libVars, Alone PROVE KeepsOthers
    OBVIOUS
  <2>1. \A q \in Procs : Kept1(q)
    BY BitsStep
  <2>2. QED
    BY <2>1 DEF Kept1, KeepsOthers, KeepsSwitch, KeepsNeighbours, KeepsWord, BuzzerAside, BuzzerKept,
       NeighbourKept, FanWordKept
<1>2. QED BY <1>1, LibInvariant, PTL DEF LibSpec, BitsKept
-----------------------------------------------------------------------------
(* Which steps a call takes.                                               *)

DogGets == {"GetPowerupWDTConfig", "GetRuntimeWDTConfig"}
DogAsks == DogGets \cup {"GetRuntimeWDTStat"}
DogSets == {"SetPowerupWDTConfig", "SetPowerupWDTConfigNI", "SetRuntimeWDTConfig"}
FanSetters == {"SetFanConfigs", "SetFanConfigsNI", "SetFanConfig"} \cup NewForm
PowerCalls == Meters \cup {"GetLANConfig", "SetLANConfig", "GetPowerConfig", "SetPowerConfig"}

\* Before a call makes the transfers it is for, and which these are.
Before == {"idle", "args", "efcoid", "gain", "type"} \cup Counting
Way(o) == CASE o \in Setters -> {"read", "write"}
            [] o \in DogAsks -> {"wget", "wfix"}
            [] o \in DogSets -> {"wput"}
            [] o \in FanSetters -> {"fcfg", "fwr", "ftrig", "fpwm"}
            [] OTHER -> {"get", "each", "deaf", "fmode", "mon", "msel", "mread"}
OnWay(p) == /\ op[p] \in PortCalls => pc[p] \in Before \cup Way(op[p])
            /\ pc[p] \in Works \ PoeWrites => op[p] \in PortCalls

LEMMA Ways ==
    ASSUME NEW o
    PROVE  /\ o \in Setters => Way(o) = {"read", "write"}
           /\ o \in DogAsks => Way(o) = {"wget", "wfix"}
           /\ o \in DogSets => Way(o) = {"wput"}
           /\ o \in FanSetters => Way(o) = {"fcfg", "fwr", "ftrig", "fpwm"}
           /\ o \notin Setters \cup DogAsks \cup DogSets \cup FanSetters =>
                  Way(o) = {"get", "each", "deaf", "fmode", "mon", "msel", "mread"}
           /\ Way(o) \subseteq PortPlaces \cup PortWrites
<1>1. /\ \A x \in DogAsks \cup DogSets \cup FanSetters : x \notin Setters
      /\ \A x \in DogSets \cup FanSetters : x \notin DogAsks
      /\ \A x \in FanSetters : x \notin DogSets
  BY DEF Setters, DogAsks, DogGets, DogSets, FanSetters, NewForm
<1>2. QED BY <1>1 DEF Way, PortPlaces, PortWrites

LEMMA Apart1 ==
    /\ PortCalls \cap (Queries \cup PoeCalls) = {}
    /\ \A o \in PortCalls : Way(o) \cap (PoePlaces \cup PoeWrites \cup QuerySteps) = {}
    /\ Before \cap ((PoePlaces \cup PoeWrites \cup QuerySteps)) = {}
<1>1. PortCalls \cap (Queries \cup PoeCalls) = {}
  BY DEF PortCalls, Queries, PoeCalls, PoeVerifies, PoeInfos, PoeCounts, COMCalls, USBCalls, USBInfos,
     FanCalls, FanInfos, HWMonCalls, MiniCalls, MiniInfos, PlainCalls, Meters
<1>2. \A x \in PortPlaces \cup PortWrites : x \notin PoePlaces \cup PoeWrites \cup QuerySteps
  BY DEF PortPlaces, PortWrites, PoePlaces, PoeWrites, QuerySteps
<1>3. \A x \in Before : x \notin PoePlaces \cup PoeWrites \cup QuerySteps
  BY DEF Before, Counting, Behind, PoePlaces, PoeWrites, QuerySteps
<1>4. QED BY <1>1, <1>2, <1>3, Ways

LEMMA WayCounts ==
    ASSUME CountsInv, NEW p \in Procs, AskCounts(p), OnWay(p)
    PROVE  op'[p] \in PortCalls =>
               op'[p] = op[p] /\ pc'[p] \in Before /\ (pc'[p] = "idle" => ret'[p] = "false")
<1> USE DEF CountsInv, Types
<1> DEFINE Fine == op'[p] \in PortCalls =>
                       op'[p] = op[p] /\ pc'[p] \in Before /\ (pc'[p] = "idle" => ret'[p] = "false")
<1>1. ASSUME NEW o \in Queries \cup {"GetCount"}, op' = [op EXCEPT ![p] = o] PROVE Fine
  BY <1>1, Apart1 DEF PoeCalls, PoeCounts
<1>2. ASSUME op[p] \notin PortCalls, op' = op PROVE Fine
  BY <1>2
<1>3. ASSUME Return(p, FALSE) PROVE Fine
  BY <1>3 DEF Return, Goto, Before
<1>4. ASSUME NEW x, x \in Before, x # "idle", Continue(p, x) PROVE Fine
  BY <1>4 DEF Continue, Goto
<1>5. {"select", "flash", "askinfo", "info", "group", "args", "gain", "type", "privilege"} \subseteq Before
  BY DEF Before, Counting, Behind
<1> HIDE DEF Fine
<1>6. ASSUME NEW o \in Queries, Query(p, o) PROVE Fine
  BY <1>1, <1>6 DEF Query, Hit, Enter
<1>7. CountOnly(p) => Fine
  BY <1>1 DEF CountOnly, Enter
<1>8. CountDone(p) => Fine
  BY <1>2, Apart1 DEF CountDone, Return, PoeCalls, PoeCounts
<1>9. ASSUME NEW l, NEW e, Counted(p, l, e) PROVE Fine
  BY <1>3, <1>4, <1>5, <1>9 DEF Counted
<1>10. ASSUME NEW ok \in BOOLEAN, EfcoId(p, ok) PROVE Fine
  <2>1. CASE op[p] \notin PortCalls
    BY <1>2, <1>10, <2>1 DEF EfcoId, Continue, Return
  <2>2. CASE op[p] \in PortCalls
    <3>1. op[p] \notin Queries
      BY <2>2, Apart1
    <3>2. op[p] \notin {"GetID", "AICVerify", "GetBoardID", "GetFW", "GetBootLoad", "GetTemperature"}
      BY <3>1 DEF Queries
    <3>3. FirstStep(op[p]) \in {"args", "gain", "privilege"}
      BY <3>2 DEF FirstStep
    <3>4. CASE ok
      <4>1. Continue(p, FirstStep(op[p]))
        BY <1>10, <3>2, <3>4 DEF EfcoId
      <4>2. QED BY <1>4, <1>5, <3>3, <4>1
    <3>5. CASE ~ok
      BY <1>3, <1>10, <3>5 DEF EfcoId
    <3>6. QED BY <3>4, <3>5
  <2>3. QED BY <2>1, <2>2
<1>11. ASSUME NEW ok \in BOOLEAN,
              Privilege(p, ok) \/ SelectCounts(p, ok) \/ ReadCounts(p, ok) \/ AskPoeInfo(p, ok)
       PROVE  Fine
  <2>1. PICK x \in {"select", "flash", "askinfo", "info"} : Continue(p, x)
    BY <1>11 DEF Privilege, SelectCounts, ReadCounts, AskPoeInfo
  <2>2. QED BY <1>4, <1>5, <2>1
<1>12. ASSUME NEW ok \in BOOLEAN, ReadPoeInfo(p, ok) \/ SelectMain(p, ok) PROVE Fine
  <2>1. Continue(p, "group") \/ \E l, e : Counted(p, l, e)
    BY <1>12 DEF ReadPoeInfo, SelectMain
  <2>2. QED BY <1>4, <1>5, <1>9, <2>1
<1>13. QueryStep(p) => Fine
  <2>1. QueryStep(p) => pc[p] \in QuerySteps /\ op' = op
    BY DEF QueryStep, QuerySteps, BoardId, Vers, VersMore, Temperature, Return, Continue
  <2>2. pc[p] \in QuerySteps => op[p] \notin PortCalls
    BY Apart1 DEF OnWay
  <2>3. QED BY <1>2, <2>1, <2>2
<1>14. Fine
  BY <1>6, <1>7, <1>8, <1>10, <1>11, <1>12, <1>13 DEF AskCounts, CountStep
<1>15. QED BY <1>14 DEF Fine

\* A PoE call is none of the others.
LEMMA WayPoe ==
    ASSUME NEW p, PoeShaped(p), PoeAct(p), OnWay(p) PROVE op'[p] \notin PortCalls
<1> USE DEF PoeShaped, Shaped
<1>1. CASE Begin(p)
  <2>1. PICK o \in PoeCalls : Enter(p, o, Entry(lib[p], o))
    BY <1>1, Zenon DEF Begin
  <2>2. op'[p] = o
    BY <2>1 DEF Enter
  <2>3. QED BY <2>1, <2>2, Apart1
<1>2. CASE ~Begin(p)
  <2>1. op'[p] = op[p]
    BY <1>2, PoeMoves DEF Calm
  <2>2. op[p] \in PoeCalls \/ pc[p] \in PoePlaces \cup PoeWrites
    <3>1. Infos(p) => op[p] \in PoeInfos
      BY DEF Infos, PoeInfos, GetPOEInfos, GetPOEInfosNI, GetPOEInfo, GetPOEInfoNI, GetPOEInfos_1,
         GetPOEInfosNI_1, GetPOEInfo_1, GetPOEInfoNI_1, Informed, At
    <3>2. ASSUME NEW o, NEW c, NEW ids, NEW cur, NEW first, ListArgs(p, o, c, ids, cur, first) PROVE op[p] = o
      BY <3>2 DEF ListArgs, Counted1, At
    <3>3. ASSUME NEW o, NEW c, NEW first, Repeating(p, o, c, first) PROVE op[p] = o
      BY <3>2, <3>3 DEF Repeating
    <3>4. Configs(p) \/ Sets(p) => op[p] \in PoeCounts
      BY <3>3 DEF Configs, Sets, PoeCounts, GetPOEConfig, GetPOEConfigNI, GetPOEConfigs_1,
         GetPOEConfigsNI_1, GetPOEConfig_1, GetPOEConfigNI_1, SetPOEConfig, SetPOEConfigNI,
         SetPOEConfigs_1, SetPOEConfigsNI_1, SetPOEConfig_1, SetPOEConfigNI_1, Counted1, At
    <3>5. Stats(p) => op[p] \in PoeCounts
      <4>1. GetPOEStats_1(p) => op[p] = "GetPOEStats_1"
        BY <3>2, Zenon DEF GetPOEStats_1, Counted1, At
      <4>2. QED
        BY <3>3, <4>1 DEF Stats, PoeCounts, GetPOEStats, GetPOEStatsNI, GetPOEStat, GetPOEStatNI,
           GetPOEStatsNI_1, GetPOEStat_1, GetPOEStatNI_1, Counted1, At
    <3>6. Buzzer(p) => op[p] \in PoeVerifies
      BY DEF Buzzer, PoeVerifies, GetBuzConfig, GetBuzConfigNI, SetBuzConfig, SetBuzConfigNI, At
    <3>7. NoHardware(p) => op[p] \in PoeCounts
      BY DEF NoHardware
    <3>8. NextGroup(p) \/ Fin(p) => pc[p] \in PoePlaces
      BY DEF NextGroup, Fin, PoePlaces
    <3>9. PoeStep(p) => pc[p] \in PoePlaces \cup PoeWrites
      BY DEF PoeStep, PoePlaces, PoeWrites, AllRead, AllWrite, AllPorts, ReadCtrlGet, SelectCfg, ReadCfg,
         ReadCtrlSet, ReadCtrlSetOne, CloseSwitch, SelectSet, ReadSet, Detect, PowerOff, SelectStat,
         ReadStat, ReadBuz, WriteBuz
    <3>10. QED
      BY <1>2, <3>1, <3>4, <3>5, <3>6, <3>7, <3>8, <3>9 DEF PoeAct, PoeCalls
  <2>3. op[p] \notin PortCalls
    BY <2>2, Apart1 DEF OnWay
  <2>4. QED BY <2>1, <2>3
<1>3. QED BY <1>1, <1>2

\* A step of another call is one of its family, or a step on its way.
LEMMA Families ==
    ASSUME NEW p, PortAct(p) \/ SensorAct(p), ~Request(p)
    PROVE  \/ /\ Ready(p, op[p])
              /\ \/ Power(p) /\ op[p] \in PowerCalls
                 \/ COMPorts(p) /\ op[p] \in COMCalls
                 \/ MiniSlots(p) /\ op[p] \in MiniCalls
                 \/ USBPorts(p) /\ op[p] \in USBCalls
                 \/ Watchdogs(p) /\ op[p] \in DogAsks \cup DogSets
                 \/ (FanGets(p) \/ FanSets(p)) /\ op[p] \in FanCalls
                 \/ MonitorCalls(p) /\ ~NextMonitor(p) /\ op[p] \in HWMonCalls
           \/ NextMonitor(p) \/ PortStep(p) \/ SensorStep(p)
<1> DEFINE On(o) == Ready(p, o) /\ op[p] = o
<1>1. /\ \A o, kind, c : InfoList(p, o, kind, c) \/ InfoOne(p, o, kind, c) => On(o)
      /\ \A o, kind, c, l, ok : One(p, o, kind, c, l, ok) => On(o)
      /\ \A o, kind, c, l : GetList(p, o, kind, c, l) => On(o)
      /\ \A o, l : Plain(p, o, l) => On(o)
  BY DEF InfoList, InfoOne, One, GetList, List, Plain, Ready
<1>2. Power(p) => Ready(p, op[p]) /\ op[p] \in PowerCalls
  BY <1>1 DEF Power, PowerCalls, Meters, GetLANConfig, GetLANConfigNI, SetLANConfig, SetLANConfigNI,
     GetPowerConfig, GetPowerConfigNI, SetPowerConfig, SetPowerConfigNI, GetPower, GetTotalOnTimeMins,
     GetOnTimeSecs, GetPowerCounter, GetLastPowerStatus, GetBootCounter
<1>3. COMPorts(p) => Ready(p, op[p]) /\ op[p] \in COMCalls
  <2>1. (GetCOMConfigs(p) => On("GetCOMConfigs")) /\ (SetCOMConfigs(p) => On("SetCOMConfigs"))
    BY DEF GetCOMConfigs, SetCOMConfigs, List, Ready
  <2>2. QED
    BY <1>1, <2>1 DEF COMPorts, COMCalls, GetCOMInfos, GetCOMInfosNI, GetCOMInfo, GetCOMInfoNI,
       GetCOMConfigsNI, GetCOMConfig, GetCOMConfigNI, SetCOMConfigsNI, SetCOMConfig, SetCOMConfigNI
<1>4. MiniSlots(p) => Ready(p, op[p]) /\ op[p] \in MiniCalls
  <2>1. SetminiPCIeConfigs(p) => On("SetminiPCIeConfigs")
    BY DEF SetminiPCIeConfigs, List, Ready
  <2>2. QED
    BY <1>1, <2>1 DEF MiniSlots, MiniCalls, MiniInfos, GetminiPCIeInfos, GetminiPCIeInfosNI,
       GetminiPCIeInfo, GetminiPCIeInfoNI, GetminiPCIeConfigs, GetminiPCIeConfigsNI,
       GetminiPCIeConfig, GetminiPCIeConfigNI, SetminiPCIeConfigsNI, SetminiPCIeConfig,
       SetminiPCIeConfigNI, GetminiPCIeStats, GetminiPCIeStatsNI, GetminiPCIeStat, GetminiPCIeStatNI
<1>5. USBPorts(p) => Ready(p, op[p]) /\ op[p] \in USBCalls
  <2>1. SetUSBConfigs(p) => On("SetUSBConfigs")
    BY DEF SetUSBConfigs, List, Ready
  <2>2. QED
    BY <1>1, <2>1 DEF USBPorts, USBCalls, USBInfos, GetUSBInfos, GetUSBInfosNI, GetUSBInfo,
       GetUSBInfoNI, GetUSBConfigs, GetUSBConfigsNI, GetUSBConfig, GetUSBConfigNI,
       SetUSBConfigsNI, SetUSBConfig, SetUSBConfigNI
<1>6. Watchdogs(p) => Ready(p, op[p]) /\ op[p] \in DogAsks \cup DogSets
  BY <1>1 DEF Watchdogs, DogAsks, DogGets, DogSets, GetPowerupWDTConfig, GetPowerupWDTConfigNI,
     SetPowerupWDTConfig, SetPowerupWDTConfigNI, GetRuntimeWDTConfig, GetRuntimeWDTConfigNI,
     SetRuntimeWDTConfig, SetRuntimeWDTConfigNI, GetRuntimeWDTStat, GetRuntimeWDTStatNI
<1>7. FanGets(p) => Ready(p, op[p]) /\ op[p] \in FanCalls
  <2>1. GetFanConfig_1(p) => On("GetFanConfig_1")
    BY DEF GetFanConfig_1, Ready
  <2>2. QED
    BY <1>1, <2>1 DEF FanGets, FanCalls, FanInfos, GetFanInfos, GetFanInfosNI, GetFanInfo, GetFanInfoNI,
       GetFanConfigs, GetFanConfigsNI, GetFanConfig, GetFanConfigNI, GetFanStats, GetFanStatsNI,
       GetFanStat, GetFanStatNI, GetFanConfigs_1, GetFanConfigsNI_1, GetFanConfigNI_1
<1>8. FanSets(p) => Ready(p, op[p]) /\ op[p] \in FanCalls
  BY <1>1 DEF FanSets, FanCalls, SetFanConfigs, SetFanConfigsNI, SetFanConfig, SetFanConfigNI,
     SetFanConfigs_1, SetFanConfigsNI_1, SetFanConfig_1, SetFanConfigNI_1
<1>9. MonitorCalls(p) /\ ~NextMonitor(p) => Ready(p, op[p]) /\ op[p] \in HWMonCalls
  <2>1. (GetHWMonInfosA(p) => On("GetHWMonInfosA")) /\ (GetHWMonInfoA(p) => On("GetHWMonInfoA"))
    BY DEF GetHWMonInfosA, GetHWMonInfoA, Ready
  <2>2. QED
    BY <1>1, <2>1 DEF MonitorCalls, HWMonCalls, GetHWMonStats, GetHWMonStatsNI, GetHWMonStat,
       GetHWMonStatNI, GetHWMonInfosANI, GetHWMonInfosW, GetHWMonInfosWNI, GetHWMonInfoANI,
       GetHWMonInfoW, GetHWMonInfoWNI
<1>10. QED
  BY <1>2, <1>3, <1>4, <1>5, <1>6, <1>7, <1>8, <1>9 DEF PortAct, SensorAct

LEMMA ManyCalls ==
    /\ \A o \in PowerCalls \cup COMCalls \cup MiniCalls \cup USBCalls \cup FanCalls \cup HWMonCalls :
           o \notin DogAsks \cup DogSets
    /\ \A o \in PowerCalls \cup COMCalls \cup MiniCalls \cup USBCalls \cup HWMonCalls :
           o \notin FanCalls
    /\ \A o \in FanCalls \cup HWMonCalls : o \notin Setters
    /\ FanSetters \subseteq FanCalls
BY DEF PowerCalls, COMCalls, MiniCalls, MiniInfos, USBCalls, USBInfos, FanCalls, FanInfos, HWMonCalls,
   DogAsks, DogGets, DogSets, Setters, Meters, FanSetters, NewForm

\* A call starts on its way.
LEMMA Starts ==
    ASSUME NEW p, PortShaped(p), NEW o, NEW l, Asks(p, o, l), l \in Way(o)
    PROVE  pc'[p] \in {"idle"} \cup Way(op[p])
<1>1. Over(p) \/ Continue(p, l)
  BY TaskBlocks DEF Asks
<1>2. pc'[p] \in {"idle", l} /\ op[p] = o
  BY <1>1 DEF Asks, Ready, Over, Return, Continue, Goto, PortShaped, Shaped
<1>3. QED BY <1>2

LEMMA OneStarts ==
    ASSUME NEW p, PortShaped(p), NEW o, NEW kind, NEW c, NEW l, l \in Way(o),
           \/ One(p, o, kind, c, l, TRUE) \/ Plain(p, o, l) \/ GetList(p, o, kind, c, l)
    PROVE  pc'[p] \in {"idle"} \cup Way(op[p])
<1>1. Asks(p, o, l)
  BY DEF One, Plain, GetList, List, Asks
<1>2. QED BY <1>1, Starts

LEMMA InfoStarts ==
    ASSUME NEW p, PortShaped(p), NEW o, NEW kind, NEW c,
           InfoList(p, o, kind, c) \/ InfoOne(p, o, kind, c)
    PROVE  pc'[p] = "idle"
<1>1. Over(p)
  BY TaskBlocks DEF InfoList, InfoOne
<1>2. QED BY <1>1 DEF Over, Return, Goto, PortShaped, Shaped

LEMMA WayPorts ==
    ASSUME NEW p, PortShaped(p), RegShaped, Sized(p), OnWay(p), op[p] \in PortCalls,
           PortAct(p) \/ SensorAct(p), ~Request(p)
    PROVE  /\ op'[p] = op[p]
           /\ \/ pc'[p] \in {"idle"} \cup Way(op[p])
              \/ pc[p] \in {"gain", "type"} /\ pc'[p] \in {"type", "args"} /\ task' = task
<1> USE DEF PortShaped, Shaped
<1> DEFINE Fine == \/ pc'[p] \in {"idle"} \cup Way(op[p])
                   \/ pc[p] \in {"gain", "type"} /\ pc'[p] \in {"type", "args"} /\ task' = task
<1>1. op'[p] = op[p]
  BY PortMoves DEF Calm
<1>2. PowerCalls \subseteq PlainCalls /\ \A o \in DogAsks \cup DogSets : o \in PlainCalls
  BY DEF PowerCalls, PlainCalls, Meters, DogAsks, DogGets, DogSets
<1>3. /\ \A o \in Setters : "read" \in Way(o)
      /\ \A o \in DogAsks : "wget" \in Way(o)
      /\ \A o \in DogSets : "wput" \in Way(o)
      /\ \A o \in FanSetters : "fcfg" \in Way(o)
      /\ \A o : o \notin Setters \cup DogAsks \cup DogSets \cup FanSetters =>
             "get" \in Way(o) /\ "each" \in Way(o) /\ "deaf" \in Way(o) /\ "fmode" \in Way(o)
             /\ "mon" \in Way(o) /\ "msel" \in Way(o) /\ "mread" \in Way(o)
  BY Ways
<1>4. /\ \A o \in {"GetLANConfig", "GetPowerConfig", "GetCOMConfigs", "GetCOMConfig",
                   "GetminiPCIeConfigs", "GetminiPCIeConfig", "GetminiPCIeStats", "GetminiPCIeStat",
                   "GetUSBConfigs", "GetUSBConfig"} \cup Meters : "get" \in Way(o)
      /\ \A o \in {"GetFanConfigs", "GetFanConfigsNI", "GetFanConfig", "GetFanStats",
                   "GetFanStat", "GetHWMonStats", "GetHWMonStat"} : "each" \in Way(o)
      /\ "deaf" \in Way("GetFanConfigNI")
      /\ "fmode" \in Way("GetFanConfigs_1") /\ "fmode" \in Way("GetFanConfig_1")
      /\ "mon" \in Way("GetHWMonInfosA") /\ "mon" \in Way("GetHWMonInfoA")
  BY <1>3 DEF Meters, Setters, DogAsks, DogGets, DogSets, FanSetters, NewForm
<1>20. ASSUME NEW o, NEW kind, NEW c, NEW l, l \in Way(o),
              \/ One(p, o, kind, c, l, TRUE) \/ Plain(p, o, l) \/ GetList(p, o, kind, c, l)
       PROVE  Fine
  BY <1>20, OneStarts
<1>21. ASSUME NEW o, NEW l, l \in Way(o), Asks(p, o, l) PROVE Fine
  BY <1>21, Starts
<1>22. ASSUME NEW o, NEW kind, NEW c, InfoList(p, o, kind, c) \/ InfoOne(p, o, kind, c) PROVE Fine
  BY <1>22, InfoStarts
<1>23. \A x \in {"idle"} \cup Way(op[p]) : pc'[p] = x => Fine
  OBVIOUS
<1> HIDE DEF Fine
<1>5. ASSUME Power(p) PROVE Fine
  BY <1>3, <1>4, <1>5, <1>20
  DEF Power, Meters, Setters, GetLANConfig, GetLANConfigNI, SetLANConfig, SetLANConfigNI, GetPowerConfig,
      GetPowerConfigNI, SetPowerConfig, SetPowerConfigNI, GetPower, GetTotalOnTimeMins,
      GetOnTimeSecs, GetPowerCounter, GetLastPowerStatus, GetBootCounter
<1>6. ASSUME COMPorts(p) PROVE Fine
  <2>1. GetCOMConfigs(p) => Asks(p, "GetCOMConfigs", "get")
    BY DEF GetCOMConfigs, List, Asks
  <2>2. SetCOMConfigs(p) => Asks(p, "SetCOMConfigs", "read")
    BY DEF SetCOMConfigs, List, Asks
  <2>3. SetCOMConfig(p) => Asks(p, "SetCOMConfig", "read")
    BY DEF SetCOMConfig, One, Asks
  <2>4. GetCOMInfos(p) \/ GetCOMInfo(p) => Fine
    BY <1>22 DEF GetCOMInfos, GetCOMInfo
  <2>5. GetCOMConfig(p) => Fine
    BY <1>4, <1>20 DEF GetCOMConfig
  <2>6. GetCOMConfigs(p) \/ SetCOMConfigs(p) \/ SetCOMConfig(p) => Fine
    BY <1>3, <1>4, <2>1, <2>2, <2>3, <1>21 DEF Setters
  <2>7. QED
    BY <1>6, <2>4, <2>5, <2>6
    DEF COMPorts, GetCOMInfosNI, GetCOMInfoNI, GetCOMConfigsNI, GetCOMConfigNI, SetCOMConfigsNI,
        SetCOMConfigNI
<1>7. ASSUME MiniSlots(p) PROVE Fine
  <2>1. SetminiPCIeConfigs(p) => Asks(p, "SetminiPCIeConfigs", "read")
    BY DEF SetminiPCIeConfigs, List, Asks
  <2>2. GetminiPCIeInfos(p) \/ GetminiPCIeInfo(p) => Fine
    BY <1>22 DEF GetminiPCIeInfos, GetminiPCIeInfo
  <2>3. GetminiPCIeConfigs(p) \/ GetminiPCIeConfig(p) \/ GetminiPCIeStats(p) \/ GetminiPCIeStat(p)
        => Fine
    BY <1>4, <1>20 DEF GetminiPCIeConfigs, GetminiPCIeConfig, GetminiPCIeStats, GetminiPCIeStat
  <2>4. SetminiPCIeConfig(p) \/ SetminiPCIeConfigs(p) => Fine
    BY <1>3, <2>1, <1>20, <1>21 DEF Setters, SetminiPCIeConfig
  <2>5. QED
    BY <1>7, <2>2, <2>3, <2>4
    DEF MiniSlots, GetminiPCIeInfosNI, GetminiPCIeInfoNI, GetminiPCIeConfigsNI, GetminiPCIeConfigNI,
        SetminiPCIeConfigsNI, SetminiPCIeConfigNI, GetminiPCIeStatsNI, GetminiPCIeStatNI
<1>8. ASSUME USBPorts(p) PROVE Fine
  <2>1. SetUSBConfigs(p) => Asks(p, "SetUSBConfigs", "read")
    BY DEF SetUSBConfigs, List, Asks
  <2>2. GetUSBInfos(p) \/ GetUSBInfo(p) => Fine
    BY <1>22 DEF GetUSBInfos, GetUSBInfo
  <2>3. GetUSBConfigs(p) \/ GetUSBConfig(p) => Fine
    BY <1>4, <1>20 DEF GetUSBConfigs, GetUSBConfig
  <2>4. SetUSBConfig(p) \/ SetUSBConfigs(p) => Fine
    BY <1>3, <2>1, <1>20, <1>21 DEF Setters, SetUSBConfig
  <2>5. QED
    BY <1>8, <2>2, <2>3, <2>4
    DEF USBPorts, GetUSBInfosNI, GetUSBInfoNI, GetUSBConfigsNI, GetUSBConfigNI, SetUSBConfigsNI,
        SetUSBConfigNI
<1>9. ASSUME Watchdogs(p) PROVE Fine
  BY <1>3, <1>9, <1>20
  DEF DogAsks, DogGets, DogSets, Watchdogs, GetPowerupWDTConfig, GetPowerupWDTConfigNI, SetPowerupWDTConfig,
      SetPowerupWDTConfigNI, GetRuntimeWDTConfig, GetRuntimeWDTConfigNI, SetRuntimeWDTConfig,
      SetRuntimeWDTConfigNI, GetRuntimeWDTStat, GetRuntimeWDTStatNI
<1>10. ASSUME FanGets(p) PROVE Fine
  <2>1. GetFanConfig_1(p) => Asks(p, "GetFanConfig_1", "fmode")
    BY DEF GetFanConfig_1, Asks
  <2>2. GetFanInfos(p) \/ GetFanInfo(p) => Fine
    BY <1>22 DEF GetFanInfos, GetFanInfo
  <2>3. GetFanConfigs(p) \/ GetFanConfigsNI(p) \/ GetFanConfig(p) \/ GetFanConfigNI(p)
        \/ GetFanStats(p) \/ GetFanStat(p) \/ GetFanConfigs_1(p) => Fine
    BY <1>4, <1>20 DEF GetFanConfigs, GetFanConfigsNI, GetFanConfig, GetFanConfigNI, GetFanStats,
       GetFanStat, GetFanConfigs_1
  <2>4. GetFanConfig_1(p) => Fine
    BY <1>4, <2>1, <1>21
  <2>5. QED
    BY <1>10, <2>2, <2>3, <2>4
    DEF FanGets, GetFanInfosNI, GetFanInfoNI, GetFanStatsNI, GetFanStatNI, GetFanConfigsNI_1,
        GetFanConfigNI_1
<1>11. ASSUME FanSets(p) PROVE Fine
  <2>1. SetFanConfigs(p) \/ SetFanConfigsNI(p) \/ SetFanConfig(p) \/ SetFanConfigs_1(p)
        \/ SetFanConfigsNI_1(p) \/ SetFanConfig_1(p) => Fine
    BY <1>3, <1>20 DEF FanSetters, NewForm, SetFanConfigs, SetFanConfigsNI, SetFanConfig,
       SetFanConfigs_1, SetFanConfigsNI_1, SetFanConfig_1
  <2>2. QED BY <1>11, <2>1 DEF FanSets, SetFanConfigNI, SetFanConfigNI_1
<1>12. ASSUME MonitorCalls(p) /\ ~NextMonitor(p) PROVE Fine
  <2>1. GetHWMonStats(p) \/ GetHWMonStat(p) => Fine
    BY <1>4, <1>20 DEF GetHWMonStats, GetHWMonStat
  <2>2. GetHWMonInfosA(p) => Asks(p, "GetHWMonInfosA", "mon")
    BY DEF GetHWMonInfosA, Asks
  <2>3. GetHWMonInfoA(p) => Asks(p, "GetHWMonInfoA", "mon")
    BY DEF GetHWMonInfoA, Asks
  <2>4. GetHWMonInfosA(p) \/ GetHWMonInfoA(p) => Fine
    BY <1>4, <2>2, <2>3, <1>21
  <2>5. QED
    BY <1>12, <2>1, <2>4
    DEF MonitorCalls, GetHWMonStatsNI, GetHWMonStatNI, GetHWMonInfosANI, GetHWMonInfosW,
        GetHWMonInfosWNI, GetHWMonInfoANI, GetHWMonInfoW, GetHWMonInfoWNI
<1>13. ASSUME NextMonitor(p) \/ PortStep(p) \/ SensorStep(p) PROVE Fine
  <2>1. pc[p] \in Before \cup Way(op[p])
    BY DEF OnWay
  <2>2. /\ pc[p] \in {"read", "write"} <=> pc[p] \in Way(op[p]) /\ op[p] \in Setters
        /\ pc[p] \in {"wget", "wfix"} => op[p] \in DogAsks
        /\ pc[p] \in {"fcfg", "fwr", "ftrig", "fpwm"} => op[p] \in FanSetters
        /\ pc[p] \in {"each", "fmode", "mon", "msel", "mread"} =>
               op[p] \notin Setters \cup DogAsks \cup DogSets \cup FanSetters
    BY <2>1, Ways DEF Before, Counting, Behind
  <2>3. Over(p) => pc'[p] = "idle"
    BY DEF Over, Return, Goto
  <2>4. \A x : Continue(p, x) => pc'[p] = x
    BY DEF Continue, Goto
  <2>5. ASSUME NextMonitor(p) PROVE Fine
    <3>1. Over(p) \/ Continue(p, "mon") \/ Continue(p, "msel")
      BY <2>5, TaskBlocks DEF NextMonitor
    <3>2. QED BY <1>23, <1>3, <2>2, <2>3, <2>4, <2>5, <3>1 DEF NextMonitor
  <2>6. ASSUME NEW ok \in BOOLEAN,
               ReadPort(p, ok) \/ WritePort(p, ok) \/ WriteWDT(p, ok) \/ RaiseWDT(p, ok) \/ ReadFanDeaf(p, ok)
        PROVE  Fine
    <3>1. Over(p)
      BY <2>6, TaskBlocks DEF ReadPort, WritePort, WriteWDT, RaiseWDT, Told, ReadFanDeaf
    <3>2. QED BY <1>23, <2>3, <3>1
  <2>7. ASSUME NEW ok \in BOOLEAN, ReadToSet(p, ok) PROVE Fine
    <3>1. Over(p) \/ Continue(p, "write")
      BY <2>7, TaskBlocks DEF ReadToSet
    <3>2. QED BY <1>23, <2>2, <2>3, <2>4, <2>7, <3>1, Ways DEF ReadToSet
  <2>8. ASSUME NEW ok \in BOOLEAN, ReadWDT(p, ok) PROVE Fine
    <3>1. Over(p) \/ Goto(p, "wfix")
      BY <2>8, TaskBlocks DEF ReadWDT, Told
    <3>2. QED BY <1>23, <2>2, <2>3, <2>8, <3>1, Ways DEF ReadWDT, Goto
  <2>9. ASSUME NEW ok \in BOOLEAN, Each(p, ok) PROVE Fine
    <3>1. Over(p) \/ Continue(p, "each")
      BY <2>9, TaskBlocks, Zenon DEF Each
    <3>2. QED BY <1>23, <1>3, <2>2, <2>3, <2>4, <2>9, <3>1 DEF Each
  <2>10. ASSUME NEW ok \in BOOLEAN, ReadFanMode(p, ok) PROVE Fine
    BY <1>3, <1>23, <2>2, <2>4, <2>10 DEF ReadFanMode
  <2>11. ASSUME NEW ok \in BOOLEAN, ReadFanWord(p, ok) PROVE Fine
    <3>1. PICK x \in {"fwr", "ftrig", "fpwm"} : Continue(p, x)
      <4>1. PICK w \in BOOLEAN, v \in BOOLEAN :
              Continue(p, CASE w -> "fwr" [] ~w /\ v -> "ftrig" [] OTHER -> "fpwm")
        BY <2>11, Zenon DEF ReadFanWord
      <4>2. QED BY <4>1
    <3>2. QED BY <1>23, <2>2, <2>4, <2>11, <3>1, Ways DEF ReadFanWord
  <2>12. ASSUME NEW ok \in BOOLEAN, WriteFanWord(p, ok) \/ WriteFanTemperatures(p, ok) PROVE Fine
    <3>1. Continue(p, "ftrig") \/ Continue(p, "fpwm")
      BY <2>12 DEF WriteFanWord, WriteFanTemperatures
    <3>2. QED BY <1>23, <2>2, <2>4, <2>12, <3>1, Ways DEF WriteFanWord, WriteFanTemperatures
  <2>13. ASSUME NEW ok \in BOOLEAN, WriteFanDuty(p, ok) PROVE Fine
    <3>1. Over(p) \/ Continue(p, "fpwm")
      BY <2>13, TaskBlocks, Zenon DEF WriteFanDuty, Step
    <3>2. QED BY <1>23, <2>2, <2>3, <2>4, <2>13, <3>1, Ways DEF WriteFanDuty
  <2>14. ASSUME NEW ok \in BOOLEAN, ReadGains(p, ok) \/ ReadTypes(p, ok) PROVE Fine
    <3>1. \/ Over(p)
          \/ /\ Continue(p, "type") \/ Continue(p, "args")
             /\ pc[p] \in {"gain", "type"} /\ task' = task
      BY <2>14, TaskBlocks DEF ReadGains, ReadTypes
    <3>2. QED BY <1>23, <2>3, <2>4, <3>1 DEF Fine
  <2>15. ASSUME NEW ok \in BOOLEAN, SelectMonitor(p, ok) \/ ReadMonitor(p, ok) PROVE Fine
    <3>1. Continue(p, "mread") \/ Continue(p, "mon")
      BY <2>15 DEF SelectMonitor, ReadMonitor
    <3>2. QED BY <1>23, <1>3, <2>2, <2>4, <2>15, <3>1 DEF SelectMonitor, ReadMonitor
  <2>16. QED
    BY <1>13, <2>5, <2>6, <2>7, <2>8, <2>9, <2>10, <2>11, <2>12, <2>13, <2>14, <2>15 DEF PortStep, SensorStep
<1>14. Fine
  BY <1>5, <1>6, <1>7, <1>8, <1>9, <1>10, <1>11, <1>12, <1>13, Families
<1>15. QED BY <1>1, <1>14 DEF Fine

\* A call of another part takes none of these steps but that of the monitors' number.
LEMMA Strangers ==
    ASSUME NEW p, PortShaped(p), RegShaped, Sized(p), OnWay(p), op[p] \notin PortCalls,
           PortAct(p) \/ SensorAct(p), ~Request(p)
    PROVE  /\ op'[p] = op[p] /\ pc'[p] \in {"idle", "type", "args"} /\ reg' = reg
           /\ \E ok \in BOOLEAN : ReadGains(p, ok) \/ ReadTypes(p, ok)
<1> USE DEF PortShaped, Shaped
<1>1. op'[p] = op[p]
  BY PortMoves DEF Calm
<1>2. pc[p] \notin Works \ PoeWrites
  BY DEF OnWay
<1>3. \A o \in PowerCalls \cup COMCalls \cup MiniCalls \cup USBCalls \cup DogAsks \cup DogSets
          \cup FanCalls \cup HWMonCalls : o \in PortCalls
  BY DEF PowerCalls, PortCalls, PlainCalls, Meters, DogAsks, DogGets, DogSets
<1>4. NextMonitor(p) \/ PortStep(p) \/ SensorStep(p)
  BY <1>3, Families
<1>5. PICK ok \in BOOLEAN : ReadGains(p, ok) \/ ReadTypes(p, ok)
  <2>1. /\ NextMonitor(p) => pc[p] \in Works \ PoeWrites
        /\ \A ok : ReadPort(p, ok) \/ ReadToSet(p, ok) \/ WritePort(p, ok)
               \/ ReadWDT(p, ok) \/ RaiseWDT(p, ok) \/ WriteWDT(p, ok) \/ Each(p, ok)
               \/ ReadFanDeaf(p, ok) \/ ReadFanMode(p, ok) \/ ReadFanWord(p, ok)
               \/ WriteFanWord(p, ok) \/ WriteFanTemperatures(p, ok) \/ WriteFanDuty(p, ok)
               \/ SelectMonitor(p, ok) \/ ReadMonitor(p, ok) => pc[p] \in Works \ PoeWrites
    BY DEF NextMonitor, ReadPort, ReadToSet, WritePort, ReadWDT, RaiseWDT, WriteWDT, Each, ReadFanDeaf,
       ReadFanMode, ReadFanWord, WriteFanWord, WriteFanTemperatures, WriteFanDuty, SelectMonitor,
       ReadMonitor, Works, PortWrites, PoeWrites
  <2>2. QED BY <1>2, <1>4, <2>1 DEF PortStep, SensorStep
<1>6. (Over(p) \/ Continue(p, "type") \/ Continue(p, "args")) /\ reg' = reg
  BY <1>5, TaskBlocks DEF ReadGains, ReadTypes, KeepPorts
<1>7. pc'[p] \in {"idle", "type", "args"}
  BY <1>6 DEF Over, Return, Continue, Goto
<1>8. QED BY <1>1, <1>5, <1>6, <1>7

\* Where a request leads.
LEMMA RequestStarts ==
    ASSUME CountsInv, NEW p \in Procs, PortShaped(p), Request(p)
    PROVE  \E r \in Requests[scene] :
               /\ op'[p] = r.op /\ r.op \in PortCalls
               /\ task'[p] = [NoTask EXCEPT !.ids = r.ids, !.set = r.set]
               /\ pc'[p] \in {"idle", "args", "gain", "privilege", "efcoid"}
               /\ pc'[p] = "idle" => ret'[p] = "false"
               /\ reg' = reg /\ memo' = memo /\ next' = next
<1> USE DEF PortShaped, Shaped
<1>1. scene \in Scenes
  BY DEF CountsInv, Types
<1>2. PICK r \in Requests[scene] :
        /\ IF Refused(r.op, r.set) THEN Refuse(p, r.op)
           ELSE Enter(p, r.op, EnterAt(p, r.op))
        /\ task' = [task EXCEPT ![p] = [NoTask EXCEPT !.ids = r.ids, !.set = r.set]]
        /\ KeepPorts
  BY Zenon DEF Request
<1>3. r.op \in PortCalls
  BY <1>1, PortsAssumption
<1>4. task'[p] = [NoTask EXCEPT !.ids = r.ids, !.set = r.set] /\ UNCHANGED <<reg, memo, next>>
  BY <1>2 DEF KeepPorts
<1> DEFINE o == r.op  x == EnterAt(p, o)
<1> HIDE DEF o
<1>5. o \notin {"GetBoardID", "GetFW", "GetBootLoad", "GetTemperature"}
  BY <1>3, Apart1 DEF o, Queries
<1>6. FirstStep(o) \in {"args", "gain", "privilege"}
  BY <1>5 DEF FirstStep
<1>7. x \in {"args", "gain", "privilege", "efcoid"}
  BY <1>6 DEF EnterAt, CountEntry
<1> HIDE DEF x
<1>8. Refuse(p, o) \/ Enter(p, o, x)
  BY <1>2 DEF o, x
<1>9. /\ op'[p] = o /\ pc'[p] \in {"idle", "args", "gain", "privilege", "efcoid"}
      /\ pc'[p] = "idle" => ret'[p] = "false"
  BY <1>7, <1>8 DEF Refuse, Enter, Goto
<1>10. QED BY <1>3, <1>4, <1>9 DEF o

\* The program whose step it is.
Moves(p) == /\ p \in Procs \cap Who[scene] /\ scene' = scene /\ Mine(p) /\ task' = [task EXCEPT ![p] = task'[p]]
            /\ \/ AskCounts(p) /\ Apart(p) /\ UNCHANGED poeOwn /\ UNCHANGED portOwn
               \/ PoeAct(p) /\ UNCHANGED portOwn
               \/ (PortAct(p) \/ SensorAct(p)) /\ UNCHANGED poeOwn

LEMMA Mover == ASSUME LibInv, LibNext PROVE \E p \in Who[scene] : Moves(p)
<1>1. scene \in Scenes
  BY DEF LibInv, CountsInv, Types
<1>2. PICK p \in Who[scene] :
        /\ p \in Procs /\ scene' = scene
        /\ \/ AskCounts(p) /\ UNCHANGED poeOwn /\ UNCHANGED portOwn
           \/ PoeAct(p) /\ UNCHANGED portOwn
           \/ (PortAct(p) \/ SensorAct(p)) /\ UNCHANGED poeOwn
  BY <1>1, CountsAssumption DEF LibNext
<1>3. PoeShaped(p) /\ PortShaped(p) /\ RegShaped /\ Sized(p) /\ CountsInv
  BY <1>2, LibShapes DEF LibInv
<1>4. AskCounts(p) => Apart(p) /\ Mine(p)
  BY <1>2, <1>3, AskCountsApart DEF Apart
<1>5. PoeAct(p) => Mine(p)
  BY <1>2, <1>3, BeginKeeps, PoeMoves DEF Apart, Calm
<1>6. PortAct(p) \/ SensorAct(p) => Mine(p) /\ TaskKept(p)
  BY <1>2, <1>3, RequestKeeps, PortMoves DEF Apart, Calm
<1>7. UNCHANGED portOwn => TaskKept(p)
  BY <1>3, TaskBlocks DEF portOwn
<1>8. TaskKept(p)
  BY <1>2, <1>6, <1>7
<1>9. QED BY <1>2, <1>4, <1>5, <1>6, <1>8 DEF Moves, TaskKept

LEMMA WayKept ==
    ASSUME LibInv, NEW p, Moves(p), OnWay(p)
    PROVE  OnWay(p)'
<1> USE DEF Moves
<1>1. PoeShaped(p) /\ PortShaped(p) /\ RegShaped /\ Sized(p) /\ CountsInv
  BY LibShapes DEF LibInv
<1>2. CASE AskCounts(p) /\ Apart(p)
  BY <1>1, <1>2, WayCounts DEF OnWay, Apart
<1>3. CASE PoeAct(p)
  <2>1. op'[p] \notin PortCalls
    BY <1>1, <1>3, WayPoe
  <2>2. CASE Begin(p)
    BY <1>1, <2>1, <2>2, BeginKeeps DEF OnWay, Apart
  <2>3. CASE ~Begin(p)
    <3>1. pc'[p] \in {"idle"} \cup PoePlaces \cup PoeWrites
      BY <1>1, <1>3, <2>3, PoeMoves DEF Calm, Ends, Goes
    <3>2. PoePlaces \cap (Works \ PoeWrites) = {} /\ "idle" \notin Works
      BY DEF PoePlaces, Works, PortWrites, PoeWrites
    <3>3. QED BY <2>1, <3>1, <3>2 DEF OnWay
  <2>4. QED BY <2>2, <2>3
<1>4. CASE Request(p)
  <2>1. op'[p] \in PortCalls /\ pc'[p] \in {"idle", "args", "gain", "privilege", "efcoid"}
    BY <1>1, <1>4, RequestStarts
  <2>2. {"idle", "args", "gain", "privilege", "efcoid"} \subseteq Before
    BY DEF Before, Counting
  <2>3. QED BY <2>1, <2>2 DEF OnWay
<1>5. CASE (PortAct(p) \/ SensorAct(p)) /\ ~Request(p) /\ op[p] \in PortCalls
  <2>1. op'[p] = op[p] /\ pc'[p] \in {"idle", "type", "args"} \cup Way(op[p])
    BY <1>1, <1>5, WayPorts
  <2>2. {"idle", "type", "args"} \subseteq Before
    BY DEF Before
  <2>3. QED BY <1>5, <2>1, <2>2 DEF OnWay
<1>6. CASE (PortAct(p) \/ SensorAct(p)) /\ ~Request(p) /\ op[p] \notin PortCalls
  <2>1. op'[p] = op[p] /\ pc'[p] \in {"idle", "type", "args"}
    BY <1>1, <1>6, Strangers
  <2>2. QED BY <1>6, <2>1 DEF OnWay, Works, PortWrites, PoeWrites
<1>7. QED BY <1>2, <1>3, <1>4, <1>5, <1>6

\* A step outside the calls for ports and sensors, or one that begins such a call.
LEMMA Elsewhere ==
    ASSUME LibInv, NEW p, Moves(p), OnWay(p),
           \/ AskCounts(p) /\ Apart(p) /\ UNCHANGED portOwn
           \/ PoeAct(p) /\ UNCHANGED portOwn
           \/ Request(p)
    PROVE  /\ pc'[p] \notin Works \ PoeWrites /\ ~Ended(p, PortCalls)'
           /\ reg' = reg /\ memo' = memo /\ next' = next
<1> USE DEF Moves
<1>1. PoeShaped(p) /\ PortShaped(p) /\ RegShaped /\ Sized(p) /\ CountsInv
  BY LibShapes DEF LibInv
<1>2. CASE AskCounts(p) /\ Apart(p) /\ UNCHANGED portOwn
  BY <1>1, <1>2, WayCounts DEF Apart, portOwn, Ended
<1>3. CASE PoeAct(p) /\ UNCHANGED portOwn
  <2>1. op'[p] \notin PortCalls
    BY <1>1, <1>3, WayPoe
  <2>2. CASE Begin(p)
    BY <1>1, <1>3, <2>1, <2>2, BeginKeeps DEF Apart, portOwn, Ended
  <2>3. CASE ~Begin(p)
    <3>1. pc'[p] \in {"idle"} \cup PoePlaces \cup PoeWrites
      BY <1>1, <1>3, <2>3, PoeMoves DEF Calm, Ends, Goes
    <3>2. PoePlaces \cap (Works \ PoeWrites) = {} /\ "idle" \notin Works
      BY DEF PoePlaces, Works, PortWrites, PoeWrites
    <3>3. QED BY <1>3, <2>1, <3>1, <3>2 DEF portOwn, Ended
  <2>4. QED BY <2>2, <2>3
<1>4. CASE Request(p)
  BY <1>1, <1>4, RequestStarts DEF Ended, Works, PortWrites, PoeWrites
<1>5. QED BY <1>2, <1>3, <1>4

\* Programs that make no calls stay as they are.
WayInv == LibInv /\ \A p \in Procs : OnWay(p) /\ (p \notin Who[scene] => op[p] = "none")

LEMMA WayInitial == LibInit => WayInv
<1>1. LibInit => \A p \in Procs : op[p] = "none" /\ pc[p] = "idle"
  BY DEF LibInit, PoeInit, CountsInit
<1>2. "none" \notin PortCalls /\ "idle" \notin Works
  BY DEF PortCalls, COMCalls, USBCalls, USBInfos, FanCalls, FanInfos, HWMonCalls, MiniCalls, MiniInfos,
     PlainCalls, Meters, Works, PortWrites, PoeWrites
<1>3. QED BY <1>1, <1>2, LibInitial DEF WayInv, OnWay

LEMMA WayStep ==
    ASSUME WayInv, NEW p \in Who[scene], Moves(p)
    PROVE  \A q \in Procs : (OnWay(q) /\ (q \notin Who[scene] => op[q] = "none"))'
<1> SUFFICES ASSUME NEW q \in Procs PROVE OnWay(q)' /\ (q \notin Who[scene]' => op'[q] = "none")
  OBVIOUS
<1>1. scene' = scene /\ Mine(p) /\ p \in Procs
  BY DEF Moves
<1>2. CASE q = p
  BY <1>1, <1>2, WayKept DEF WayInv
<1>3. CASE q # p
  <2>1. op'[q] = op[q] /\ pc'[q] = pc[q]
    BY <1>1, <1>3 DEF WayInv, LibInv, CountsInv, Types, Mine
  <2>2. QED BY <1>1, <2>1 DEF WayInv, OnWay
<1>4. QED BY <1>2, <1>3

LEMMA WayInductive == WayInv /\ [LibNext]_libVars => WayInv'
<1> SUFFICES ASSUME WayInv, [LibNext]_libVars PROVE WayInv'
  OBVIOUS
<1>1. LibInv'
  BY LibInductive DEF WayInv
<1>2. CASE LibNext
  BY <1>1, <1>2, Mover, WayStep DEF WayInv
<1>3. CASE UNCHANGED libVars
  BY <1>1, <1>3 DEF WayInv, OnWay, libVars
<1>4. QED BY <1>2, <1>3

-----------------------------------------------------------------------------
(* The watchdogs.                                                          *)

\* What is told of a watchdog is how it is set.
DogSaid(p) == LET told == task[p].val[1]  w == reg[Timer(op[p])]
              IN told.on = (w > 0) /\ (told.on => told.wdt = w)

\* What the program has in hand while it raises a value, and what it remembers
\* of the running watchdog, is the register's.
DogKnown(p) ==
    /\ pc[p] = "wfix" => op[p] = "GetPowerupWDTConfig" /\ task[p].buf = reg.pwrup
    /\ reg.run > 0 /\ memo[p].run # 0 => memo[p].run = reg.run
    /\ Ended(p, DogGets) => DogSaid(p)

\* A step that asks no watchdog.
DogAside(p) == /\ reg'.run = reg.run /\ memo'[p].run = memo[p].run
               /\ pc'[p] # "wfix" /\ ~Ended(p, DogGets)'

LEMMA AsideKnown == ASSUME NEW p, DogKnown(p), DogAside(p) PROVE DogKnown(p)'
BY DEF DogKnown, DogAside

\* A step that only remembers something else.
LEMMA RunKept ==
    ASSUME NEW p, PortShaped(p)
    PROVE  /\ memo' = memo => memo'[p].run = memo[p].run
           /\ \A f, v : f # "run" /\ Remember(p, f, v) => memo'[p].run = memo[p].run
<1> USE DEF PortShaped, Shaped
<1>1. ASSUME NEW f, NEW v, f # "run", Remember(p, f, v) PROVE memo'[p].run = memo[p].run
  <2> DEFINE m == [memo[p] EXCEPT ![f] = v]
  <2>1. m.run = memo[p].run
    BY <1>1 DEF NoMemo
  <2>2. memo' = [memo EXCEPT ![p] = m]
    BY <1>1 DEF Remember
  <2> HIDE DEF m
  <2>3. QED BY <2>1, <2>2
<1>2. QED BY <1>1

LEMMA Gives ==
    ASSUME NEW p, PortShaped(p), NEW ids, NEW val, Give(p, ids, val)
    PROVE  /\ task'[p].val = val /\ task'[p].ids = ids /\ task'[p].set = task[p].set
           /\ pc'[p] = "idle" /\ ret'[p] = "true" /\ op' = op
<1> USE DEF PortShaped, Shaped
<1> DEFINE f == [NoTask EXCEPT !.ids = ids, !.set = task[p].set, !.val = val]
<1>1. f.val = val /\ f.ids = ids /\ f.set = task[p].set
  BY DEF NoTask
<1>2. task' = [task EXCEPT ![p] = f] /\ Return(p, TRUE)
  BY DEF Give
<1> HIDE DEF f
<1>3. QED BY <1>1, <1>2 DEF Return, Goto

LEMMA Failed ==
    ASSUME NEW p, PortShaped(p), Fail(p)
    PROVE  pc'[p] = "idle" /\ ret'[p] = "false" /\ op' = op
BY DEF PortShaped, Shaped, Fail, Return, Goto

\* An answer about the value w of the register.
LEMMA ToldRight ==
    ASSUME NEW p, PortShaped(p), NEW STATE w, op[p] \in DogAsks, Told(p, w),
           w = reg'[Timer(op[p])], reg'.run = reg.run, DogKnown(p)
    PROVE  DogKnown(p)'
<1> USE DEF PortShaped, Shaped
<1> DEFINE f == Timer(op[p])
           known == IF w > 0 /\ (f = "pwrup" \/ memo[p].run = 0) THEN w ELSE memo[p][f]
           said == [on |-> w > 0, wdt |-> IF op[p] = "GetRuntimeWDTStat" THEN w ELSE known]
           m == [memo[p] EXCEPT ![f] = known]
<1>1. /\ f \in {"pwrup", "run"}
      /\ reg'.run > 0 /\ memo[p].run # 0 => memo[p].run = reg'.run
  BY DEF Timer, DogKnown
<1>2. /\ m.run = IF f = "run" THEN known ELSE memo[p].run
      /\ memo' = [memo EXCEPT ![p] = m]
      /\ Give(p, <<1>>, <<said>>)
  BY DEF Told, Remember, NoMemo
<1>3. f = "run" => /\ known = IF w > 0 /\ memo[p].run = 0 THEN w ELSE memo[p].run
                   /\ w = reg'.run
  OBVIOUS
<1>4. w > 0 => known = w
  <2>1. CASE f = "pwrup"
    BY <2>1
  <2>2. CASE f = "run"
    BY <1>1, <1>3, <2>2
  <2>3. QED BY <1>1, <2>1, <2>2
<1>5. reg'.run > 0 /\ m.run # 0 => m.run = reg'.run
  BY <1>1, <1>2, <1>3, <1>4
<1>6. said.on = (w > 0) /\ (op[p] \in DogGets /\ said.on => said.wdt = w)
  BY <1>4 DEF DogGets
<1> HIDE DEF m, said, known
<1>7. /\ task'[p].val[1] = said /\ pc'[p] = "idle" /\ op' = op /\ memo'[p].run = m.run
  BY <1>2, Gives
<1>8. w = reg'[Timer(op'[p])]
  BY <1>7
<1>9. Ended(p, DogGets)' => DogSaid(p)'
  BY <1>6, <1>7, <1>8 DEF Ended, DogSaid
<1>10. QED BY <1>5, <1>7, <1>9 DEF DogKnown

LEMMA DogSteps ==
    ASSUME NEW p, PortShaped(p), RegShaped, Sized(p), OnWay(p), DogKnown(p),
           PortAct(p) \/ SensorAct(p), ~Request(p)
    PROVE  DogKnown(p)'
<1> USE DEF PortShaped, Shaped
<1>1. op'[p] = op[p] /\ op[p] \in Calls \cup {"none"}
  BY PortMoves DEF Calm
<1>2. CASE op[p] \notin PortCalls
  <2>1. pc'[p] # "wfix" /\ op[p] \notin DogGets /\ reg' = reg
    BY <1>2, Strangers DEF PortCalls, PlainCalls, DogGets
  <2>2. memo'[p].run = memo[p].run
    <3>1. PICK ok \in BOOLEAN : ReadGains(p, ok) \/ ReadTypes(p, ok)
      BY <1>2, Strangers
    <3>2. memo' = memo \/ \E v : Remember(p, "mon", v)
      BY <3>1 DEF ReadGains, ReadTypes, KeepPorts
    <3>3. QED BY <3>2, RunKept
  <2>3. QED BY <1>1, <2>1, <2>2, AsideKnown DEF DogAside, Ended
<1>3. ASSUME op[p] \in PortCalls, op[p] \notin DogAsks, reg'.run = reg.run, memo'[p].run = memo[p].run
      PROVE  DogKnown(p)'
  <2>1. pc'[p] # "wfix"
    <3>1. "wfix" \notin Way(op[p])
      BY <1>3, Ways DEF Way
    <3>2. pc'[p] \in {"idle", "type", "args"} \cup Way(op[p])
      BY <1>3, WayPorts
    <3>3. QED BY <3>1, <3>2
  <2>2. QED BY <1>1, <1>3, <2>1, AsideKnown DEF DogAside, Ended, DogAsks
<1>4. ASSUME op[p] \in PortCalls, Ready(p, op[p]), op[p] \notin DogAsks PROVE DogKnown(p)'
  BY <1>3, <1>4 DEF Ready
<1>5. ASSUME Watchdogs(p) PROVE DogKnown(p)'
  <2>1. (\E o : Plain(p, o, "wget")) \/ (\E o : Plain(p, o, "wput"))
    BY <1>5, Zenon
    DEF Watchdogs, GetPowerupWDTConfig, GetPowerupWDTConfigNI,
        SetPowerupWDTConfig, SetPowerupWDTConfigNI, GetRuntimeWDTConfig, GetRuntimeWDTConfigNI,
        SetRuntimeWDTConfig, SetRuntimeWDTConfigNI, GetRuntimeWDTStat, GetRuntimeWDTStatNI
  <2>2. pc'[p] \in {"wget", "wput"} /\ reg' = reg /\ memo' = memo
    BY <2>1 DEF Plain, Ready, Transfer, Continue, Goto
  <2>3. QED BY <2>2, AsideKnown DEF DogAside, Ended
<1>6. ASSUME NEW ok \in BOOLEAN, ReadWDT(p, ok) PROVE DogKnown(p)'
  <2>1. op[p] \in DogAsks /\ reg' = reg
    BY <1>6, Ways DEF OnWay, Works, Before, Counting, Behind, ReadWDT, PoeWrites
  <2> DEFINE w == reg[Timer(op[p])]
  <2>2. CASE ~ok
    BY <1>6, <2>1, <2>2, AsideKnown, Failed DEF ReadWDT, DogAside, Ended
  <2>3. CASE ok /\ op[p] = "GetPowerupWDTConfig" /\ w \in 1..MinWDT - 1
    <3>1. Goto(p, "wfix") /\ memo' = memo /\ task' = [task EXCEPT ![p].buf = w]
      BY <1>6, <2>3 DEF ReadWDT
    <3>2. pc'[p] = "wfix" /\ task'[p].buf = reg'.pwrup
      BY <2>1, <2>3, <3>1 DEF Goto, Timer, NoTask
    <3>3. QED BY <1>1, <2>1, <2>3, <3>1, <3>2 DEF DogKnown, Ended
  <2>4. CASE ok /\ ~(op[p] = "GetPowerupWDTConfig" /\ w \in 1..MinWDT - 1)
    <3>1. Told(p, w)
      BY <1>6, <2>4 DEF ReadWDT
    <3> HIDE DEF w
    <3>2. w = reg'[Timer(op[p])]
      BY <2>1 DEF w
    <3>3. QED BY <2>1, <3>1, <3>2, ToldRight
  <2>5. QED BY <2>2, <2>3, <2>4
<1>7. ASSUME NEW ok \in BOOLEAN, RaiseWDT(p, ok) PROVE DogKnown(p)'
  <2> DEFINE w == IF ok THEN MinWDT ELSE task[p].buf
  <2>1. op[p] = "GetPowerupWDTConfig" /\ task[p].buf = reg.pwrup /\ Told(p, w)
    BY <1>7 DEF DogKnown, RaiseWDT
  <2>2. reg'.run = reg.run /\ w = reg'.pwrup
    BY <1>7, <2>1 DEF RaiseWDT
  <2>3. Timer(op[p]) = "pwrup" /\ op[p] \in DogAsks
    BY <2>1 DEF Timer, DogAsks, DogGets
  <2> HIDE DEF w
  <2>4. QED BY <2>1, <2>2, <2>3, ToldRight
<1>8. ASSUME NEW ok \in BOOLEAN, WriteWDT(p, ok) PROVE DogKnown(p)'
  <2>1. op[p] \in DogSets
    BY <1>8, Ways DEF OnWay, Works, Before, Counting, Behind, WriteWDT, PoeWrites
  <2>2. op[p] \notin DogGets
    BY <2>1 DEF DogSets, DogGets
  <2> DEFINE s == task[p].set[1]  f == Timer(op[p])  v == IF s.on THEN s.wdt ELSE 0
             m == [memo[p] EXCEPT ![f] = s.wdt]
  <2>3. Over(p) /\ f \in {"pwrup", "run"}
    BY <1>8, TaskBlocks DEF WriteWDT, Timer
  <2>4. reg'.run = IF ok /\ f = "run" THEN v ELSE reg.run
    BY <1>8, <2>3 DEF WriteWDT
  <2>5. memo' = IF ok /\ s.on THEN [memo EXCEPT ![p] = m] ELSE memo
    BY <1>8 DEF WriteWDT
  <2>6. m.run = IF f = "run" THEN s.wdt ELSE memo[p].run
    BY <2>3 DEF NoMemo
  <2> HIDE DEF m
  <2>7. memo'[p].run = IF ok /\ s.on /\ f = "run" THEN s.wdt ELSE memo[p].run
    BY <2>5, <2>6
  <2>8. reg'.run > 0 /\ memo'[p].run # 0 => memo'[p].run = reg'.run
    BY <2>4, <2>7 DEF DogKnown
  <2>9. pc'[p] = "idle"
    BY <2>3 DEF Over, Return, Goto
  <2>10. QED BY <1>1, <2>2, <2>8, <2>9 DEF DogKnown, Ended
\* The steps that ask no watchdog.
<1>9. CASE NextMonitor(p) \/ PortStep(p) \/ SensorStep(p)
  <2>1. ASSUME NEW ok \in BOOLEAN, ReadGains(p, ok) \/ ReadTypes(p, ok) PROVE DogKnown(p)'
    <3>1. reg' = reg /\ (memo' = memo \/ \E v : Remember(p, "mon", v))
      BY <2>1 DEF ReadGains, ReadTypes, KeepPorts
    <3>2. Fail(p) \/ Continue(p, "type") \/ Continue(p, "args")
      BY <2>1 DEF ReadGains, ReadTypes
    <3>3. pc'[p] # "wfix" /\ ~Ended(p, DogGets)'
      BY <3>2, Failed DEF Ended, Continue, Goto
    <3>4. QED BY <3>1, <3>3, RunKept, AsideKnown DEF DogAside
  <2>2. ASSUME pc[p] \in {"get", "read", "write", "each", "deaf", "fmode", "fcfg", "fwr", "ftrig", "fpwm",
                          "mon", "msel", "mread"},
               reg'.run = reg.run, memo'[p].run = memo[p].run
        PROVE  DogKnown(p)'
    <3>1. op[p] \in PortCalls /\ pc[p] \in Way(op[p])
      BY <2>2 DEF OnWay, Works, PortWrites, PoeWrites, Before, Counting, Behind
    <3>2. op[p] \notin DogAsks
      BY <2>2, <3>1, Ways
    <3>3. QED BY <1>3, <2>2, <3>1, <3>2
  <2>3. KeepPorts => reg'.run = reg.run /\ memo'[p].run = memo[p].run
    BY DEF KeepPorts
  <2>4. CASE NextMonitor(p)
    BY <2>2, <2>3, <2>4 DEF NextMonitor
  <2>5. ASSUME NEW ok \in BOOLEAN,
               \/ ReadPort(p, ok) \/ ReadToSet(p, ok) \/ Each(p, ok) \/ ReadFanDeaf(p, ok)
               \/ ReadFanMode(p, ok) \/ ReadFanWord(p, ok)
        PROVE  DogKnown(p)'
    BY <2>2, <2>3, <2>5 DEF ReadPort, ReadToSet, Each, ReadFanDeaf, ReadFanMode, ReadFanWord
  <2>6. ASSUME NEW ok \in BOOLEAN, WritePort(p, ok) PROVE DogKnown(p)'
    <3>1. Word(op[p]) \in Words
      BY <2>6, WordOf DEF Sized, WritePort
    <3>2. reg'.run = reg.run
      BY <2>6, <3>1 DEF WritePort, Words
    <3>3. QED BY <2>2, <2>6, <3>2 DEF WritePort
  <2>7. ASSUME NEW ok \in BOOLEAN, WriteFanWord(p, ok) \/ WriteFanTemperatures(p, ok) PROVE DogKnown(p)'
    BY <2>2, <2>7 DEF WriteFanWord, WriteFanTemperatures
  <2>8. ASSUME NEW ok \in BOOLEAN, WriteFanDuty(p, ok) PROVE DogKnown(p)'
    <3>1. pc[p] = "fpwm" /\ memo' = memo /\ \E i, d : reg' \in {reg, [reg EXCEPT !.pwm[i] = d]}
      BY <2>8, Zenon DEF WriteFanDuty
    <3>2. reg'.run = reg.run
      BY <3>1
    <3>3. QED BY <2>2, <3>1, <3>2
  <2>9. ASSUME NEW ok \in BOOLEAN, SelectMonitor(p, ok) PROVE DogKnown(p)'
    BY <2>2, <2>9 DEF SelectMonitor
  <2>10. ASSUME NEW ok \in BOOLEAN, ReadMonitor(p, ok) PROVE DogKnown(p)'
    <3>1. pc[p] = "mread" /\ reg' = reg /\ \E i, d : memo' = [memo EXCEPT ![p].dscpt[i] = d]
      BY <2>10, Zenon DEF ReadMonitor
    <3>2. memo'[p].run = memo[p].run
      BY <3>1 DEF NoMemo
    <3>3. QED BY <2>2, <3>1, <3>2
  <2>11. QED
    BY <1>6, <1>7, <1>8, <1>9, <2>1, <2>4, <2>5, <2>6, <2>7, <2>8, <2>9, <2>10 DEF PortStep, SensorStep
<1>10. QED
  <2>1. \A o \in PowerCalls \cup COMCalls \cup MiniCalls \cup USBCalls \cup FanCalls \cup HWMonCalls :
            o \notin DogAsks
    BY ManyCalls
  <2>2. QED BY <1>2, <1>4, <1>5, <1>9, <2>1, Families

DogsInv == WayInv /\ (Alone => \A p \in Who[scene] : DogKnown(p))

LEMMA DogsInductive == DogsInv /\ [LibNext]_libVars => DogsInv'
<1> SUFFICES ASSUME DogsInv, [LibNext]_libVars PROVE DogsInv'
  OBVIOUS
<1>1. WayInv'
  BY WayInductive DEF DogsInv
<1>2. CASE LibNext
  <2>1. PICK p \in Who[scene] : Moves(p)
    BY <1>2, Mover DEF DogsInv, WayInv
  <2>2. scene' = scene /\ p \in Procs
    BY <2>1 DEF Moves
  <2>3. SUFFICES ASSUME Alone PROVE DogKnown(p)'
    <3>1. Alone' <=> Alone
      BY <2>2 DEF Alone
    <3>2. Alone => Who[scene] = {p}
      BY DEF Alone
    <3>3. QED BY <1>1, <2>2, <3>1, <3>2 DEF DogsInv
  <2>4. DogKnown(p) /\ OnWay(p) /\ LibInv
    BY <2>2, <2>3 DEF DogsInv, WayInv
  <2>5. CASE (PortAct(p) \/ SensorAct(p)) /\ ~Request(p)
    <3>1. PortShaped(p) /\ RegShaped /\ Sized(p)
      BY <2>2, <2>4, LibShapes DEF LibInv
    <3>2. QED BY <2>4, <2>5, <3>1, DogSteps
  <2>6. CASE ~((PortAct(p) \/ SensorAct(p)) /\ ~Request(p))
    <3>1. /\ pc'[p] \notin Works \ PoeWrites /\ ~Ended(p, PortCalls)'
          /\ reg' = reg /\ memo' = memo
      BY <2>1, <2>4, <2>6, Elsewhere DEF Moves
    <3>2. DogGets \subseteq PortCalls /\ "wfix" \in Works \ PoeWrites
      BY DEF DogGets, PortCalls, PlainCalls, Works, PoeWrites
    <3>3. QED BY <2>4, <3>1, <3>2, AsideKnown DEF DogAside, Ended
  <2>7. QED BY <2>5, <2>6
<1>3. CASE UNCHANGED libVars
  BY <1>1, <1>3 DEF DogsInv, libVars, Alone, DogKnown, Ended, DogSaid, Timer
<1>4. QED BY <1>2, <1>3

LEMMA DogsInitial == LibInit => DogsInv
<1> SUFFICES ASSUME LibInit PROVE \A p \in Procs : DogKnown(p)
  BY WayInitial, CountsAssumption DEF DogsInv, WayInv, LibInv, CountsInv, Types
<1>1. \A p \in Procs : pc[p] = "idle" /\ ret[p] = "none" /\ memo[p].run = 0
  BY DEF LibInit, PoeInit, PortsInit, CountsInit, NoMemo
<1>2. QED BY <1>1 DEF DogKnown, Ended

\* A program alone with the AIC is told how its watchdogs are set (EkDMCiSMBGetPowerupWDTConfig
\* and EkDMCiSMBGetRuntimeWDTConfig, DMCI.c), whatever calls, values and failures went before.
THEOREM LibDogsTold == LibSpec => []DogsTold
<1>1. DogsInv => DogsTold
  <2> SUFFICES ASSUME DogsInv, Alone, NEW p \in Procs, Ended(p, DogGets) PROVE DogSaid(p)
    BY DEF DogsTold, DogSaid, DogGets
  <2>1. p \in Who[scene]
    BY DEF DogsInv, WayInv, Ended, DogGets
  <2>2. QED BY <2>1 DEF DogsInv, DogKnown
<1>2. QED BY <1>1, DogsInductive, DogsInitial, PTL DEF LibSpec

-----------------------------------------------------------------------------
(* The fans.                                                               *)

\* A call that has not begun its transfers has its arguments and nothing else.
IsSeq(s) == \E S : s \in Seq(S)
Fresh(p) == op[p] \in PortCalls /\ pc[p] \in Before \ {"idle"} =>
                /\ task[p].val = <<>> /\ task[p].buf = None /\ task[p].ids \in Seq(Nat)
                /\ op[p] \in OneDevice => Len(task[p].ids) = 1

LEMMA CountsFrom ==
    ASSUME CountsInv, NEW p \in Procs, AskCounts(p), OnWay(p), op'[p] \in PortCalls
    PROVE  pc[p] \in Before \ {"idle"}
<1>1. op'[p] = op[p]
  BY WayCounts
<1>2. CountStep(p)
  <2>1. \A o \in Queries \cup {"GetCount"} : o \notin PortCalls
    BY Apart1 DEF PoeCalls, PoeCounts
  <2>2. ASSUME NEW o \in Queries, Query(p, o) PROVE FALSE
    BY <2>1, <2>2 DEF Query, Hit, Enter, CountsInv, Types
  <2>3. ~CountOnly(p) /\ ~CountDone(p)
    BY <1>1, <2>1 DEF CountOnly, CountDone, Enter, CountsInv, Types
  <2>4. ~QueryStep(p)
    BY <1>1, Apart1 DEF OnWay, QueryStep, QuerySteps, BoardId, Vers, VersMore, Temperature
  <2>5. QED BY <2>2, <2>3, <2>4 DEF AskCounts
<1>3. QED
  BY <1>2 DEF CountStep, EfcoId, Privilege, SelectCounts, ReadCounts, AskPoeInfo, ReadPoeInfo,
     SelectMain, Before, Counting, Behind

FreshInv == WayInv /\ \A p \in Procs : Fresh(p)

LEMMA FreshStep ==
    ASSUME FreshInv, NEW p, Moves(p) PROVE Fresh(p)'
<1> USE DEF Moves
<1>1. PoeShaped(p) /\ PortShaped(p) /\ RegShaped /\ Sized(p) /\ CountsInv /\ Fresh(p) /\ OnWay(p)
  BY LibShapes DEF FreshInv, WayInv, LibInv
<1>2. CASE AskCounts(p) /\ UNCHANGED portOwn
  <2>1. op'[p] \in PortCalls => op[p] = op'[p] /\ pc[p] \in Before \ {"idle"}
    BY <1>1, <1>2, WayCounts, CountsFrom
  <2>2. QED BY <1>1, <1>2, <2>1 DEF Fresh, portOwn
<1>3. CASE PoeAct(p)
  BY <1>1, <1>3, WayPoe DEF Fresh
<1>4. CASE Request(p)
  <2>1. PICK r \in Requests[scene] :
          op'[p] = r.op /\ task'[p] = [NoTask EXCEPT !.ids = r.ids, !.set = r.set]
    BY <1>1, <1>4, RequestStarts, Zenon
  <2>2. scene \in Scenes
    BY <1>1 DEF CountsInv, Types
  <2>3. r.ids \in Seq(Nat) /\ (r.op \in OneDevice => Len(r.ids) = 1)
    BY <2>2, PortsAssumption
  <2>4. task'[p].val = <<>> /\ task'[p].buf = None /\ task'[p].ids = r.ids
    BY <2>1 DEF NoTask
  <2>5. op'[p] \in OneDevice => Len(task'[p].ids) = 1
    BY <2>1, <2>3, <2>4
  <2>6. QED BY <2>3, <2>4, <2>5 DEF Fresh
<1>5. CASE (PortAct(p) \/ SensorAct(p)) /\ ~Request(p)
  <2>1. op'[p] = op[p]
    BY <1>1, <1>5, PortMoves DEF Calm
  <2>2. SUFFICES ASSUME op[p] \in PortCalls, pc'[p] \in Before \ {"idle"}
                 PROVE  /\ task'[p].val = <<>> /\ task'[p].buf = None /\ task'[p].ids \in Seq(Nat)
                        /\ op[p] \in OneDevice => Len(task'[p].ids) = 1
    BY <2>1 DEF Fresh
  <2>3. pc'[p] \notin Way(op[p])
    BY <2>2, Ways DEF Before, Counting, Behind
  <2>4. pc[p] \in {"gain", "type"} /\ task' = task
    BY <1>1, <1>5, <2>2, <2>3, WayPorts
  <2>5. QED BY <1>1, <2>2, <2>4 DEF Fresh, Before
<1>6. QED BY <1>2, <1>3, <1>4, <1>5

LEMMA FreshInductive == FreshInv /\ [LibNext]_libVars => FreshInv'
<1> SUFFICES ASSUME FreshInv, [LibNext]_libVars PROVE FreshInv'
  OBVIOUS
<1>1. WayInv'
  BY WayInductive DEF FreshInv
<1>2. CASE LibNext
  <2>1. PICK p \in Who[scene] : Moves(p)
    BY <1>2, Mover DEF FreshInv, WayInv
  <2>2. ASSUME NEW q \in Procs, q # p PROVE Fresh(q)'
    <3>1. op'[q] = op[q] /\ pc'[q] = pc[q] /\ task'[q] = task[q]
      BY <2>1, <2>2 DEF FreshInv, WayInv, LibInv, LibTypes, CountsInv, Types, Mine, Moves
    <3>2. QED BY <3>1 DEF FreshInv, Fresh
  <2>3. QED BY <1>1, <2>1, <2>2, FreshStep DEF FreshInv
<1>3. CASE UNCHANGED libVars
  BY <1>1, <1>3 DEF FreshInv, Fresh, libVars
<1>4. QED BY <1>2, <1>3

LEMMA FreshInitial == LibInit => FreshInv
BY WayInitial DEF FreshInv, Fresh, LibInit, PoeInit, CountsInit

\* What makes the duty of a fan another.
LEMMA PwmKept ==
    ASSUME NEW p, PortShaped(p), RegShaped, Sized(p), PortAct(p) \/ SensorAct(p)
    PROVE  reg'.pwm = reg.pwm \/ pc[p] = "fpwm"
<1> USE DEF PortShaped, Shaped
<1>1. Request(p) => reg' = reg
  BY Zenon DEF Request, KeepPorts
<1>2. Ready(p, op[p]) \/ NextMonitor(p) => reg' = reg
  BY DEF Ready, NextMonitor, KeepPorts
<1>3. ASSUME NEW ok \in BOOLEAN,
             \/ ReadPort(p, ok) \/ ReadToSet(p, ok) \/ Each(p, ok) \/ ReadFanDeaf(p, ok)
             \/ ReadFanMode(p, ok) \/ ReadFanWord(p, ok) \/ ReadGains(p, ok)
      PROVE  reg' = reg
  BY <1>3 DEF ReadPort, ReadToSet, Each, ReadFanDeaf, ReadFanMode, ReadFanWord, ReadGains, KeepPorts
<1>4. ASSUME NEW ok \in BOOLEAN,
             \/ WriteFanTemperatures(p, ok) \/ ReadWDT(p, ok) \/ ReadTypes(p, ok) \/ ReadMonitor(p, ok)
      PROVE  reg' = reg
  BY <1>4 DEF WriteFanTemperatures, ReadWDT, ReadTypes, ReadMonitor
<1>5. ASSUME NEW ok \in BOOLEAN, WritePort(p, ok) PROVE reg'.pwm = reg.pwm
  <2>1. Word(op[p]) \in Words
    BY <1>5, WordOf DEF Sized, WritePort
  <2>2. QED BY <1>5, <2>1 DEF WritePort, Words
<1>6. ASSUME NEW ok \in BOOLEAN, RaiseWDT(p, ok) \/ WriteWDT(p, ok) PROVE reg'.pwm = reg.pwm
  BY <1>6 DEF RaiseWDT, WriteWDT, Timer
<1>7. ASSUME NEW ok \in BOOLEAN, WriteFanWord(p, ok) \/ SelectMonitor(p, ok) PROVE reg'.pwm = reg.pwm
  BY <1>7 DEF WriteFanWord, SelectMonitor
<1>8. ASSUME NEW ok \in BOOLEAN, WriteFanDuty(p, ok) PROVE pc[p] = "fpwm"
  BY <1>8 DEF WriteFanDuty
<1>9. QED
  BY <1>1, <1>2, <1>3, <1>4, <1>5, <1>6, <1>7, <1>8, Families DEF PortStep, SensorStep

\* The calls that tell how fans are set, and those of them that tell the mode too.
FansRead == {"GetFanConfigs", "GetFanConfigs_1", "GetFanConfig", "GetFanConfig_1"}
Both == {"GetFanConfigs_1", "GetFanConfig_1"}

\* What is told of the fan d is how it is set.
FanSaid(told, d) == /\ told.pwm = Level(reg.pwm[d], 1)
                    /\ "auto" \in DOMAIN told => told.auto = reg.aiccfg.auto[d]
FanTold(p, told, d) == FanSaid(told, d) /\ (op[p] \in Both /\ ~err[p] => "auto" \in DOMAIN told)

\* What a call that reads the fans has in hand is how they are set.
FansSaid(p) ==
    LET t == task[p]
    IN /\ IsSeq(t.ids) /\ IsSeq(t.val) /\ t.at = Len(t.val) + 1 /\ t.at \in Nat
       /\ t.buf \in {None, reg.aiccfg}
       /\ op[p] \in Both /\ ~err[p] => t.buf = reg.aiccfg
       /\ \A i \in 1..Len(t.val) : FanTold(p, t.val[i], t.ids[i])
FanReady(p) == op[p] \in FansRead =>
    /\ pc[p] = "fmode" => /\ task[p].val = <<>> /\ task[p].buf = None /\ task[p].at = 1
                          /\ IsSeq(task[p].ids)
    /\ pc[p] = "each" => FansSaid(p)

LEMMA Appended ==
    ASSUME NEW s, IsSeq(s), NEW e
    PROVE  /\ IsSeq(Append(s, e)) /\ Len(s) \in Nat /\ Len(Append(s, e)) = Len(s) + 1
           /\ \A i \in 1..Len(s) : Append(s, e)[i] = s[i]
           /\ Append(s, e)[Len(s) + 1] = e
<1>1. PICK S : s \in Seq(S)
  BY DEF IsSeq
<1> DEFINE T == S \cup {e}
<1>2. s \in Seq(T) /\ e \in T
  BY <1>1
<1> HIDE DEF T
<1>3. QED BY <1>2 DEF IsSeq

LEMMA OneIsSeq == ASSUME NEW x PROVE IsSeq(<<x>>)
<1>1. <<x>> \in Seq({x})
  OBVIOUS
<1>2. QED BY <1>1 DEF IsSeq

\* The ids a call on a list of devices works on.
LEMMA TurnIsSeq ==
    ASSUME NEW ids \in Seq(Nat), NEW n \in Nat, NEW c PROVE IsSeq(InTurn(ids, n, n, c))
<1>1. CASE n = 0 \/ Names(ids, n)
  BY <1>1 DEF InTurn, IsSeq
<1>2. CASE ~(n = 0 \/ Names(ids, n))
  <2> DEFINE k == Room(ids, n)
  <2>1. k \in Nat
    BY DEF Room
  <2> HIDE DEF k
  <2> DEFINE s == [i \in 1..k |-> 1 + ((c + i - 1) % n)]
             S == {1 + ((c + i - 1) % n) : i \in 1..k}
  <2>2. s \in [1..k -> S]
    OBVIOUS
  <2> HIDE DEF s, S
  <2>3. s \in Seq(S)
    BY <2>1, <2>2
  <2>4. InTurn(ids, n, n, c) = s
    BY <1>2 DEF InTurn, k, s
  <2>5. QED BY <2>3, <2>4 DEF IsSeq
<1>3. QED BY <1>1, <1>2

\* A call about fans reads them from the first.
LEMMA FansStart ==
    ASSUME CountsInv, NEW p \in Procs, PortShaped(p), Fresh(p), op[p] \in FansRead, FanGets(p)
    PROVE  \/ pc'[p] = "idle"
           \/ /\ pc'[p] = (IF op[p] \in Both THEN "fmode" ELSE "each")
              /\ IsSeq(task'[p].ids) /\ task'[p].at = 1
              /\ task'[p].val = <<>> /\ task'[p].buf = None
<1> USE DEF PortShaped, Shaped
<1>1. ASSUME NEW ids, NEW l, Transfer(p, ids, l), pc[p] = "args"
      PROVE  /\ pc'[p] = l /\ task'[p].ids = ids /\ task'[p].at = 1
             /\ task'[p].val = <<>> /\ task'[p].buf = None
  <2>1. task[p].val = <<>> /\ task[p].buf = None
    <3>1. op[p] \in PortCalls
      BY DEF FansRead, PortCalls, FanCalls
    <3>2. QED BY <1>1, <3>1 DEF Fresh, Before
  <2> DEFINE f == [task[p] EXCEPT !.ids = ids, !.at = 1]
  <2>2. f.ids = ids /\ f.at = 1 /\ f.val = task[p].val /\ f.buf = task[p].buf
    BY DEF NoTask
  <2>3. task' = [task EXCEPT ![p] = f] /\ Continue(p, l)
    BY <1>1 DEF Transfer
  <2> HIDE DEF f
  <2>4. QED BY <2>1, <2>2, <2>3 DEF Continue, Goto
<1>2. pc[p] = "args" => task[p].ids \in Seq(Nat)
  BY DEF Fresh, Before, FansRead, PortCalls, FanCalls
<1>3. lib[p].fan \in Nat
  <2>1. lib[p] \in Statics
    BY DEF CountsInv, Types
  <2>2. \A l \in Statics : l.fan \in Nat
    BY DEF Statics
  <2>3. QED BY <2>1, <2>2
<1>4. ASSUME NEW o, NEW l, l \in {"each", "fmode"},
             GetList(p, o, "fan", "fanget", l) \/ One(p, o, "fan", "fanget", l, TRUE)
      PROVE  \/ pc'[p] = "idle"
             \/ /\ pc'[p] = l /\ IsSeq(task'[p].ids) /\ task'[p].at = 1
                /\ task'[p].val = <<>> /\ task'[p].buf = None
  <2>1. pc[p] = "args" /\ (Fail(p) \/ \E ids : IsSeq(ids) /\ Transfer(p, ids, l))
    <3>1. CASE GetList(p, o, "fan", "fanget", l)
      <4> DEFINE ids == InTurn(task[p].ids, lib[p].fan, lib[p].fan, next[p]["fanget"])
      <4>1. pc[p] = "args" /\ (Fail(p) \/ Transfer(p, ids, l))
        BY <3>1 DEF GetList, List, Ready, CountOf
      <4>2. IsSeq(ids)
        BY <1>2, <1>3, <4>1, TurnIsSeq
      <4> HIDE DEF ids
      <4>3. QED BY <4>1, <4>2
    <3>2. CASE One(p, o, "fan", "fanget", l, TRUE)
      <4>1. pc[p] = "args" /\ (Fail(p) \/ \E x : Transfer(p, <<x>>, l))
        BY <3>2 DEF One, Ready
      <4>2. QED BY <4>1, OneIsSeq
    <3>3. QED BY <1>4, <3>1, <3>2
  <2>2. QED BY <1>1, <2>1, Failed
<1>5. ASSUME GetFanConfig_1(p)
      PROVE  \/ pc'[p] = "idle"
             \/ /\ pc'[p] = "fmode" /\ IsSeq(task'[p].ids) /\ task'[p].at = 1
                /\ task'[p].val = <<>> /\ task'[p].buf = None
  <2>1. pc[p] = "args" /\ (Fail(p) \/ \E x : Transfer(p, <<x>>, "fmode"))
    BY <1>5 DEF GetFanConfig_1, Ready
  <2>2. ASSUME NEW x, Transfer(p, <<x>>, "fmode")
        PROVE  /\ pc'[p] = "fmode" /\ IsSeq(task'[p].ids) /\ task'[p].at = 1
               /\ task'[p].val = <<>> /\ task'[p].buf = None
    BY <1>1, <2>1, <2>2, OneIsSeq
  <2>3. QED BY <2>1, <2>2, Failed
<1>6. /\ \A o, kind, c, l : GetList(p, o, kind, c, l) => op[p] = o
      /\ \A o, kind, c, l : One(p, o, kind, c, l, TRUE) => op[p] = o
      /\ \A o, kind, c : InfoList(p, o, kind, c) \/ InfoOne(p, o, kind, c) => op[p] = o
  BY DEF GetList, List, One, InfoList, InfoOne, Ready
<1>7. GetFanConfig_1(p) => op[p] = "GetFanConfig_1"
  BY DEF GetFanConfig_1, Ready
<1>8. \/ GetList(p, "GetFanConfigs", "fan", "fanget", "each") /\ op[p] = "GetFanConfigs"
      \/ One(p, "GetFanConfig", "fan", "fanget", "each", TRUE) /\ op[p] = "GetFanConfig"
      \/ GetList(p, "GetFanConfigs_1", "fan", "fanget", "fmode") /\ op[p] = "GetFanConfigs_1"
      \/ GetFanConfig_1(p) /\ op[p] = "GetFanConfig_1"
  BY <1>6, <1>7 DEF FanGets, FansRead, GetFanInfos, GetFanInfosNI, GetFanInfo, GetFanInfoNI, GetFanConfigs,
     GetFanConfigsNI, GetFanConfig, GetFanConfigNI, GetFanStats, GetFanStatsNI, GetFanStat,
     GetFanStatNI, GetFanConfigs_1, GetFanConfigsNI_1, GetFanConfigNI_1
<1>9. QED BY <1>4, <1>5, <1>8 DEF Both

\* One more fan is read.
LEMMA EachTells ==
    ASSUME NEW p, PortShaped(p), RegShaped, DOMAIN None # {"mode", "timer", "auto"},
           op[p] \in FansRead, FansSaid(p), NEW ok \in BOOLEAN, Each(p, ok)
    PROVE  /\ op'[p] = op[p]
           /\ \/ pc'[p] = "each" /\ FansSaid(p)'
              \/ pc'[p] = "idle" /\ ret'[p] = "false"
              \/ /\ pc'[p] = "idle" /\ ret'[p] = "true" /\ ~err[p] /\ Len(task[p].ids) \in Nat
                 /\ \A i \in 1..Len(task[p].ids) : FanTold(p, task'[p].val[i], task[p].ids[i])
<1> USE DEF PortShaped, Shaped
<1> DEFINE t == task[p]  i == t.ids[t.at]  sensed == Sensed(op[p], i)
           e == IF t.buf = None \/ ~ok THEN sensed ELSE [auto |-> t.buf.auto[i], pwm |-> sensed.pwm]
           v == Append(t.val, e)
<1>1. sensed = [pwm |-> Level(reg.pwm[i], 1)]
  BY DEF Sensed, FansRead
<1>2. FanSaid(e, i) /\ (op[p] \in Both /\ ~err[p] /\ ok => "auto" \in DOMAIN e)
  <2>1. t.buf \in {None, reg.aiccfg} /\ (op[p] \in Both /\ ~err[p] => t.buf = reg.aiccfg)
    BY DEF FansSaid
  <2>2. reg.aiccfg # None
    BY DEF RegShaped
  <2> HIDE DEF i
  <2>3. CASE t.buf = None \/ ~ok
    BY <1>1, <2>1, <2>2, <2>3 DEF FanSaid
  <2>4. CASE ~(t.buf = None \/ ~ok)
    <3>1. e = [auto |-> reg.aiccfg.auto[i], pwm |-> Level(reg.pwm[i], 1)]
      BY <1>1, <2>1, <2>4
    <3> HIDE DEF e
    <3>2. DOMAIN e = {"auto", "pwm"} /\ e.pwm = Level(reg.pwm[i], 1) /\ e.auto = reg.aiccfg.auto[i]
      BY <3>1
    <3>3. QED BY <3>2 DEF FanSaid
  <2>5. QED BY <2>3, <2>4
<1> HIDE DEF e
<1>3. /\ IsSeq(v) /\ Len(v) = t.at /\ t.at \in Nat
      /\ \A j \in 1..Len(v) : /\ FanSaid(v[j], t.ids[j])
                              /\ op[p] \in Both /\ ~err[p] /\ ok => "auto" \in DOMAIN v[j]
  <2>1. IsSeq(t.val) /\ t.at = Len(t.val) + 1
    BY DEF FansSaid
  <2>2. /\ IsSeq(v) /\ Len(v) = Len(t.val) + 1 /\ Len(t.val) \in Nat
        /\ \A j \in 1..Len(t.val) : v[j] = t.val[j]
        /\ v[Len(t.val) + 1] = e
    BY <2>1, Appended
  <2> HIDE DEF v
  <2>3. ASSUME NEW j \in 1..Len(v)
        PROVE  FanSaid(v[j], t.ids[j]) /\ (op[p] \in Both /\ ~err[p] /\ ok => "auto" \in DOMAIN v[j])
    <3>1. CASE j = t.at
      BY <1>2, <2>1, <2>2, <3>1
    <3>2. CASE j # t.at
      <4>1. j \in 1..Len(t.val) /\ v[j] = t.val[j]
        BY <2>1, <2>2, <2>3, <3>2
      <4>2. FanTold(p, t.val[j], t.ids[j])
        BY <4>1 DEF FansSaid
      <4>3. QED BY <4>1, <4>2 DEF FanTold
    <3>3. QED BY <3>1, <3>2
  <2>4. QED BY <2>1, <2>2, <2>3
<1>4. /\ pc[p] = "each" /\ reg' = reg
      /\ CASE ~AtLast(p) -> /\ Continue(p, "each") /\ SetErr(p, err[p] \/ ~ok)
                            /\ task' = [task EXCEPT ![p].val = v, ![p].at = @ + 1]
           [] AtLast(p) /\ (err[p] \/ ~ok) -> Fail(p)
           [] OTHER -> Give(p, t.ids, v)
  BY Zenon DEF Each, KeepPorts, e
<1> HIDE DEF v
<1>5. CASE ~AtLast(p)
  <2> DEFINE f == [t EXCEPT !.val = v, !.at = @ + 1]
  <2>1. /\ f.val = v /\ f.at = t.at + 1 /\ f.ids = t.ids /\ f.buf = t.buf
    BY DEF NoTask
  <2>2. Continue(p, "each") /\ SetErr(p, err[p] \/ ~ok) /\ task' = [task EXCEPT ![p] = f]
    BY <1>4, <1>5
  <2> HIDE DEF f
  <2>3. /\ task'[p] = f /\ pc'[p] = "each" /\ op' = op /\ err'[p] = (err[p] \/ ~ok)
    BY <2>2 DEF Continue, Goto, SetErr
  <2>4. \A j \in 1..Len(v) : /\ v[j].pwm = Level(reg'.pwm[t.ids[j]], 1)
                             /\ "auto" \in DOMAIN v[j] => v[j].auto = reg'.aiccfg.auto[t.ids[j]]
                             /\ op'[p] \in Both /\ ~err'[p] => "auto" \in DOMAIN v[j]
    BY <1>3, <1>4, <2>3 DEF FanSaid
  <2>5. FansSaid(p)'
    <3>1. /\ IsSeq(task'[p].ids) /\ IsSeq(task'[p].val) /\ task'[p].at = Len(task'[p].val) + 1
          /\ task'[p].at \in Nat /\ task'[p].buf \in {None, reg'.aiccfg}
          /\ op'[p] \in Both /\ ~err'[p] => task'[p].buf = reg'.aiccfg
      BY <1>3, <1>4, <2>1, <2>3 DEF FansSaid
    <3>2. \A j \in 1..Len(task'[p].val) :
            /\ task'[p].val[j].pwm = Level(reg'.pwm[task'[p].ids[j]], 1)
            /\ "auto" \in DOMAIN task'[p].val[j] =>
                   task'[p].val[j].auto = reg'.aiccfg.auto[task'[p].ids[j]]
            /\ op'[p] \in Both /\ ~err'[p] => "auto" \in DOMAIN task'[p].val[j]
      BY <2>1, <2>3, <2>4
    <3>3. QED BY <3>1, <3>2 DEF FansSaid, FanTold, FanSaid
  <2>6. QED BY <2>3, <2>5
<1>6. CASE AtLast(p) /\ (err[p] \/ ~ok)
  BY <1>4, <1>6, Failed
<1>7. CASE AtLast(p) /\ ~(err[p] \/ ~ok)
  <2>1. task'[p].val = v /\ pc'[p] = "idle" /\ ret'[p] = "true" /\ op' = op
    BY <1>4, <1>7, Gives
  <2>2. Len(t.ids) = Len(v)
    BY <1>3, <1>7 DEF AtLast
  <2>3. QED BY <1>3, <1>7, <2>1, <2>2 DEF FanTold
<1>8. QED BY <1>5, <1>6, <1>7
\* A call between the first and the last of its fans does nothing else.
LEMMA EachGoesOn ==
    ASSUME FreshInv, NEW p, Moves(p), pc[p] = "each" PROVE \E ok \in BOOLEAN : Each(p, ok)
<1> USE DEF Moves
<1>1. PoeShaped(p) /\ PortShaped(p) /\ RegShaped /\ Sized(p) /\ CountsInv /\ OnWay(p)
  BY LibShapes DEF FreshInv, WayInv, LibInv
<1>2. ~AskCounts(p)
  <2>1. \A o : ~Query(p, o)
    BY DEF Query, Hit, Enter
  <2>2. ~CountOnly(p) /\ ~CountDone(p)
    BY DEF CountOnly, Enter, CountDone
  <2>3. ~CountStep(p)
    BY DEF CountStep, EfcoId, Privilege, SelectCounts, ReadCounts, AskPoeInfo, ReadPoeInfo, SelectMain
  <2>4. ~QueryStep(p)
    BY DEF QueryStep, BoardId, Vers, VersMore, Temperature
  <2>5. QED BY <2>1, <2>2, <2>3, <2>4 DEF AskCounts
<1>3. ~PoeAct(p)
  <2>1. op[p] \in PortCalls
    BY <1>1 DEF OnWay, Works, PoeWrites
  <2>2. ~Begin(p)
    BY DEF Begin, Enter
  <2>3. PoeAct(p) => op'[p] = op[p]
    BY <1>1, <2>2, PoeMoves DEF Calm
  <2>4. QED BY <1>1, <2>1, <2>3, WayPoe
<1>4. ~Request(p)
  BY DEF Request, Refuse, Enter
<1>5. ~Ready(p, op[p]) /\ ~NextMonitor(p)
  BY DEF Ready, NextMonitor
<1>6. PortStep(p) \/ SensorStep(p)
  BY <1>2, <1>3, <1>4, <1>5, Families
<1>7. ~PortStep(p)
  BY DEF PortStep, ReadPort, ReadToSet, WritePort
<1>8. QED
  BY <1>6, <1>7 DEF SensorStep, ReadWDT, RaiseWDT, WriteWDT, ReadFanDeaf, ReadFanMode, ReadFanWord,
     WriteFanWord, WriteFanTemperatures, WriteFanDuty, ReadGains, ReadTypes, SelectMonitor, ReadMonitor

FansInv == FreshInv /\ (Alone => \A p \in Procs : FanReady(p))

LEMMA FansStep ==
    ASSUME FreshInv, DOMAIN None # {"mode", "timer", "auto"}, NEW p, Moves(p), FanReady(p)
    PROVE  FanReady(p)'
<1> USE DEF Moves
<1>1. PoeShaped(p) /\ PortShaped(p) /\ RegShaped /\ Sized(p) /\ CountsInv /\ LibInv /\ OnWay(p) /\ Fresh(p)
  BY LibShapes DEF FreshInv, WayInv, LibInv
<1>2. pc'[p] \notin {"each", "fmode"} => FanReady(p)'
  BY DEF FanReady
<1>3. CASE ~((PortAct(p) \/ SensorAct(p)) /\ ~Request(p))
  <2>1. pc'[p] \notin Works \ PoeWrites
    BY <1>1, <1>3, Elsewhere
  <2>2. QED BY <1>2, <2>1 DEF Works, PoeWrites
<1>4. CASE (PortAct(p) \/ SensorAct(p)) /\ ~Request(p)
  <2>1. op'[p] = op[p]
    BY <1>1, <1>4, PortMoves DEF Calm
  <2>2. SUFFICES ASSUME op[p] \in FansRead, pc'[p] \in {"each", "fmode"} PROVE FanReady(p)'
    BY <2>1 DEF FanReady
  <2>3. CASE pc[p] = "each"
    <3>1. PICK ok \in BOOLEAN : Each(p, ok)
      BY <2>3, EachGoesOn
    <3>2. FansSaid(p)
      BY <2>2, <2>3 DEF FanReady
    <3>3. QED BY <1>1, <2>2, <3>1, <3>2, EachTells DEF FanReady
  <2>4. ASSUME NEW ok \in BOOLEAN, ReadFanMode(p, ok) PROVE FanReady(p)'
    <3>1. /\ pc[p] = "fmode" /\ reg' = reg /\ Continue(p, "each") /\ SetErr(p, ~ok)
          /\ task' = IF ok THEN [task EXCEPT ![p].buf = reg.aiccfg] ELSE task
      BY <2>4 DEF ReadFanMode, KeepPorts
    <3>2. task[p].val = <<>> /\ task[p].buf = None /\ task[p].at = 1 /\ IsSeq(task[p].ids)
      BY <2>2, <3>1 DEF FanReady
    <3> DEFINE f == [task[p] EXCEPT !.buf = reg.aiccfg]
    <3>3. f.val = task[p].val /\ f.ids = task[p].ids /\ f.at = task[p].at /\ f.buf = reg.aiccfg
      BY <1>1 DEF PortShaped, NoTask
    <3>4. task' = IF ok THEN [task EXCEPT ![p] = f] ELSE task
      BY <3>1
    <3> HIDE DEF f
    <3>5. /\ task'[p].val = <<>> /\ task'[p].at = 1 /\ task'[p].ids = task[p].ids
          /\ task'[p].buf = IF ok THEN reg'.aiccfg ELSE None
          /\ pc'[p] = "each" /\ err'[p] = ~ok
      BY <1>1, <3>1, <3>2, <3>3, <3>4 DEF PortShaped, Shaped, Continue, Goto, SetErr
    <3>6. IsSeq(<<>>) /\ Len(<<>>) = 0
      <4>1. <<>> \in Seq({})
        OBVIOUS
      <4>2. QED BY <4>1 DEF IsSeq
    <3>7. FansSaid(p)'
      <4>1. IsSeq(task'[p].ids) /\ IsSeq(task'[p].val) /\ Len(task'[p].val) = 0
        BY <3>2, <3>5, <3>6
      <4>2. task'[p].buf \in {None, reg'.aiccfg} /\ (~err'[p] => task'[p].buf = reg'.aiccfg)
        BY <3>5
      <4>3. QED BY <3>5, <4>1, <4>2 DEF FansSaid
    <3>8. QED BY <3>5, <3>7 DEF FanReady
  <2>5. CASE Ready(p, op[p])
    <3>1. FanGets(p)
      <4>1. op[p] \in FanCalls /\ op[p] \notin FanSetters
        BY <2>2 DEF FansRead, FanCalls, FanSetters, NewForm
      <4>2. pc[p] = "args"
        BY <2>5 DEF Ready
      <4>3. ~NextMonitor(p) /\ ~PortStep(p) /\ ~SensorStep(p)
        BY <4>2 DEF NextMonitor, PortStep, SensorStep, ReadPort, ReadToSet, WritePort, ReadWDT, RaiseWDT,
           WriteWDT, Each, ReadFanDeaf, ReadFanMode, ReadFanWord, WriteFanWord, WriteFanTemperatures,
           WriteFanDuty, ReadGains, ReadTypes, SelectMonitor, ReadMonitor
      <4>4. op[p] \notin HWMonCalls
        BY <2>2 DEF FansRead, HWMonCalls
      <4>5. FanGets(p) \/ FanSets(p)
        BY <1>4, <4>1, <4>3, <4>4, Families, ManyCalls
      <4>6. FanSets(p) => op[p] \in FanSetters
        BY DEF FanSets, FanSetters, NewForm, SetFanConfigs, SetFanConfigsNI, SetFanConfig, SetFanConfigNI,
           SetFanConfigs_1, SetFanConfigsNI_1, SetFanConfig_1, SetFanConfigNI_1, GetList, List, One, Ready
      <4>7. QED BY <4>1, <4>5, <4>6
    <3>2. /\ pc'[p] = (IF op[p] \in Both THEN "fmode" ELSE "each")
          /\ IsSeq(task'[p].ids) /\ task'[p].at = 1 /\ task'[p].val = <<>> /\ task'[p].buf = None
      BY <1>1, <2>2, <3>1, FansStart
    <3>3. IsSeq(<<>>) /\ Len(<<>>) = 0
      <4>1. <<>> \in Seq({})
        OBVIOUS
      <4>2. QED BY <4>1 DEF IsSeq
    <3>4. pc'[p] = "each" => FansSaid(p)'
      BY <2>1, <3>2, <3>3 DEF FansSaid
    <3>5. QED BY <3>2, <3>4 DEF FanReady
  <2>6. CASE NextMonitor(p) \/ PortStep(p)
    <3>1. pc'[p] \in {"idle", "write", "mon", "msel"}
      BY <1>1, <2>6, TaskBlocks DEF NextMonitor, PortStep, ReadPort, ReadToSet, WritePort, Over, Return,
         Continue, Goto, PortShaped, Shaped
    <3>2. QED BY <2>2, <3>1
  <2>7. CASE SensorStep(p)
    <3>1. PICK ok \in BOOLEAN :
            \/ ReadWDT(p, ok) \/ RaiseWDT(p, ok) \/ WriteWDT(p, ok) \/ Each(p, ok)
            \/ ReadFanDeaf(p, ok) \/ ReadFanMode(p, ok) \/ ReadFanWord(p, ok)
            \/ WriteFanWord(p, ok) \/ WriteFanTemperatures(p, ok) \/ WriteFanDuty(p, ok)
            \/ ReadGains(p, ok) \/ ReadTypes(p, ok) \/ SelectMonitor(p, ok) \/ ReadMonitor(p, ok)
      BY <2>7 DEF SensorStep
    <3>2. Each(p, ok) => pc[p] = "each"
      BY DEF Each
    <3>3. pc[p] \in Before \cup Way(op[p]) /\ op[p] \in PortCalls
      BY <1>1, <2>2 DEF OnWay, FansRead, PortCalls, FanCalls
    <3>4. op[p] \notin Setters \cup DogAsks \cup DogSets \cup FanSetters
      BY <2>2 DEF FansRead, Setters, DogAsks, DogGets, DogSets, FanSetters, NewForm
    <3>5. pc[p] \notin {"wget", "wfix", "wput", "fcfg", "fwr", "ftrig", "fpwm"}
      BY <3>3, <3>4, Ways DEF Before, Counting, Behind
    <3>6. ReadFanDeaf(p, ok) \/ ReadGains(p, ok) \/ ReadTypes(p, ok) \/ SelectMonitor(p, ok) \/ ReadMonitor(p, ok)
          => Over(p) \/ \E x \in {"type", "args", "mread", "mon"} : Continue(p, x)
      BY <1>1, TaskBlocks DEF ReadFanDeaf, ReadGains, ReadTypes, SelectMonitor, ReadMonitor
    <3>7. ~(Over(p) \/ \E x \in {"type", "args", "mread", "mon"} : Continue(p, x))
      BY <1>1, <2>2 DEF Over, Return, Continue, Goto, PortShaped, Shaped
    <3>8. Each(p, ok) \/ ReadFanMode(p, ok)
      BY <3>1, <3>5, <3>6, <3>7 DEF ReadWDT, RaiseWDT, WriteWDT, ReadFanWord, WriteFanWord,
         WriteFanTemperatures, WriteFanDuty
    <3>9. QED BY <2>3, <2>4, <3>2, <3>8
  <2>8. QED BY <1>4, <2>5, <2>6, <2>7, Families
<1>5. QED BY <1>3, <1>4

LEMMA FansInductive ==
    ASSUME DOMAIN None # {"mode", "timer", "auto"}
    PROVE  FansInv /\ [LibNext]_libVars => FansInv'
<1> SUFFICES ASSUME FansInv, [LibNext]_libVars PROVE FansInv'
  OBVIOUS
<1>1. FreshInv'
  BY FreshInductive DEF FansInv
<1>2. CASE LibNext
  <2>1. PICK p \in Who[scene] : Moves(p)
    BY <1>2, Mover DEF FansInv, FreshInv, WayInv
  <2>2. p \in Procs /\ scene' = scene
    BY <2>1 DEF Moves
  <2> SUFFICES ASSUME Alone, NEW q \in Procs PROVE FanReady(q)'
    BY <1>1, <2>2 DEF FansInv, Alone
  <2>3. CASE q = p
    BY <2>1, <2>2, <2>3, FansStep DEF FansInv
  <2>4. CASE q # p
    <3>1. pc[q] = "idle"
      BY <2>4 DEF Alone, FansInv, FreshInv, WayInv, LibInv, CountsInv, Sole
    <3>2. pc'[q] = "idle"
      BY <2>1, <2>4, <3>1 DEF Moves, Mine, FansInv, FreshInv, WayInv, LibInv, CountsInv, Types
    <3>3. QED BY <3>2 DEF FanReady
  <2>5. QED BY <2>3, <2>4
<1>3. CASE UNCHANGED libVars
  BY <1>1, <1>3 DEF FansInv, FanReady, FansSaid, FanTold, FanSaid, Alone, libVars
<1>4. QED BY <1>2, <1>3

LEMMA FansInitial == LibInit => FansInv
BY FreshInitial DEF FansInv, FanReady, LibInit, PoeInit, CountsInit

\* What is told of the fans when a call ends.
FansAnswer(p) ==
    pc[p] = "each" /\ pc'[p] = "idle" /\ ret'[p] = "true"
    /\ op[p] \in {"GetFanConfigs", "GetFanConfigs_1", "GetFanConfig", "GetFanConfig_1"} =>
        \A i \in DOMAIN task[p].ids :
            LET d == task[p].ids[i]  told == task'[p].val[i]
            IN /\ told.pwm = Level(reg.pwm[d], 1)
               /\ "auto" \in DOMAIN told => told.auto = reg.aiccfg.auto[d]
               /\ op[p] \in {"GetFanConfigs_1", "GetFanConfig_1"} => "auto" \in DOMAIN told

LEMMA FansAnswered ==
    ASSUME DOMAIN None # {"mode", "timer", "auto"}, FansInv, [LibNext]_libVars, Alone, NEW q \in Procs
    PROVE  FansAnswer(q)
<1> SUFFICES ASSUME pc[q] = "each", pc'[q] = "idle", ret'[q] = "true", op[q] \in FansRead
             PROVE  FansAnswer(q)
  BY DEF FansAnswer, FansRead
<1>1. PICK p \in Who[scene] : Moves(p)
  BY Mover DEF libVars, FansInv, FreshInv, WayInv
<1>2. p = q
  BY <1>1 DEF Moves, Mine, FansInv, FreshInv, WayInv, LibInv, CountsInv, Types
<1>3. PICK ok \in BOOLEAN : Each(q, ok)
  BY <1>1, <1>2, EachGoesOn DEF FansInv
<1>4. PortShaped(q) /\ RegShaped
  BY <1>1, LibShapes DEF Moves, FansInv, FreshInv, WayInv, LibInv
<1>5. FansSaid(q)
  BY DEF FansInv, FanReady
<1>6. /\ ~err[q] /\ Len(task[q].ids) \in Nat
      /\ \A i \in 1..Len(task[q].ids) : FanTold(q, task'[q].val[i], task[q].ids[i])
  BY <1>3, <1>4, <1>5, EachTells
<1>7. DOMAIN task[q].ids = 1..Len(task[q].ids)
  <2>1. PICK S : task[q].ids \in Seq(S)
    BY <1>5 DEF FansSaid, IsSeq
  <2>2. QED BY <2>1
<1>8. QED BY <1>6, <1>7 DEF FansAnswer, FanTold, FanSaid, Both

\* What a program alone with the AIC is told of a list of fans is true of one moment,
\* however many transfers the call takes and whatever earlier calls have left behind.
THEOREM LibFansTold ==
    DOMAIN None # {"mode", "timer", "auto"} => (LibSpec => FansTold)
<1>1. ASSUME DOMAIN None # {"mode", "timer", "auto"} PROVE LibSpec => FansTold
  <2>1. FansInv /\ [LibNext]_libVars => FansInv'
    BY <1>1, FansInductive
  <2>2. FansInv /\ [LibNext]_libVars => [Alone => \A p \in Procs : FansAnswer(p)]_portVars
    BY <1>1, FansAnswered
  <2>3. QED
    BY <2>1, <2>2, FansInitial, PTL
    DEF LibSpec, FansTold, FansAnswer
<1>2. QED BY <1>1
-----------------------------------------------------------------------------
(* The ports that are set.                                                 *)

Obeyers == {"SetCOMConfigs", "SetminiPCIeConfigs", "SetminiPCIeConfig", "SetUSBConfigs", "SetUSBConfig"}
MiniUsbSets == Obeyers \ {"SetCOMConfigs"}
Switchings == {"com", "mini", "usb"}

PortSaid(p) ==
    \A i \in DOMAIN task[p].ids : reg[Word(op[p])][task[p].ids[i]] = task[p].set[i]

\* The registers have a place for every device that may be there, and the
\* cursors of the sets name one.
Wide == 1..2 \subseteq DOMAIN reg.com /\ 1..3 \subseteq DOMAIN reg.mini /\ 1..2 \subseteq DOMAIN reg.usb
Placed(p) == /\ p \in DOMAIN next /\ DOMAIN next[p] = Turns
             /\ next[p]["miniset"] \in 0..2 /\ next[p]["usbset"] \in 0..1

\* The ids of a list that names devices of the word w, none of them twice.
Fits(ids, w) == Once(ids) /\ \A i \in DOMAIN ids : ids[i] \in DOMAIN w

\* A set about to read the word has devices of it, each once; about to write it,
\* has their new bits in the word in hand.
PortKnown(p) ==
    /\ Wide /\ Placed(p)
    /\ pc[p] \in {"read", "write"} /\ op[p] \in Obeyers => Fits(task[p].ids, reg[Word(op[p])])
    /\ pc[p] = "write" /\ op[p] \in Obeyers \cup {"SetCOMConfig"} =>
           DOMAIN task[p].buf = DOMAIN reg[Word(op[p])]
    /\ pc[p] = "write" /\ op[p] \in Obeyers =>
           \A i \in DOMAIN task[p].ids : task[p].buf[task[p].ids[i]] = task[p].set[i]
    /\ Ended(p, Obeyers) => PortSaid(p)

\* A step that sets no port.
CursorsAside(p) == next' = next \/ \E c \in Turns \ {"miniset", "usbset"} : \E k : Turn(p, c, k)
PortAside(p) == /\ \A w \in Switchings : reg'[w] = reg[w]
                /\ Placed(p)'
                /\ pc'[p] \in {"read", "write"} => op'[p] \notin Obeyers
                /\ pc'[p] = "write" => op'[p] # "SetCOMConfig"
                /\ ~Ended(p, Obeyers)'

LEMMA WordsOfPorts ==
    /\ \A o \in Obeyers \cup {"SetCOMConfig"} : o \in Setters /\ Word(o) \in Switchings
    /\ \A o \in Setters \ (Obeyers \cup {"SetCOMConfig"}) : Word(o) \notin Switchings
    /\ Word("SetCOMConfigs") = "com" /\ Word("SetminiPCIeConfigs") = "mini"
    /\ Word("SetminiPCIeConfig") = "mini" /\ Word("SetUSBConfigs") = "usb" /\ Word("SetUSBConfig") = "usb"
BY DEF Obeyers, Setters, Switchings, Word, COMCalls, MiniCalls, MiniInfos, USBCalls, USBInfos

LEMMA PortsAside == ASSUME NEW p, PortKnown(p), PortAside(p) PROVE PortKnown(p)'
<1>1. Wide'
  BY DEF PortKnown, PortAside, Wide, Switchings
<1>2. QED BY <1>1 DEF PortKnown, PortAside

LEMMA CursorsPlaced == ASSUME NEW p, Placed(p), CursorsAside(p) PROVE Placed(p)'
<1>1. ASSUME NEW c \in Turns, NEW k, Turn(p, c, k), c \notin {"miniset", "usbset"} PROVE Placed(p)'
  <2> DEFINE n == [next[p] EXCEPT ![c] = k]
  <2>1. DOMAIN n = Turns /\ n["miniset"] = next[p]["miniset"] /\ n["usbset"] = next[p]["usbset"]
    BY <1>1 DEF Placed, Turns
  <2>2. p \in DOMAIN next' /\ next'[p] = n
    BY <1>1 DEF Turn, Placed
  <2> HIDE DEF n
  <2>3. QED BY <2>1, <2>2 DEF Placed
<1>2. QED BY <1>1 DEF CursorsAside, Placed

\* The set cursors after a set.
LEMMA CursorTurned ==
    ASSUME NEW p, Placed(p), NEW c, NEW k, Turn(p, c, k),
           (c = "miniset" /\ k \in 0..2) \/ (c = "usbset" /\ k \in 0..1)
    PROVE  Placed(p)'
<1> DEFINE n == [next[p] EXCEPT ![c] = k]
<1>1. DOMAIN n = Turns /\ n["miniset"] \in 0..2 /\ n["usbset"] \in 0..1
  <2>1. CASE c = "miniset"
    BY <2>1 DEF Placed, Turns
  <2>2. CASE c = "usbset"
    BY <2>2 DEF Placed, Turns
  <2>3. QED BY <2>1, <2>2
<1>2. p \in DOMAIN next' /\ next'[p] = n
  BY DEF Turn, Placed
<1> HIDE DEF n
<1>3. QED BY <1>1, <1>2 DEF Placed

LEMMA CursorsElsewhere ==
    ASSUME NEW p, NEW o, NEW kind, NEW c \in Turns \ {"miniset", "usbset"}, NEW l,
           \/ InfoList(p, o, kind, c) \/ InfoOne(p, o, kind, c)
           \/ One(p, o, kind, c, l, TRUE) \/ GetList(p, o, kind, c, l)
    PROVE  CursorsAside(p)
BY DEF InfoList, InfoOne, One, GetList, List, CursorsAside

LEMMA OthersTurn ==
    ASSUME NEW p, op[p] \notin MiniUsbSets,
           \/ Power(p) \/ COMPorts(p) \/ MiniSlots(p) \/ USBPorts(p) \/ Watchdogs(p)
           \/ FanGets(p) \/ FanSets(p) \/ (MonitorCalls(p) /\ ~NextMonitor(p))
    PROVE  CursorsAside(p)
<1>1. \A o, l : Plain(p, o, l) => CursorsAside(p)
  BY DEF Plain, CursorsAside
<1>2. /\ "cominfo" \in Turns \ {"miniset", "usbset"} /\ "comget" \in Turns \ {"miniset", "usbset"}
      /\ "comset" \in Turns \ {"miniset", "usbset"} /\ "miniinfo" \in Turns \ {"miniset", "usbset"}
      /\ "miniget" \in Turns \ {"miniset", "usbset"} /\ "ministat" \in Turns \ {"miniset", "usbset"}
      /\ "usbinfo" \in Turns \ {"miniset", "usbset"} /\ "usbget" \in Turns \ {"miniset", "usbset"}
      /\ "faninfo" \in Turns \ {"miniset", "usbset"} /\ "fanget" \in Turns \ {"miniset", "usbset"}
      /\ "fanstat" \in Turns \ {"miniset", "usbset"} /\ "moninfo" \in Turns \ {"miniset", "usbset"}
      /\ "monstat" \in Turns \ {"miniset", "usbset"}
  BY DEF Turns
<1>3. Power(p) => CursorsAside(p)
  BY <1>1 DEF Power, GetLANConfig, GetLANConfigNI, SetLANConfig, SetLANConfigNI,
     GetPowerConfig, GetPowerConfigNI, SetPowerConfig, SetPowerConfigNI, GetPower, GetTotalOnTimeMins,
     GetOnTimeSecs, GetPowerCounter, GetLastPowerStatus, GetBootCounter
<1>4. COMPorts(p) => CursorsAside(p)
  <2>1. (GetCOMConfigs(p) => CursorsAside(p)) /\ (SetCOMConfigs(p) => CursorsAside(p))
        /\ (SetCOMConfig(p) => CursorsAside(p))
    BY <1>2 DEF GetCOMConfigs, SetCOMConfigs, SetCOMConfig, List, One, CursorsAside
  <2>2. QED
    BY <1>2, <2>1, CursorsElsewhere DEF COMPorts, GetCOMInfos, GetCOMInfosNI, GetCOMInfo, GetCOMInfoNI,
       GetCOMConfigsNI, GetCOMConfig, GetCOMConfigNI, SetCOMConfigsNI, SetCOMConfigNI
<1>5. MiniSlots(p) => CursorsAside(p)
  <2>1. ~SetminiPCIeConfigs(p) /\ ~SetminiPCIeConfig(p)
    BY DEF MiniUsbSets, Obeyers, SetminiPCIeConfigs, SetminiPCIeConfig, List, One, Ready
  <2>2. QED
    BY <1>2, <2>1, CursorsElsewhere DEF MiniSlots, GetminiPCIeInfos, GetminiPCIeInfosNI,
       GetminiPCIeInfo, GetminiPCIeInfoNI, GetminiPCIeConfigs, GetminiPCIeConfigsNI,
       GetminiPCIeConfig, GetminiPCIeConfigNI, SetminiPCIeConfigsNI, SetminiPCIeConfigNI,
       GetminiPCIeStats, GetminiPCIeStatsNI, GetminiPCIeStat, GetminiPCIeStatNI
<1>6. USBPorts(p) => CursorsAside(p)
  <2>1. ~SetUSBConfigs(p) /\ ~SetUSBConfig(p)
    BY DEF MiniUsbSets, Obeyers, SetUSBConfigs, SetUSBConfig, List, One, Ready
  <2>2. QED
    BY <1>2, <2>1, CursorsElsewhere DEF USBPorts, GetUSBInfos, GetUSBInfosNI, GetUSBInfo,
       GetUSBInfoNI, GetUSBConfigs, GetUSBConfigsNI, GetUSBConfig, GetUSBConfigNI,
       SetUSBConfigsNI, SetUSBConfigNI
<1>7. Watchdogs(p) => CursorsAside(p)
  BY <1>1 DEF Watchdogs, GetPowerupWDTConfig, GetPowerupWDTConfigNI,
     SetPowerupWDTConfig, SetPowerupWDTConfigNI, GetRuntimeWDTConfig, GetRuntimeWDTConfigNI,
     SetRuntimeWDTConfig, SetRuntimeWDTConfigNI, GetRuntimeWDTStat, GetRuntimeWDTStatNI
<1>8. FanGets(p) => CursorsAside(p)
  <2>1. GetFanConfig_1(p) => CursorsAside(p)
    BY <1>2 DEF GetFanConfig_1, CursorsAside
  <2>2. QED
    BY <1>2, <2>1, CursorsElsewhere DEF FanGets, GetFanInfos, GetFanInfosNI, GetFanInfo, GetFanInfoNI,
       GetFanConfigs, GetFanConfigsNI, GetFanConfig, GetFanConfigNI, GetFanStats, GetFanStatsNI,
       GetFanStat, GetFanStatNI, GetFanConfigs_1, GetFanConfigsNI_1, GetFanConfigNI_1
<1>9. FanSets(p) => CursorsAside(p)
  BY <1>2, CursorsElsewhere DEF FanSets, SetFanConfigs, SetFanConfigsNI, SetFanConfig, SetFanConfigNI,
     SetFanConfigs_1, SetFanConfigsNI_1, SetFanConfig_1, SetFanConfigNI_1
<1>10. MonitorCalls(p) /\ ~NextMonitor(p) => CursorsAside(p)
  <2>1. (GetHWMonInfosA(p) => CursorsAside(p)) /\ (GetHWMonInfoA(p) => CursorsAside(p))
    BY <1>2 DEF GetHWMonInfosA, GetHWMonInfoA, CursorsAside
  <2>2. QED
    BY <1>2, <2>1, CursorsElsewhere DEF MonitorCalls, GetHWMonStats, GetHWMonStatsNI, GetHWMonStat,
       GetHWMonStatNI, GetHWMonInfosANI, GetHWMonInfosW, GetHWMonInfosWNI, GetHWMonInfoANI,
       GetHWMonInfoW, GetHWMonInfoWNI
<1>11. QED BY <1>3, <1>4, <1>5, <1>6, <1>7, <1>8, <1>9, <1>10

LEMMA Cursored ==
    ASSUME NEW ids \in Seq(Nat), NEW n \in {2, 3}, NEW c \in 0..n - 1
    PROVE  /\ Moved(ids, n, n, c) \in 0..n - 1
           /\ \A id \in Nat : MovedOne(id, n, c) \in 0..n - 1
           /\ \A id \in 0..n : OneOf(id, c) \in 1..n
<1>1. Len(ids) \in Nat
  OBVIOUS
<1>2. Room(ids, n) \in Nat
  BY <1>1 DEF Room
<1> DEFINE k == Room(ids, n)
<1> HIDE DEF k
<1>3. k \in Nat
  BY <1>2 DEF k
<1>4. \A x \in Nat : x % n \in 0..n - 1
  OBVIOUS
<1>5. (c + k) % n \in 0..n - 1 /\ (c + 1) % n \in 0..n - 1
  <2>1. c + k \in Nat /\ c + 1 \in Nat
    BY <1>3
  <2>2. QED BY <1>4, <2>1
<1>6. QED BY <1>5 DEF Moved, MovedOne, OneOf, k

\* The step that starts such a set is its own.
LEMMA SetsAre ==
    ASSUME NEW p, op[p] \in Obeyers, PortAct(p) \/ SensorAct(p), Ready(p, op[p])
    PROVE  CASE op[p] = "SetCOMConfigs" -> SetCOMConfigs(p)
             [] op[p] = "SetminiPCIeConfigs" -> SetminiPCIeConfigs(p)
             [] op[p] = "SetminiPCIeConfig" -> SetminiPCIeConfig(p)
             [] op[p] = "SetUSBConfigs" -> SetUSBConfigs(p)
             [] op[p] = "SetUSBConfig" -> SetUSBConfig(p)
<1>1. pc[p] = "args"
  BY DEF Ready
<1>2. ~Request(p) /\ ~NextMonitor(p)
  BY <1>1 DEF Request, Refuse, Enter, NextMonitor
<1>3. ~PortStep(p)
  BY <1>1 DEF PortStep, ReadPort, ReadToSet, WritePort
<1>4. ~SensorStep(p)
  BY <1>1 DEF SensorStep, ReadWDT, RaiseWDT, WriteWDT, Each, ReadFanDeaf,
       ReadFanMode, ReadFanWord, WriteFanWord, WriteFanTemperatures, WriteFanDuty, SelectMonitor,
       ReadMonitor, ReadGains, ReadTypes
<1>5. /\ op[p] = "SetCOMConfigs" => COMPorts(p)
      /\ op[p] \in {"SetminiPCIeConfigs", "SetminiPCIeConfig"} => MiniSlots(p)
      /\ op[p] \in {"SetUSBConfigs", "SetUSBConfig"} => USBPorts(p)
  <2>1. op[p] \in Setters /\ op[p] \notin PowerCalls \cup FanCalls \cup HWMonCalls \cup DogAsks \cup DogSets
    BY ManyCalls DEF Obeyers, Setters, PowerCalls, Meters, DogAsks, DogGets, DogSets
  <2>2. \/ COMPorts(p) /\ op[p] \in COMCalls
        \/ MiniSlots(p) /\ op[p] \in MiniCalls
        \/ USBPorts(p) /\ op[p] \in USBCalls
    <3>1. /\ op[p] \notin PowerCalls /\ op[p] \notin FanCalls /\ op[p] \notin HWMonCalls
          /\ op[p] \notin DogAsks \cup DogSets
      BY <2>1
    <3>2. \/ Power(p) /\ op[p] \in PowerCalls
          \/ COMPorts(p) /\ op[p] \in COMCalls
          \/ MiniSlots(p) /\ op[p] \in MiniCalls
          \/ USBPorts(p) /\ op[p] \in USBCalls
          \/ Watchdogs(p) /\ op[p] \in DogAsks \cup DogSets
          \/ (FanGets(p) \/ FanSets(p)) /\ op[p] \in FanCalls
          \/ MonitorCalls(p) /\ ~NextMonitor(p) /\ op[p] \in HWMonCalls
      BY <1>2, <1>3, <1>4, Families
    <3>3. QED BY <3>1, <3>2
  <2>3. QED BY <2>2 DEF COMCalls, MiniCalls, MiniInfos, USBCalls, USBInfos
<1>6. op[p] = "SetCOMConfigs" => SetCOMConfigs(p)
  BY <1>5 DEF COMPorts, GetCOMInfos, GetCOMInfosNI, GetCOMInfo, GetCOMInfoNI, GetCOMConfigs,
     GetCOMConfigsNI, GetCOMConfig, GetCOMConfigNI, SetCOMConfigsNI, SetCOMConfig, SetCOMConfigNI,
     InfoList, InfoOne, List, One, Ready
<1>7. /\ op[p] = "SetminiPCIeConfigs" => SetminiPCIeConfigs(p)
      /\ op[p] = "SetminiPCIeConfig" => SetminiPCIeConfig(p)
  BY <1>5 DEF MiniSlots, GetminiPCIeInfos, GetminiPCIeInfosNI,
     GetminiPCIeInfo, GetminiPCIeInfoNI, GetminiPCIeConfigs, GetminiPCIeConfigsNI,
     GetminiPCIeConfig, GetminiPCIeConfigNI, SetminiPCIeConfigsNI, SetminiPCIeConfigNI,
     GetminiPCIeStats, GetminiPCIeStatsNI, GetminiPCIeStat, GetminiPCIeStatNI,
     InfoList, InfoOne, GetList, List, One, Ready, SetminiPCIeConfigs, SetminiPCIeConfig
<1>8. /\ op[p] = "SetUSBConfigs" => SetUSBConfigs(p)
      /\ op[p] = "SetUSBConfig" => SetUSBConfig(p)
  BY <1>5 DEF USBPorts, GetUSBInfos, GetUSBInfosNI, GetUSBInfo,
     GetUSBInfoNI, GetUSBConfigs, GetUSBConfigsNI, GetUSBConfig, GetUSBConfigNI,
     SetUSBConfigsNI, SetUSBConfigNI, InfoList, InfoOne, GetList, List, One, Ready,
     SetUSBConfigs, SetUSBConfig
<1>9. QED BY <1>6, <1>7, <1>8 DEF Obeyers

\* How such a set starts.
SetStarts(p, w) == /\ Ready(p, op[p]) /\ Placed(p)'
                   /\ Fail(p) \/ \E ids : Transfer(p, ids, "read") /\ Fits(ids, reg[w])

LEMMA ListsFit ==
    ASSUME NEW n \in Nat, NEW w, 1..n \subseteq DOMAIN w, NEW ids, Once(ids),
           ~(\E i \in DOMAIN ids : ids[i] \notin 1..n)
    PROVE  Fits(ids, w)
BY DEF Fits

LEMMA SetsStart ==
    ASSUME NEW p, PortShaped(p), PortKnown(p), Fresh(p), op[p] \in Obeyers, op[p] \in PortCalls,
           PortAct(p) \/ SensorAct(p), Ready(p, op[p])
    PROVE  SetStarts(p, Word(op[p]))
<1> USE DEF PortShaped, Shaped
<1>1. lib[p] \in Statics /\ pc[p] = "args"
  BY DEF Ready
<1>2. task[p].ids \in Seq(Nat) /\ (op[p] \in OneDevice => task[p].ids[1] \in Nat)
  <2>1. task[p].ids \in Seq(Nat) /\ (op[p] \in OneDevice => Len(task[p].ids) = 1)
    BY <1>1 DEF Fresh, Before
  <2>2. QED BY <2>1
<1>3. Detected(lib[p]).com \in 0..2 /\ lib[p].mini \in {0, 3} /\ lib[p].usb \in {0, 2}
  BY <1>1, DetectedKept DEF Statics
<1>4. Placed(p) /\ Wide
  BY DEF PortKnown
<1>5. CASE op[p] = "SetCOMConfigs"
  <2> DEFINE n == CountOf(p, "com")  ids == InTurn(task[p].ids, n, n, next[p]["comset"])
  <2>1. n \in 0..2 /\ 1..n \subseteq DOMAIN reg.com
    BY <1>3, <1>4 DEF CountOf, Wide
  <2>2. SetCOMConfigs(p)
    BY <1>5, SetsAre
  <2>3. CursorsAside(p)
    BY <2>2 DEF SetCOMConfigs, List, CursorsAside, Turns
  <2>4. \/ Fail(p)
        \/ ~(\E i \in DOMAIN ids : ids[i] \notin 1..n) /\ Once(ids) /\ Transfer(p, ids, "read")
    BY <2>2 DEF SetCOMConfigs, List
  <2> HIDE DEF n, ids
  <2>5. n \in Nat
    BY <2>1
  <2>6. Fail(p) \/ (Transfer(p, ids, "read") /\ Fits(ids, reg.com))
    BY <2>1, <2>4, <2>5, ListsFit
  <2>7. QED BY <1>4, <1>5, <2>3, <2>6, CursorsPlaced, WordsOfPorts DEF SetStarts
<1>6. CASE op[p] = "SetminiPCIeConfigs"
  <2> DEFINE n == CountOf(p, "mini")  c == next[p]["miniset"]  ids == InTurn(task[p].ids, n, n, c)
             k == Moved(task[p].ids, n, n, c)
  <2>1. n \in {0, 3} /\ 1..n \subseteq DOMAIN reg.mini
    BY <1>3, <1>4 DEF CountOf, Wide
  <2>2. SetminiPCIeConfigs(p)
    BY <1>6, SetsAre
  <2>3. Turn(p, "miniset", k)
    BY <2>2 DEF SetminiPCIeConfigs, List
  <2>4. \/ Fail(p)
        \/ ~(\E i \in DOMAIN ids : ids[i] \notin 1..n) /\ Once(ids) /\ Transfer(p, ids, "read")
    BY <2>2 DEF SetminiPCIeConfigs, List
  <2>5. k \in 0..2
    <3>1. c \in 0..2
      BY <1>4 DEF Placed
    <3>2. n = 0 => k = c
      BY DEF Moved
    <3>3. n = 3 => k \in 0..n - 1
      <4> HIDE DEF c
      <4>1. QED BY <1>2, <3>1, Cursored
    <3> HIDE DEF n, k, c
    <3>4. QED BY <2>1, <3>1, <3>2, <3>3
  <2> HIDE DEF n, ids, k, c
  <2>6. n \in Nat
    BY <2>1
  <2>7. Fail(p) \/ (Transfer(p, ids, "read") /\ Fits(ids, reg.mini))
    BY <2>1, <2>4, <2>6, ListsFit
  <2>8. QED BY <1>4, <1>6, <2>3, <2>5, <2>7, CursorTurned, WordsOfPorts DEF SetStarts
<1>7. CASE op[p] = "SetUSBConfigs"
  <2> DEFINE n == CountOf(p, "usb")  c == next[p]["usbset"]  ids == InTurn(task[p].ids, n, n, c)
             k == Moved(task[p].ids, n, n, c)
  <2>1. n \in {0, 2} /\ 1..n \subseteq DOMAIN reg.usb
    BY <1>3, <1>4 DEF CountOf, Wide
  <2>2. SetUSBConfigs(p)
    BY <1>7, SetsAre
  <2>3. Turn(p, "usbset", k)
    BY <2>2 DEF SetUSBConfigs, List
  <2>4. \/ Fail(p)
        \/ ~(\E i \in DOMAIN ids : ids[i] \notin 1..n) /\ Once(ids) /\ Transfer(p, ids, "read")
    BY <2>2 DEF SetUSBConfigs, List
  <2>5. k \in 0..1
    <3>1. c \in 0..1
      BY <1>4 DEF Placed
    <3>2. n = 0 => k = c
      BY DEF Moved
    <3>3. n = 2 => k \in 0..n - 1
      <4> HIDE DEF c
      <4>1. QED BY <1>2, <3>1, Cursored
    <3> HIDE DEF n, k, c
    <3>4. QED BY <2>1, <3>1, <3>2, <3>3
  <2> HIDE DEF n, ids, k, c
  <2>6. n \in Nat
    BY <2>1
  <2>7. Fail(p) \/ (Transfer(p, ids, "read") /\ Fits(ids, reg.usb))
    BY <2>1, <2>4, <2>6, ListsFit
  <2>8. QED BY <1>4, <1>7, <2>3, <2>5, <2>7, CursorTurned, WordsOfPorts DEF SetStarts
<1>8. ASSUME NEW kind, NEW c, NEW n \in {0, 2, 3}, NEW w, 1..n \subseteq DOMAIN w, n = CountOf(p, kind),
             (c = "miniset" /\ n \in {0, 3}) \/ (c = "usbset" /\ n \in {0, 2}), op[p] \in OneDevice,
             One(p, op[p], kind, c, "read", TRUE)
      PROVE  Placed(p)' /\ (Fail(p) \/ \E ids : Transfer(p, ids, "read") /\ Fits(ids, w))
  <2> DEFINE id == task[p].ids[1]  x == next[p][c]
  <2>1. id \in Nat
    BY <1>2, <1>8
  <2>2. \/ Fail(p) /\ UNCHANGED next
        \/ /\ n # 0 /\ ~(id > n)
           /\ Transfer(p, <<OneOf(id, x)>>, "read") /\ Turn(p, c, MovedOne(id, n, x))
    BY <1>8 DEF One
  <2>3. CASE Fail(p) /\ UNCHANGED next
    BY <1>4, <2>3, CursorsPlaced DEF CursorsAside
  <2>4. CASE /\ n # 0 /\ ~(id > n)
             /\ Transfer(p, <<OneOf(id, x)>>, "read") /\ Turn(p, c, MovedOne(id, n, x))
    <3>1. n \in {2, 3} /\ x \in 0..n - 1
      BY <1>4, <1>8, <2>4 DEF Placed
    <3> HIDE DEF id, x
    <3>2. id \in 0..n
      BY <2>1, <2>4, <3>1
    <3>3. MovedOne(id, n, x) \in 0..n - 1 /\ OneOf(id, x) \in 1..n
      BY <2>1, <3>1, <3>2, Cursored, <<>> \in Seq(Nat)
    <3> DEFINE d == OneOf(id, x)  k == MovedOne(id, n, x)
    <3> HIDE DEF d, k
    <3>4. Fits(<<d>>, w)
      BY <1>8, <3>3 DEF Fits, Once, d
    <3>5. Placed(p)'
      <4>1. Turn(p, c, k) /\ k \in 0..n - 1
        BY <2>4, <3>3 DEF k
      <4>2. (c = "miniset" /\ k \in 0..2) \/ (c = "usbset" /\ k \in 0..1)
        BY <1>8, <3>1, <4>1
      <4>3. QED BY <1>4, <4>1, <4>2, CursorTurned
    <3>6. Transfer(p, <<d>>, "read")
      BY <2>4 DEF d
    <3>7. QED BY <3>4, <3>5, <3>6
  <2>5. QED BY <2>2, <2>3, <2>4
<1>9. CASE op[p] = "SetminiPCIeConfig"
  <2>1. One(p, op[p], "mini", "miniset", "read", TRUE)
    BY <1>9, SetsAre DEF SetminiPCIeConfig
  <2>2. CountOf(p, "mini") \in {0, 3} /\ op[p] \in OneDevice
    BY <1>3, <1>9 DEF CountOf, OneDevice
  <2>3. 1..CountOf(p, "mini") \subseteq DOMAIN reg.mini
    BY <1>4, <2>2 DEF Wide
  <2>4. QED BY <1>8, <1>9, <2>1, <2>2, <2>3, WordsOfPorts DEF SetStarts
<1>10. CASE op[p] = "SetUSBConfig"
  <2>1. One(p, op[p], "usb", "usbset", "read", TRUE)
    BY <1>10, SetsAre DEF SetUSBConfig
  <2>2. CountOf(p, "usb") \in {0, 2} /\ op[p] \in OneDevice
    BY <1>3, <1>10 DEF CountOf, OneDevice
  <2>3. 1..CountOf(p, "usb") \subseteq DOMAIN reg.usb
    BY <1>4, <2>2 DEF Wide
  <2>4. QED BY <1>8, <1>10, <2>1, <2>2, <2>3, WordsOfPorts DEF SetStarts
<1>11. QED BY <1>5, <1>6, <1>7, <1>9, <1>10 DEF Obeyers

\* The word a set puts together has its values for its devices.
LEMMA MergedSets ==
    ASSUME NEW o \in Obeyers, NEW w, NEW ids, NEW set, Fits(ids, w)
    PROVE  \A i \in DOMAIN ids : Merged(o, w, ids, set)[ids[i]] = set[i]
<1> SUFFICES ASSUME NEW i \in DOMAIN ids PROVE Merged(o, w, ids, set)[ids[i]] = set[i]
  OBVIOUS
<1>1. o # "SetLANConfig" /\ o # "SetPowerConfig"
  BY DEF Obeyers
<1>2. ids[i] \in DOMAIN w
  BY DEF Fits
<1> DEFINE d == ids[i]  j == CHOOSE k \in DOMAIN ids : ids[k] = d
<1>3. j \in DOMAIN ids /\ ids[j] = d
  OBVIOUS
<1>4. j = i
  BY <1>3 DEF Fits, Once
<1>5. Merged(o, w, ids, set)[d] = set[j]
  BY <1>1, <1>2 DEF Merged
<1>6. QED BY <1>4, <1>5

LEMMA Transfers ==
    ASSUME NEW p, PortShaped(p), NEW ids, NEW l, Transfer(p, ids, l)
    PROVE  /\ task'[p].ids = ids /\ task'[p].set = task[p].set /\ task'[p].buf = task[p].buf
           /\ task'[p].val = task[p].val /\ task'[p].at = 1
           /\ pc'[p] = l /\ op' = op /\ err'[p] = FALSE
<1> USE DEF PortShaped, Shaped
<1> DEFINE f == [task[p] EXCEPT !.ids = ids, !.at = 1]
<1>1. f.ids = ids /\ f.set = task[p].set /\ f.buf = task[p].buf /\ f.val = task[p].val /\ f.at = 1
  BY DEF NoTask
<1>2. task' = [task EXCEPT ![p] = f]
  BY DEF Transfer
<1> HIDE DEF f
<1>3. QED BY <1>1, <1>2 DEF Transfer, Continue, Goto, SetErr

LEMMA PortsStart ==
    ASSUME NEW p, PortShaped(p), PortKnown(p), op[p] \in Obeyers, SetStarts(p, Word(op[p]))
    PROVE  PortKnown(p)'
<1>1. reg' = reg /\ Wide' /\ Placed(p)'
  BY DEF SetStarts, Ready, PortKnown, Wide
<1>2. CASE Fail(p)
  BY <1>1, <1>2, Failed DEF PortKnown, Ended
<1>3. ASSUME NEW ids, Transfer(p, ids, "read"), Fits(ids, reg[Word(op[p])]) PROVE PortKnown(p)'
  <2>1. pc'[p] = "read" /\ op' = op /\ task'[p].ids = ids
    BY <1>3, Transfers
  <2>2. QED BY <1>1, <1>3, <2>1 DEF PortKnown, Ended
<1>4. QED BY <1>2, <1>3 DEF SetStarts

LEMMA PortsRead ==
    ASSUME NEW p, PortShaped(p), RegShaped, Sized(p), PortKnown(p), NEW ok \in BOOLEAN, ReadToSet(p, ok)
    PROVE  PortKnown(p)'
<1> USE DEF PortShaped, Shaped
<1> DEFINE o == op[p]  w == reg[Word(op[p])]  t == task[p]  new == Merged(o, w, t.ids, t.set)
<1>1. /\ pc[p] = "read" /\ reg' = reg /\ next' = next /\ o \in Setters
  BY DEF ReadToSet, KeepPorts, Sized
<1>2. Wide' /\ Placed(p)'
  BY <1>1, CursorsPlaced DEF PortKnown, Wide, CursorsAside
<1>3. CASE o \in Obeyers
  <2>1. Fits(t.ids, w)
    BY <1>1, <1>3 DEF PortKnown
  <2>2. \A i \in DOMAIN t.ids : new[t.ids[i]] = t.set[i]
    <3> HIDE DEF w, t
    <3>1. QED BY <1>3, <2>1, MergedSets
  <2>3. DOMAIN new = DOMAIN w
    <3>1. o # "SetLANConfig" /\ o # "SetPowerConfig"
      BY <1>3 DEF Obeyers
    <3> HIDE DEF w, t
    <3>2. QED BY <3>1, MergedBeside
  <2>4. \/ Fail(p)
        \/ new = w /\ Give(p, t.ids, <<>>)
        \/ Continue(p, "write") /\ task' = [task EXCEPT ![p].buf = new]
    BY <1>3 DEF ReadToSet, Skips, Obeyers
  <2> HIDE DEF new
  <2>5. CASE Fail(p)
    BY <1>2, <2>5, Failed DEF PortKnown, Ended
  <2>6. CASE new = w /\ Give(p, t.ids, <<>>)
    <3>1. pc'[p] = "idle" /\ op' = op /\ task'[p].ids = t.ids /\ task'[p].set = t.set
      BY <2>6, Gives
    <3>2. PortSaid(p)'
      BY <1>1, <2>2, <2>6, <3>1 DEF PortSaid
    <3>3. QED BY <1>2, <3>1, <3>2 DEF PortKnown
  <2>7. CASE Continue(p, "write") /\ task' = [task EXCEPT ![p].buf = new]
    <3>1. pc'[p] = "write" /\ op' = op /\ task'[p].ids = t.ids /\ task'[p].set = t.set /\ task'[p].buf = new
      BY <2>7 DEF Continue, Goto, NoTask
    <3>2. QED BY <1>1, <1>2, <2>1, <2>2, <2>3, <3>1 DEF PortKnown, Ended
  <2>8. QED BY <2>4, <2>5, <2>6, <2>7
<1>4. CASE o \notin Obeyers
  <2>1. op'[p] = op[p]
    BY ReadToSetCalm DEF Calm
  <2>2. CASE pc'[p] = "write" /\ o = "SetCOMConfig"
    <3>1. Continue(p, "write") /\ task' = [task EXCEPT ![p].buf = new]
      <4>1. Fail(p) \/ Give(p, t.ids, <<>>) \/ (Continue(p, "write") /\ task' = [task EXCEPT ![p].buf = new])
        BY DEF ReadToSet
      <4>2. QED BY <2>2, <4>1, Failed, Gives
    <3>2. DOMAIN new = DOMAIN w
      <4> HIDE DEF w, t
      <4>1. QED BY <2>2, MergedBeside
    <3> HIDE DEF new
    <3>3. task'[p].buf = new
      BY <3>1 DEF NoTask
    <3>4. QED BY <1>1, <1>2, <1>4, <2>1, <2>2, <3>2, <3>3 DEF PortKnown, Ended
  <2>3. CASE ~(pc'[p] = "write" /\ o = "SetCOMConfig")
    BY <1>1, <1>2, <1>4, <2>1, <2>3 DEF PortKnown, Ended
  <2>4. QED BY <2>2, <2>3
<1>5. QED BY <1>3, <1>4

LEMMA PortsWrite ==
    ASSUME NEW p, PortShaped(p), RegShaped, Sized(p), PortKnown(p), NEW ok \in BOOLEAN, WritePort(p, ok)
    PROVE  PortKnown(p)'
<1> USE DEF PortShaped, Shaped
<1> DEFINE o == op[p]  b == task[p].buf  x == Word(op[p])
<1>1. /\ pc[p] = "write" /\ next' = next /\ o \in Setters
      /\ reg' = IF ok THEN [reg EXCEPT ![x] = b] ELSE reg
      /\ IF ok \/ o = "SetCOMConfig" THEN Give(p, task[p].ids, <<>>) ELSE Fail(p)
  BY DEF WritePort, Sized
<1>2. x \in Words /\ x \in DOMAIN reg
  BY <1>1, WordOf DEF RegShaped
<1>3. Placed(p)'
  BY <1>1, CursorsPlaced DEF PortKnown, CursorsAside
<1>4. x \in Switchings => DOMAIN b = DOMAIN reg[x]
  BY <1>1, WordsOfPorts DEF PortKnown
<1>5. \A y \in Switchings : DOMAIN reg'[y] = DOMAIN reg[y]
  <2> HIDE DEF x, b
  <2>1. QED BY <1>1, <1>2, <1>4
<1>6. Wide'
  BY <1>5 DEF PortKnown, Wide, Switchings
<1>7. /\ pc'[p] = "idle" /\ op' = op
      /\ ret'[p] = "true" => task'[p].ids = task[p].ids /\ task'[p].set = task[p].set
      /\ ret'[p] = "true" /\ o # "SetCOMConfig" => ok
  BY <1>1, Gives, Failed
<1>8. Ended(p, Obeyers)' => PortSaid(p)'
  <2> SUFFICES ASSUME o \in Obeyers, ret'[p] = "true" PROVE PortSaid(p)'
    BY <1>7 DEF Ended
  <2>1. ok
    BY <1>7 DEF Obeyers
  <2>2. reg'[x] = b
    <3> HIDE DEF x, b
    <3>1. QED BY <1>1, <1>2, <2>1
  <2>3. \A i \in DOMAIN task[p].ids : b[task[p].ids[i]] = task[p].set[i]
    BY <1>1 DEF PortKnown
  <2>4. QED BY <1>7, <2>2, <2>3 DEF PortSaid
<1>9. QED BY <1>3, <1>6, <1>7, <1>8 DEF PortKnown

\* A register other than those the devices are switched with is written.
LEMMA OneField ==
  ASSUME Switchings \subseteq DOMAIN reg, NEW f, NEW STATE v, f \notin Switchings,
         reg' \in {reg, [reg EXCEPT ![f] = v]}
  PROVE  \A w \in Switchings : reg'[w] = reg[w]
OBVIOUS

LEMMA PortSteps ==
    ASSUME NEW p, PortShaped(p), RegShaped, Sized(p), OnWay(p), Fresh(p), PortKnown(p),
           PortAct(p) \/ SensorAct(p), ~Request(p)
    PROVE  PortKnown(p)'
<1>1. op'[p] = op[p]
  BY PortMoves DEF Calm
<1>2. Obeyers \cup {"SetCOMConfig"} \subseteq Setters /\ Obeyers \subseteq PortCalls
  BY DEF Obeyers, Setters, PortCalls, COMCalls, MiniCalls, MiniInfos, USBCalls, USBInfos
<1>3. Placed(p)
  BY DEF PortKnown
<1>11. Switchings \subseteq DOMAIN reg
  BY DEF RegShaped, Switchings, Words
<1>4. ASSUME \A w \in Switchings : reg'[w] = reg[w], CursorsAside(p), op[p] \notin Obeyers,
             op[p] = "SetCOMConfig" => pc'[p] # "write"
      PROVE  PortKnown(p)'
  BY <1>1, <1>3, <1>4, CursorsPlaced, PortsAside DEF PortAside, Ended
<1>5. ASSUME NEW ok \in BOOLEAN, ReadGains(p, ok) \/ ReadTypes(p, ok) PROVE PortKnown(p)'
  <2>1. reg' = reg /\ next' = next /\ (Fail(p) \/ Continue(p, "type") \/ Continue(p, "args"))
    BY <1>5 DEF ReadGains, ReadTypes, KeepPorts
  <2>2. pc'[p] \in {"idle", "type", "args"} /\ ~Ended(p, Obeyers)'
    BY <2>1, Failed DEF PortShaped, Shaped, Continue, Goto, Ended
  <2>3. Placed(p)'
    BY <1>3, <2>1, CursorsPlaced DEF CursorsAside
  <2>4. QED BY <2>1, <2>2, <2>3, PortsAside DEF PortAside
<1>6. CASE op[p] \notin PortCalls
  BY <1>5, <1>6, Strangers
<1>7. CASE op[p] \in PortCalls /\ Ready(p, op[p])
  <2>1. reg' = reg
    BY <1>7 DEF Ready
  <2>2. CASE op[p] \in Obeyers
    BY <1>7, <2>2, SetsStart, PortsStart
  <2>3. CASE op[p] \notin Obeyers
    <3>1. ~NextMonitor(p) /\ ~PortStep(p) /\ ~SensorStep(p)
      BY <1>7 DEF Ready, NextMonitor, PortStep, ReadPort, ReadToSet, WritePort, SensorStep, ReadWDT,
         RaiseWDT, WriteWDT, Each, ReadFanDeaf, ReadFanMode, ReadFanWord, WriteFanWord,
         WriteFanTemperatures, WriteFanDuty, SelectMonitor, ReadMonitor, ReadGains, ReadTypes
    <3>2. /\ \/ Power(p) \/ COMPorts(p) \/ MiniSlots(p) \/ USBPorts(p) \/ Watchdogs(p)
             \/ FanGets(p) \/ FanSets(p) \/ (MonitorCalls(p) /\ ~NextMonitor(p))
          /\ op[p] = "SetCOMConfig" => COMPorts(p)
      BY <3>1, Families DEF PowerCalls, Meters, MiniCalls, MiniInfos, USBCalls, USBInfos, DogAsks, DogGets,
         DogSets, FanCalls, FanInfos, NewForm, HWMonCalls
    <3>3. CursorsAside(p)
      BY <2>3, <3>2, OthersTurn DEF MiniUsbSets
    <3>4. op[p] = "SetCOMConfig" => pc'[p] # "write"
      <4> SUFFICES ASSUME op[p] = "SetCOMConfig" PROVE pc'[p] # "write"
        OBVIOUS
      <4>1. SetCOMConfig(p)
        BY <3>2 DEF COMPorts, GetCOMInfos, GetCOMInfosNI, GetCOMInfo, GetCOMInfoNI, GetCOMConfigs,
           GetCOMConfigsNI, GetCOMConfig, GetCOMConfigNI, SetCOMConfigsNI, SetCOMConfigs,
           SetCOMConfigNI, InfoList, InfoOne, List, One, Ready
      <4>2. Fail(p) \/ \E ids : Transfer(p, ids, "read")
        BY <4>1 DEF SetCOMConfig, One
      <4>3. CASE Fail(p)
        BY <4>3, Failed DEF Continue, Goto
      <4>4. CASE \E ids : Transfer(p, ids, "read")
        <5>1. PICK ids : Transfer(p, ids, "read")
          BY <4>4
        <5>2. pc'[p] = "read"
          BY <5>1 DEF Transfer, Continue, Goto, PortShaped, Shaped
        <5>3. QED BY <5>2
      <4>5. QED BY <4>2, <4>3, <4>4
    <3>5. QED BY <1>4, <2>1, <2>3, <3>3, <3>4
  <2>4. QED BY <2>2, <2>3
<1>8. ASSUME pc[p] \in {"get", "wget", "wfix", "wput", "each", "deaf", "fmode", "fcfg", "fwr", "ftrig", "fpwm",
                        "mon", "msel", "mread"},
             op[p] \in PortCalls, \A w \in Switchings : reg'[w] = reg[w], next' = next
      PROVE  PortKnown(p)'
  <2>1. pc[p] \in Way(op[p])
    BY <1>8 DEF OnWay, Before, Counting, Behind
  <2>2. op[p] \notin Setters
    BY <1>8, <2>1, Ways
  <2>3. QED BY <1>2, <1>4, <1>8, <2>2 DEF CursorsAside
<1>9. ASSUME op[p] \in PortCalls, NextMonitor(p) \/ PortStep(p) \/ SensorStep(p) PROVE PortKnown(p)'
  <2>1. KeepPorts => next' = next /\ \A w \in Switchings : reg'[w] = reg[w]
    BY DEF KeepPorts
  <2>2. CASE NextMonitor(p)
    BY <1>8, <1>9, <2>1, <2>2 DEF NextMonitor
  <2>3. ASSUME NEW ok \in BOOLEAN,
               \/ ReadPort(p, ok) \/ Each(p, ok) \/ ReadFanDeaf(p, ok) \/ ReadFanMode(p, ok)
               \/ ReadFanWord(p, ok)
        PROVE  PortKnown(p)'
    BY <1>8, <1>9, <2>1, <2>3 DEF ReadPort, Each, ReadFanDeaf, ReadFanMode, ReadFanWord
  <2>4. ASSUME NEW ok \in BOOLEAN, WriteFanTemperatures(p, ok) \/ ReadWDT(p, ok) \/ ReadMonitor(p, ok)
        PROVE  PortKnown(p)'
    BY <1>8, <1>9, <2>4 DEF WriteFanTemperatures, ReadWDT, ReadMonitor
  <2>5. ASSUME NEW ok \in BOOLEAN, RaiseWDT(p, ok) \/ WriteWDT(p, ok) PROVE PortKnown(p)'
    <3>1. \E f, v : f \notin Switchings /\ reg' \in {reg, [reg EXCEPT ![f] = v]}
      <4>1. Timer(op[p]) \notin Switchings
        BY DEF Timer, Switchings
      <4>2. CASE RaiseWDT(p, ok)
        <5>1. reg' \in {reg, [reg EXCEPT !["pwrup"] = MinWDT]}
          BY <4>2, Zenon DEF RaiseWDT
        <5>2. "pwrup" \notin Switchings
          BY DEF Switchings
        <5>3. QED BY <5>1, <5>2
      <4>3. CASE WriteWDT(p, ok)
        <5>1. \E v : reg' \in {reg, [reg EXCEPT ![Timer(op[p])] = v]}
          BY <4>3, Zenon DEF WriteWDT
        <5>2. QED BY <4>1, <5>1
      <4>4. QED BY <2>5, <4>2, <4>3
    <3>2. \A w \in Switchings : reg'[w] = reg[w]
      BY <1>11, <3>1, OneField
    <3>3. QED BY <1>8, <1>9, <2>5, <3>2 DEF RaiseWDT, WriteWDT
  <2>6. ASSUME NEW ok \in BOOLEAN, WriteFanWord(p, ok) \/ SelectMonitor(p, ok) PROVE PortKnown(p)'
    <3>1. \E f, v : f \notin Switchings /\ reg' \in {reg, [reg EXCEPT ![f] = v]}
      <4>1. "aiccfg" \notin Switchings /\ "monsel" \notin Switchings
        BY DEF Switchings
      <4>2. \E v : \/ reg' \in {reg, [reg EXCEPT !["aiccfg"] = v]}
                   \/ reg' \in {reg, [reg EXCEPT !["monsel"] = v]}
        BY <2>6, Zenon DEF WriteFanWord, SelectMonitor
      <4>3. QED BY <4>1, <4>2
    <3>2. \A w \in Switchings : reg'[w] = reg[w]
      BY <1>11, <3>1, OneField
    <3>3. QED BY <1>8, <1>9, <2>6, <3>2 DEF WriteFanWord, SelectMonitor
  <2>7. ASSUME NEW ok \in BOOLEAN, WriteFanDuty(p, ok) PROVE PortKnown(p)'
    <3>1. pc[p] = "fpwm" /\ next' = next
      BY <2>7 DEF WriteFanDuty
    <3>2. \A w \in Switchings : reg'[w] = reg[w]
      <4>1. \E v : reg' \in {reg, [reg EXCEPT !["pwm"] = v]}
        BY <2>7, Zenon DEF WriteFanDuty
      <4>2. "pwm" \notin Switchings
        BY DEF Switchings
      <4>3. QED BY <1>11, <4>1, <4>2, OneField
    <3>3. QED BY <1>8, <1>9, <3>1, <3>2
  <2>8. QED BY <1>5, <1>9, <2>2, <2>3, <2>4, <2>5, <2>6, <2>7, PortsRead, PortsWrite DEF PortStep, SensorStep
<1>10. QED BY <1>6, <1>7, <1>9, Families

PortsInv == FreshInv /\ (Alone => \A p \in Who[scene] : PortKnown(p))

LEMMA PortsInductive == PortsInv /\ [LibNext]_libVars => PortsInv'
<1> SUFFICES ASSUME PortsInv, [LibNext]_libVars PROVE PortsInv'
  OBVIOUS
<1>1. FreshInv'
  BY FreshInductive DEF PortsInv
<1>2. CASE LibNext
  <2>1. PICK p \in Who[scene] : Moves(p)
    BY <1>2, Mover DEF PortsInv, FreshInv, WayInv
  <2>2. scene' = scene /\ p \in Procs
    BY <2>1 DEF Moves
  <2>3. SUFFICES ASSUME Alone PROVE PortKnown(p)'
    <3>1. Alone' <=> Alone
      BY <2>2 DEF Alone
    <3>2. Alone => Who[scene] = {p}
      BY DEF Alone
    <3>3. QED BY <1>1, <2>2, <3>1, <3>2 DEF PortsInv
  <2>4. PortKnown(p) /\ OnWay(p) /\ LibInv /\ Fresh(p)
    BY <2>2, <2>3 DEF PortsInv, FreshInv, WayInv
  <2>5. CASE (PortAct(p) \/ SensorAct(p)) /\ ~Request(p)
    <3>1. PortShaped(p) /\ RegShaped /\ Sized(p)
      BY <2>2, <2>4, LibShapes DEF LibInv
    <3>2. QED BY <2>4, <2>5, <3>1, PortSteps
  <2>6. CASE ~((PortAct(p) \/ SensorAct(p)) /\ ~Request(p))
    <3>1. /\ pc'[p] \notin Works \ PoeWrites /\ ~Ended(p, PortCalls)'
          /\ reg' = reg /\ next' = next
      BY <2>1, <2>4, <2>6, Elsewhere DEF Moves
    <3>2. Obeyers \subseteq PortCalls /\ {"read", "write"} \subseteq Works \ PoeWrites
      BY DEF Obeyers, PortCalls, COMCalls, MiniCalls, MiniInfos, USBCalls, USBInfos, Works, PortWrites, PoeWrites
    <3>3. Placed(p)'
      BY <2>4, <3>1, CursorsPlaced DEF PortKnown, CursorsAside
    <3>4. QED BY <2>4, <3>1, <3>2, <3>3, PortsAside DEF PortAside, Ended
  <2>7. QED BY <2>5, <2>6
<1>3. CASE UNCHANGED libVars
  BY <1>1, <1>3 DEF PortsInv, libVars, Alone, PortKnown, Wide, Placed, Ended, PortSaid
<1>4. QED BY <1>2, <1>3

LEMMA PortsInitial == LibInit => PortsInv
<1> SUFFICES ASSUME LibInit PROVE \A p \in Procs : PortKnown(p)
  <2>1. LibInit => FreshInv /\ Who[scene] \in SUBSET Procs
    BY FreshInitial, CountsAssumption DEF FreshInv, WayInv, LibInv, CountsInv, Types
  <2>2. QED BY <2>1 DEF PortsInv
<1>1. scene \in Scenes /\ reg \in Registers[scene]
  BY DEF LibInit, PoeInit, PortsInit, CountsInit
<1>2. Wide
  BY <1>1, PortsAssumption DEF Wide
<1>3. \A p \in Procs : pc[p] = "idle" /\ ret[p] = "none" /\ Placed(p)
  <2>1. next = [p \in Procs |-> [c \in Turns |-> 0]]
    BY DEF LibInit, PortsInit
  <2>2. "miniset" \in Turns /\ "usbset" \in Turns
    BY DEF Turns
  <2>3. ASSUME NEW p \in Procs PROVE Placed(p)
    <3>1. p \in DOMAIN next /\ next[p] = [c \in Turns |-> 0]
      BY <2>1
    <3>2. QED BY <2>2, <3>1 DEF Placed
  <2>4. QED BY <2>3 DEF LibInit, PoeInit, CountsInit
<1>4. QED BY <1>2, <1>3 DEF PortKnown, Ended

\* A program alone with the AIC that was told its ports are set (EkDMCiSMBSetCOMConfigs,
\* EkDMCiSMBSetminiPCIeConfigs, EkDMCiSMBSetUSBConfigs and the calls for one device, DMCI.c)
\* has them set: every device named, in the order of the values, by ids or in turn.
THEOREM LibPortsObeyed == LibSpec => []PortsObey
<1>1. PortsInv => PortsObey
  <2> SUFFICES ASSUME PortsInv, Alone, NEW p \in Procs, Ended(p, Obeyers) PROVE PortSaid(p)
    BY DEF PortsObey, PortSaid, Obeyers
  <2>1. p \in Who[scene]
    BY DEF PortsInv, FreshInv, WayInv, Ended, Obeyers
  <2>2. QED BY <2>1 DEF PortsInv, PortKnown
<1>2. QED BY <1>1, PortsInductive, PortsInitial, PTL DEF LibSpec
-----------------------------------------------------------------------------
(* The fans that are set.                                                  *)

FanSteps == {"fcfg", "fwr", "ftrig", "fpwm"}

\* The fan d is as the entry s of a call o wants it.
FanObeys(o, d, s, modes, pwm) ==
    LET auto == IF s.auto = "keep" THEN modes[d] ELSE o \in NewForm /\ s.auto = "auto"
    IN /\ modes[d] = auto
       /\ pwm[d] = IF auto THEN "curve" ELSE s.pwm
FanSetSaid(p) ==
    \A i \in DOMAIN task[p].ids :
        FanObeys(op[p], task[p].ids[i], task[p].set[i], reg.aiccfg.auto, reg.pwm)

\* There is a register for each fan there may be, and the cursor of the sets is
\* at one.
FansWide == 1..2 \subseteq DOMAIN reg.pwm /\ 1..2 \subseteq DOMAIN reg.aiccfg.auto
FanPlaced(p) == p \in DOMAIN next /\ DOMAIN next[p] = Turns /\ next[p]["fanget"] \in 0..1

\* The fans a set works on: each once, and all with a mode or none.
Modal(o, ids, set) == \/ \A i \in DOMAIN ids : set[i].auto # "keep"
                      \/ o = "SetFanConfigsNI_1" /\ \A i \in DOMAIN ids : set[i].auto = "keep"
FanList(o, ids, set) == ids \in Seq(1..2) /\ ids # <<>> /\ Once(ids) /\ Modal(o, ids, set)

\* The word w has the modes of the set, and for the fans whose modes it keeps,
\* those of the word old.
HasModes(o, ids, set, w, old, sure) ==
    \A i \in DOMAIN ids :
        IF set[i].auto = "keep" THEN sure => w[ids[i]] = old[ids[i]]
        ELSE w[ids[i]] = (o \in NewForm /\ set[i].auto = "auto")

\* Unless a transfer failed the first n fans of the list have their duties.
Driven(ids, set, pwm, auto, n) ==
    \A i \in 1..n : pwm[ids[i]] = IF auto[ids[i]] THEN "curve" ELSE set[i].pwm

SetAsked(p) == pc[p] \in Before \ {"idle"} => FanSetFits(op[p], task[p].ids, task[p].set)
SetWorks(p) ==
    LET t == task[p]
    IN /\ pc[p] \in FanSteps =>
              FanList(op[p], t.ids, t.set) /\ t.at \in 1..Len(t.ids) /\ (pc[p] # "fpwm" => t.at = 1)
       /\ pc[p] \in FanSteps \ {"fcfg"} =>
              /\ 1..2 \subseteq DOMAIN t.buf.auto
              /\ HasModes(op[p], t.ids, t.set, t.buf.auto, reg.aiccfg.auto, ~err[p])
       /\ pc[p] \in {"ftrig", "fpwm"} /\ ~err[p] =>
              \A i \in DOMAIN t.ids : reg.aiccfg.auto[t.ids[i]] = t.buf.auto[t.ids[i]]
       /\ pc[p] = "fpwm" /\ ~err[p] => Driven(t.ids, t.set, reg.pwm, t.buf.auto, t.at - 1)

FanKnown(p) ==
    /\ FansWide /\ FanPlaced(p)
    /\ pc[p] = "write" /\ op[p] = "SetPowerConfig" => 1..2 \subseteq DOMAIN task[p].buf.auto
    /\ op[p] \in FanSetters => SetAsked(p) /\ SetWorks(p)
    /\ Ended(p, FanSetters) => FanSetSaid(p)

\* A step that sets no fan.
FanAside(p) == /\ reg'.pwm = reg.pwm /\ reg'.aiccfg = reg.aiccfg /\ FanPlaced(p)'
               /\ ~(pc'[p] = "write" /\ op'[p] = "SetPowerConfig")
               /\ op'[p] \in FanSetters => SetAsked(p)' /\ pc'[p] \notin FanSteps
               /\ ~Ended(p, FanSetters)'

LEMMA FansAside == ASSUME NEW p, FanKnown(p), FanAside(p) PROVE FanKnown(p)'
<1>1. FansWide'
  BY DEF FanKnown, FanAside, FansWide
<1>2. op'[p] \in FanSetters => SetWorks(p)'
  <2> SUFFICES ASSUME pc'[p] \notin FanSteps PROVE SetWorks(p)'
    BY DEF FanAside
  <2>1. pc'[p] # "fpwm" /\ pc'[p] # "ftrig"
    BY DEF FanSteps
  <2>2. QED BY <2>1, Zenon DEF SetWorks
<1>3. QED BY <1>1, <1>2 DEF FanKnown, FanAside

\* The call's arguments are those of its request until its transfers begin.
LEMMA AskedStep ==
    ASSUME FanSetsFit, FreshInv, NEW p, Moves(p), op[p] \in FanSetters => SetAsked(p)
    PROVE  op'[p] \in FanSetters => SetAsked(p)'
<1> USE DEF Moves
<1>1. PoeShaped(p) /\ PortShaped(p) /\ RegShaped /\ Sized(p) /\ CountsInv /\ Fresh(p) /\ OnWay(p)
  BY LibShapes DEF FreshInv, WayInv, LibInv
<1>2. FanSetters \subseteq PortCalls
  BY ManyCalls DEF PortCalls
<1>3. CASE AskCounts(p) /\ UNCHANGED portOwn
  <2>1. op'[p] \in PortCalls => op[p] = op'[p] /\ pc[p] \in Before \ {"idle"}
    BY <1>1, <1>3, WayCounts, CountsFrom
  <2>2. QED BY <1>2, <1>3, <2>1 DEF SetAsked, portOwn
<1>4. CASE PoeAct(p)
  BY <1>1, <1>2, <1>4, WayPoe
<1>5. CASE Request(p)
  <2>1. PICK r \in Requests[scene] :
          op'[p] = r.op /\ task'[p] = [NoTask EXCEPT !.ids = r.ids, !.set = r.set]
    BY <1>1, <1>5, RequestStarts, Zenon
  <2>2. scene \in Scenes
    BY <1>1 DEF CountsInv, Types
  <2>3. r.op \in FanSetters => FanSetFits(r.op, r.ids, r.set)
    BY <2>2 DEF FanSetsFit, FanSetters
  <2>4. task'[p].ids = r.ids /\ task'[p].set = r.set
    BY <2>1 DEF NoTask
  <2>5. QED BY <2>1, <2>3, <2>4 DEF SetAsked
<1>6. CASE (PortAct(p) \/ SensorAct(p)) /\ ~Request(p)
  <2>1. op'[p] = op[p]
    BY <1>1, <1>6, PortMoves DEF Calm
  <2>2. SUFFICES ASSUME op[p] \in FanSetters, pc'[p] \in Before \ {"idle"}
                 PROVE  FanSetFits(op[p], task'[p].ids, task'[p].set)
    BY <2>1 DEF SetAsked
  <2>3. pc'[p] \notin Way(op[p]) /\ op[p] \in PortCalls
    BY <1>2, <2>2, Ways DEF Before, Counting, Behind
  <2>4. pc[p] \in {"gain", "type"} /\ task' = task
    BY <1>1, <1>6, <2>2, <2>3, WayPorts
  <2>5. QED BY <1>1, <2>2, <2>4 DEF SetAsked, Before
<1>7. QED BY <1>3, <1>4, <1>5, <1>6

\* The fans a list names, or the next ones.
LEMMA FansTurned ==
    ASSUME NEW o, NEW ids \in Seq(Nat), NEW set, FanSetFits(o, ids, set), NEW c \in 0..1,
           \A i \in DOMAIN InTurn(ids, 2, 2, c) : InTurn(ids, 2, 2, c)[i] \in 1..2
    PROVE  FanList(o, InTurn(ids, 2, 2, c), set)
<1>1. CASE Names(ids, 2)
  <2>1. InTurn(ids, 2, 2, c) = ids
    BY <1>1 DEF InTurn
  <2>2. ids \in Seq(1..2)
    BY <2>1
  <2>3. Once(ids)
    BY <2>1, <2>2 DEF Once, FanSetFits
  <2>4. QED BY <2>1, <2>2, <2>3 DEF FanList, Modal, FanSetFits
<1>2. CASE ~Names(ids, 2)
  <2> DEFINE k == Room(ids, 2)  s == [i \in 1..k |-> 1 + ((c + i - 1) % 2)]
  <2>1. InTurn(ids, 2, 2, c) = s
    BY <1>2 DEF InTurn
  <2>2. k \in 1..2 /\ 1..k \subseteq DOMAIN ids
    <3>1. Len(ids) \in Nat \ {0} /\ DOMAIN ids = 1..Len(ids)
      BY DEF FanSetFits
    <3>2. k = IF Len(ids) < 2 THEN Len(ids) ELSE 2
      BY DEF Room
    <3> HIDE DEF k
    <3>3. QED BY <3>1, <3>2
  <2> HIDE DEF k
  <2>3. DOMAIN s = 1..k /\ \A i \in 1..k : s[i] = 1 + ((c + i - 1) % 2)
    OBVIOUS
  <2>4. \A i \in 1..k : s[i] \in 1..2
    <3>1. \A x \in Nat : 1 + (x % 2) \in 1..2
      OBVIOUS
    <3>2. \A i \in 1..k : c + i - 1 \in Nat
      BY <2>2
    <3> HIDE DEF s
    <3>3. QED BY <2>3, <3>1, <3>2
  <2>5. s \in [1..k -> 1..2]
    BY <2>4
  <2>6. s \in Seq(1..2) /\ s # <<>>
    BY <2>2, <2>5
  <2>7. Once(s)
    <3>1. c \in {0, 1} /\ k \in {1, 2}
      BY <2>2
    <3>2. k = 2 => s[1] # s[2]
      <4>1. 0 % 2 = 0 /\ 1 % 2 = 1 /\ 2 % 2 = 0
        OBVIOUS
      <4> SUFFICES ASSUME k = 2 PROVE s[1] # s[2]
        OBVIOUS
      <4>2. s[1] = 1 + (c % 2) /\ s[2] = 1 + ((c + 1) % 2)
        <5>1. 1 \in 1..k /\ 2 \in 1..k /\ c + 1 - 1 = c /\ c + 2 - 1 = c + 1
          OBVIOUS
        <5> HIDE DEF s
        <5>2. QED BY <2>3, <5>1
      <4> HIDE DEF s
      <4>3. QED BY <3>1, <4>1, <4>2
    <3>3. \/ DOMAIN s = {1}
          \/ DOMAIN s = {1, 2} /\ k = 2
      <4>1. 1..1 = {1} /\ 1..2 = {1, 2}
        OBVIOUS
      <4> HIDE DEF s
      <4>2. QED BY <2>3, <3>1, <4>1
    <3> HIDE DEF s
    <3>4. QED BY <3>2, <3>3 DEF Once
  <2>8. Modal(o, s, set)
    <3> HIDE DEF s
    <3>1. QED BY <2>2, <2>3 DEF Modal, FanSetFits
  <2>9. QED BY <2>1, <2>6, <2>7, <2>8 DEF FanList
<1>3. QED BY <1>1, <1>2

\* The one fan of a call on one, or the next.
LEMMA FanTurned ==
    ASSUME NEW o, NEW ids \in Seq(Nat), Len(ids) = 1, NEW set, FanSetFits(o, ids, set),
           NEW d \in 1..2
    PROVE  FanList(o, <<d>>, set)
<1>1. <<d>> \in Seq(1..2) /\ <<d>> # <<>> /\ DOMAIN <<d>> = {1} /\ DOMAIN ids = {1}
  OBVIOUS
<1>2. QED BY <1>1 DEF FanList, Once, Modal, FanSetFits

\* How a set of fans starts.
FanStarts(p) == /\ Ready(p, op[p]) /\ FanPlaced(p)'
                /\ \/ Fail(p)
                   \/ \E ids : Transfer(p, ids, "fcfg") /\ FanList(op[p], ids, task[p].set)

LEMMA FanSetsAre ==
    ASSUME NEW p, op[p] \in FanSetters, PortAct(p) \/ SensorAct(p), Ready(p, op[p])
    PROVE  \/ GetList(p, op[p], "fan", "fanget", "fcfg")
           \/ op[p] \in OneDevice /\ One(p, op[p], "fan", "fanget", "fcfg", TRUE)
<1>1. pc[p] = "args"
  BY DEF Ready
<1>2. ~Request(p) /\ ~NextMonitor(p)
  BY <1>1 DEF Request, Refuse, Enter, NextMonitor
<1>3. ~PortStep(p)
  BY <1>1 DEF PortStep, ReadPort, ReadToSet, WritePort
<1>4. ~SensorStep(p)
  BY <1>1 DEF SensorStep, ReadWDT, RaiseWDT, WriteWDT, Each, ReadFanDeaf,
       ReadFanMode, ReadFanWord, WriteFanWord, WriteFanTemperatures, WriteFanDuty, SelectMonitor,
       ReadMonitor, ReadGains, ReadTypes
<1>5. FanGets(p) \/ FanSets(p)
  <2>1. /\ op[p] \notin PowerCalls /\ op[p] \notin COMCalls /\ op[p] \notin MiniCalls
        /\ op[p] \notin USBCalls /\ op[p] \notin HWMonCalls /\ op[p] \notin DogAsks \cup DogSets
    BY ManyCalls
  <2>2. \/ Power(p) /\ op[p] \in PowerCalls
        \/ COMPorts(p) /\ op[p] \in COMCalls
        \/ MiniSlots(p) /\ op[p] \in MiniCalls
        \/ USBPorts(p) /\ op[p] \in USBCalls
        \/ Watchdogs(p) /\ op[p] \in DogAsks \cup DogSets
        \/ (FanGets(p) \/ FanSets(p)) /\ op[p] \in FanCalls
        \/ MonitorCalls(p) /\ ~NextMonitor(p) /\ op[p] \in HWMonCalls
    BY <1>2, <1>3, <1>4, Families
  <2>3. QED BY <2>1, <2>2
<1>6. ~FanGets(p)
  <2>1. /\ \A o, k, c : InfoList(p, o, k, c) \/ InfoOne(p, o, k, c) => op[p] = o
        /\ \A o, k, c, l : GetList(p, o, k, c, l) \/ One(p, o, k, c, l, TRUE) => op[p] = o
    BY DEF InfoList, InfoOne, GetList, List, One, Ready
  <2>2. GetFanConfig_1(p) => op[p] = "GetFanConfig_1"
    BY DEF GetFanConfig_1, Ready
  <2>3. FanGets(p) => op[p] \in {"GetFanInfos", "GetFanInfo", "GetFanConfigs", "GetFanConfigsNI", "GetFanConfig",
                                "GetFanConfigNI", "GetFanStats", "GetFanStat", "GetFanConfigs_1", "GetFanConfig_1"}
    BY <2>1, <2>2 DEF FanGets, GetFanInfos, GetFanInfosNI, GetFanInfo, GetFanInfoNI,
       GetFanConfigs, GetFanConfigsNI, GetFanConfig, GetFanConfigNI, GetFanStats, GetFanStatsNI,
       GetFanStat, GetFanStatNI, GetFanConfigs_1, GetFanConfigsNI_1, GetFanConfigNI_1
  <2>4. QED BY <2>3 DEF FanSetters, NewForm
<1>7. /\ \A o, k, c, l : GetList(p, o, k, c, l) \/ One(p, o, k, c, l, TRUE) => op[p] = o
      /\ "SetFanConfig" \in OneDevice /\ "SetFanConfig_1" \in OneDevice
  BY DEF GetList, List, One, Ready, OneDevice
<1>8. QED
  BY <1>5, <1>6, <1>7 DEF FanSets, SetFanConfigs, SetFanConfigsNI, SetFanConfig, SetFanConfigNI,
     SetFanConfigs_1, SetFanConfigsNI_1, SetFanConfig_1, SetFanConfigNI_1

\* The cursor of the fans after a call that moves it.
LEMMA FanCursorTurned ==
    ASSUME NEW p, FanPlaced(p), NEW k \in 0..1, Turn(p, "fanget", k)
    PROVE  FanPlaced(p)'
<1> DEFINE n == [next[p] EXCEPT !["fanget"] = k]
<1>1. DOMAIN n = Turns /\ n["fanget"] = k
  BY DEF FanPlaced, Turns
<1>2. p \in DOMAIN next' /\ next'[p] = n
  BY DEF Turn, FanPlaced
<1> HIDE DEF n
<1>3. QED BY <1>1, <1>2 DEF FanPlaced

LEMMA FanListMoves ==
    ASSUME NEW p, FanPlaced(p), task[p].ids \in Seq(Nat), lib[p].fan \in {0, 2}, NEW o, NEW l,
           \/ GetList(p, o, "fan", "fanget", l)
           \/ task[p].ids[1] \in Nat /\ One(p, o, "fan", "fanget", l, TRUE)
           \/ task[p].ids[1] \in Nat /\ GetFanConfig_1(p)
    PROVE  FanPlaced(p)'
<1> DEFINE n == lib[p].fan  ids == task[p].ids  c == next[p]["fanget"]
<1>1. c \in 0..1
  BY DEF FanPlaced
<1>2. CASE GetList(p, o, "fan", "fanget", l)
  <2>1. Turn(p, "fanget", Moved(ids, n, n, c))
    BY <1>2 DEF GetList, List, CountOf
  <2>2. n = 0 => Moved(ids, n, n, c) = c
    BY DEF Moved
  <2> HIDE DEF n, ids, c
  <2>3. n = 2 => Moved(ids, n, n, c) \in 0..n - 1
    BY <1>1, Cursored DEF ids, n
  <2>4. Moved(ids, n, n, c) \in 0..1
    BY <1>1, <2>2, <2>3 DEF n
  <2>5. QED BY <2>1, <2>4, FanCursorTurned
<1>3. CASE ids[1] \in Nat /\ (One(p, o, "fan", "fanget", l, TRUE) \/ GetFanConfig_1(p))
  <2>1. UNCHANGED next \/ (n # 0 /\ Turn(p, "fanget", MovedOne(ids[1], n, c)))
    BY <1>3 DEF One, GetFanConfig_1, CountOf
  <2> DEFINE i == ids[1]
  <2>2. i \in Nat
    BY <1>3
  <2> HIDE DEF n, c, i
  <2>3. n = 2 => MovedOne(i, n, c) \in 0..n - 1
    BY <1>1, <2>2, Cursored, <<>> \in Seq(Nat)
  <2>4. n # 0 => MovedOne(i, n, c) \in 0..1
    BY <2>3 DEF n
  <2>5. CASE UNCHANGED next
    BY <2>5 DEF FanPlaced
  <2>6. CASE n # 0 /\ Turn(p, "fanget", MovedOne(i, n, c))
    BY <2>4, <2>6, FanCursorTurned
  <2>7. QED BY <2>1, <2>5, <2>6 DEF i
<1>4. QED BY <1>2, <1>3

LEMMA FanSetStarts ==
    ASSUME NEW p, PortShaped(p), FanKnown(p), Fresh(p), op[p] \in FanSetters,
           PortAct(p) \/ SensorAct(p), Ready(p, op[p])
    PROVE  FanStarts(p)
<1> DEFINE n == lib[p].fan  t == task[p]  c == next[p]["fanget"]
<1>1. pc[p] = "args" /\ lib[p].fan \in {0, 2}
  <2>1. \A l \in Statics : l.fan \in {0, 2}
    BY DEF Statics
  <2>2. QED BY <2>1 DEF Ready, PortShaped, Shaped
<1>2. op[p] \in PortCalls
  BY ManyCalls DEF PortCalls
<1>3. t.ids \in Seq(Nat) /\ (op[p] \in OneDevice => Len(t.ids) = 1) /\ FanSetFits(op[p], t.ids, t.set)
  BY <1>1, <1>2 DEF Fresh, Before, FanKnown, SetAsked
<1>4. \/ GetList(p, op[p], "fan", "fanget", "fcfg")
      \/ op[p] \in OneDevice /\ One(p, op[p], "fan", "fanget", "fcfg", TRUE)
  BY FanSetsAre
<1>5. FanPlaced(p) /\ c \in 0..1
  BY DEF FanKnown, FanPlaced
<1>6. FanPlaced(p)'
  <2>1. op[p] \in OneDevice => task[p].ids[1] \in Nat
    BY <1>3
  <2>2. QED BY <1>1, <1>3, <1>4, <1>5, <2>1, FanListMoves
<1>7. CASE GetList(p, op[p], "fan", "fanget", "fcfg")
  <2> DEFINE ids == InTurn(t.ids, n, n, c)
  <2>1. \/ Fail(p)
        \/ n # 0 /\ ~(\E i \in DOMAIN ids : ids[i] \notin 1..n) /\ Transfer(p, ids, "fcfg")
    BY <1>7 DEF GetList, List, CountOf
  <2>2. CASE Fail(p)
    BY <1>6, <2>2 DEF FanStarts
  <2>3. CASE n # 0 /\ ~(\E i \in DOMAIN ids : ids[i] \notin 1..n) /\ Transfer(p, ids, "fcfg")
    <3>1. n = 2
      BY <1>1, <2>3
    <3>2. FanList(op[p], InTurn(t.ids, 2, 2, c), t.set)
      <4>1. \A i \in DOMAIN InTurn(t.ids, 2, 2, c) : InTurn(t.ids, 2, 2, c)[i] \in 1..2
        BY <2>3, <3>1
      <4> HIDE DEF t, c
      <4>2. QED BY <1>3, <1>5, <4>1, FansTurned
    <3>3. QED BY <1>6, <2>3, <3>1, <3>2 DEF FanStarts
  <2>4. QED BY <2>1, <2>2, <2>3
<1>8. CASE op[p] \in OneDevice /\ One(p, op[p], "fan", "fanget", "fcfg", TRUE)
  <2> DEFINE id == t.ids[1]  d == OneOf(id, c)
  <2>1. Fail(p) \/ (n # 0 /\ ~(id > n) /\ Transfer(p, <<d>>, "fcfg"))
    BY <1>8 DEF One, CountOf
  <2>2. CASE Fail(p)
    BY <1>6, <2>2 DEF FanStarts
  <2>3. CASE n # 0 /\ ~(id > n) /\ Transfer(p, <<d>>, "fcfg")
    <3>1. n = 2 /\ id \in Nat
      BY <1>1, <1>3, <1>8, <2>3
    <3>2. d \in 1..2
      <4> HIDE DEF n, id, c
      <4>1. id \in 0..2
        BY <2>3, <3>1
      <4>2. QED BY <1>5, <4>1 DEF OneOf
    <3> HIDE DEF d
    <3>3. FanList(op[p], <<d>>, t.set)
      <4> HIDE DEF t
      <4>1. QED BY <1>3, <1>8, <3>2, FanTurned
    <3>4. QED BY <1>6, <2>3, <3>3 DEF FanStarts
  <2>4. QED BY <2>1, <2>2, <2>3
<1>9. QED BY <1>4, <1>7, <1>8

\* A step that does not move the cursor of the fans.
OtherTurns == Turns \ {"fanget"}
FanCursorAside(p) == next' = next \/ \E c \in OtherTurns : \E k : Turn(p, c, k)

LEMMA FanCursorPlaced == ASSUME NEW p, FanPlaced(p), FanCursorAside(p) PROVE FanPlaced(p)'
<1>1. ASSUME NEW c \in OtherTurns, NEW k, Turn(p, c, k) PROVE FanPlaced(p)'
  <2> DEFINE n == [next[p] EXCEPT ![c] = k]
  <2>1. DOMAIN n = Turns /\ n["fanget"] = next[p]["fanget"]
    BY <1>1 DEF FanPlaced, Turns, OtherTurns
  <2>2. p \in DOMAIN next' /\ next'[p] = n
    BY <1>1 DEF Turn, FanPlaced
  <2> HIDE DEF n
  <2>3. QED BY <2>1, <2>2 DEF FanPlaced
<1>2. QED BY <1>1 DEF FanCursorAside, FanPlaced

LEMMA FanCursorElsewhere ==
    ASSUME NEW p, NEW o, NEW kind, NEW c \in OtherTurns, NEW l,
           \/ InfoList(p, o, kind, c) \/ InfoOne(p, o, kind, c)
           \/ One(p, o, kind, c, l, TRUE) \/ GetList(p, o, kind, c, l)
    PROVE  FanCursorAside(p)
BY DEF InfoList, InfoOne, One, GetList, List, FanCursorAside

LEMMA FansTurn ==
    ASSUME NEW p, FanPlaced(p), task[p].ids \in Seq(Nat), lib[p].fan \in {0, 2},
           op[p] \in OneDevice => task[p].ids[1] \in Nat,
           \/ Power(p) \/ COMPorts(p) \/ MiniSlots(p) \/ USBPorts(p) \/ Watchdogs(p)
           \/ FanGets(p) \/ FanSets(p) \/ (MonitorCalls(p) /\ ~NextMonitor(p))
    PROVE  FanPlaced(p)'
<1>1. \A o, l : Plain(p, o, l) => FanCursorAside(p)
  BY DEF Plain, FanCursorAside
<1>2. /\ "cominfo" \in OtherTurns /\ "comget" \in OtherTurns /\ "comset" \in OtherTurns
      /\ "miniinfo" \in OtherTurns /\ "miniget" \in OtherTurns /\ "miniset" \in OtherTurns
      /\ "ministat" \in OtherTurns /\ "usbinfo" \in OtherTurns /\ "usbget" \in OtherTurns
      /\ "usbset" \in OtherTurns /\ "faninfo" \in OtherTurns /\ "fanstat" \in OtherTurns
      /\ "moninfo" \in OtherTurns /\ "monstat" \in OtherTurns
  BY DEF OtherTurns, Turns
<1>3. Power(p) => FanCursorAside(p)
  BY <1>1 DEF Power, GetLANConfig, GetLANConfigNI, SetLANConfig, SetLANConfigNI,
     GetPowerConfig, GetPowerConfigNI, SetPowerConfig, SetPowerConfigNI, GetPower, GetTotalOnTimeMins,
     GetOnTimeSecs, GetPowerCounter, GetLastPowerStatus, GetBootCounter
<1>4. COMPorts(p) => FanCursorAside(p)
  <2>1. (GetCOMConfigs(p) => FanCursorAside(p)) /\ (SetCOMConfigs(p) => FanCursorAside(p))
        /\ (SetCOMConfig(p) => FanCursorAside(p))
    BY <1>2 DEF GetCOMConfigs, SetCOMConfigs, SetCOMConfig, List, One, FanCursorAside
  <2>2. QED
    BY <1>2, <2>1, FanCursorElsewhere DEF COMPorts, GetCOMInfos, GetCOMInfosNI, GetCOMInfo, GetCOMInfoNI,
       GetCOMConfigsNI, GetCOMConfig, GetCOMConfigNI, SetCOMConfigsNI, SetCOMConfigNI
<1>5. MiniSlots(p) => FanCursorAside(p)
  <2>1. SetminiPCIeConfigs(p) => FanCursorAside(p)
    BY <1>2 DEF SetminiPCIeConfigs, List, FanCursorAside
  <2>2. QED
    BY <1>2, <2>1, FanCursorElsewhere DEF MiniSlots, GetminiPCIeInfos, GetminiPCIeInfosNI,
       GetminiPCIeInfo, GetminiPCIeInfoNI, GetminiPCIeConfigs, GetminiPCIeConfigsNI,
       GetminiPCIeConfig, GetminiPCIeConfigNI, SetminiPCIeConfigsNI, SetminiPCIeConfig,
       SetminiPCIeConfigNI, GetminiPCIeStats, GetminiPCIeStatsNI, GetminiPCIeStat, GetminiPCIeStatNI
<1>6. USBPorts(p) => FanCursorAside(p)
  <2>1. SetUSBConfigs(p) => FanCursorAside(p)
    BY <1>2 DEF SetUSBConfigs, List, FanCursorAside
  <2>2. QED
    BY <1>2, <2>1, FanCursorElsewhere DEF USBPorts, GetUSBInfos, GetUSBInfosNI, GetUSBInfo,
       GetUSBInfoNI, GetUSBConfigs, GetUSBConfigsNI, GetUSBConfig, GetUSBConfigNI,
       SetUSBConfigsNI, SetUSBConfig, SetUSBConfigNI
<1>7. Watchdogs(p) => FanCursorAside(p)
  BY <1>1 DEF Watchdogs, GetPowerupWDTConfig, GetPowerupWDTConfigNI,
     SetPowerupWDTConfig, SetPowerupWDTConfigNI, GetRuntimeWDTConfig, GetRuntimeWDTConfigNI,
     SetRuntimeWDTConfig, SetRuntimeWDTConfigNI, GetRuntimeWDTStat, GetRuntimeWDTStatNI
<1>8. \A o, l : GetList(p, o, "fan", "fanget", l) => FanPlaced(p)'
  BY FanListMoves
<1>9. \A o, l : op[p] \in OneDevice /\ One(p, o, "fan", "fanget", l, TRUE) => FanPlaced(p)'
  BY FanListMoves
<1>10. FanGets(p) => FanPlaced(p)'
  <2>1. GetFanConfig_1(p) => FanPlaced(p)'
    <3>1. GetFanConfig_1(p) => op[p] \in OneDevice
      BY DEF GetFanConfig_1, Ready, OneDevice
    <3>2. QED BY <3>1, FanListMoves
  <2>2. /\ GetFanConfig(p) => op[p] \in OneDevice
        /\ GetFanConfigNI(p) => op[p] \in OneDevice
    BY DEF GetFanConfig, GetFanConfigNI, One, Ready, OneDevice
  <2>3. GetFanConfig(p) \/ GetFanConfigNI(p) => FanPlaced(p)'
    BY <1>9, <2>2 DEF GetFanConfig, GetFanConfigNI
  <2>4. (GetFanInfos(p) \/ GetFanInfosNI(p) \/ GetFanInfo(p) \/ GetFanInfoNI(p)
         \/ GetFanStats(p) \/ GetFanStatsNI(p) \/ GetFanStat(p) \/ GetFanStatNI(p)) => FanPlaced(p)'
    BY <1>2, FanCursorElsewhere, FanCursorPlaced DEF GetFanInfos, GetFanInfosNI, GetFanInfo, GetFanInfoNI,
       GetFanStats, GetFanStatsNI, GetFanStat, GetFanStatNI
  <2>5. QED
    BY <1>8, <2>1, <2>3, <2>4 DEF FanGets, GetFanConfigs, GetFanConfigsNI, GetFanConfigs_1,
       GetFanConfigsNI_1, GetFanConfigNI_1
<1>11. FanSets(p) => FanPlaced(p)'
  <2>1. SetFanConfig(p) \/ SetFanConfig_1(p) => op[p] \in OneDevice
    BY DEF SetFanConfig, SetFanConfig_1, One, Ready, OneDevice
  <2>2. SetFanConfig(p) \/ SetFanConfig_1(p) => FanPlaced(p)'
    BY <1>9, <2>1 DEF SetFanConfig, SetFanConfig_1
  <2>3. QED
    BY <1>8, <2>2 DEF FanSets, SetFanConfigs, SetFanConfigsNI, SetFanConfigNI,
       SetFanConfigs_1, SetFanConfigsNI_1, SetFanConfigNI_1
<1>12. MonitorCalls(p) /\ ~NextMonitor(p) => FanCursorAside(p)
  <2>1. (GetHWMonInfosA(p) => FanCursorAside(p)) /\ (GetHWMonInfoA(p) => FanCursorAside(p))
    BY <1>2 DEF GetHWMonInfosA, GetHWMonInfoA, FanCursorAside
  <2>2. QED
    BY <1>2, <2>1, FanCursorElsewhere DEF MonitorCalls, GetHWMonStats, GetHWMonStatsNI, GetHWMonStat,
       GetHWMonStatNI, GetHWMonInfosANI, GetHWMonInfosW, GetHWMonInfosWNI, GetHWMonInfoANI,
       GetHWMonInfoW, GetHWMonInfoWNI
<1>13. QED
  BY <1>3, <1>4, <1>5, <1>6, <1>7, <1>10, <1>11, <1>12, FanCursorPlaced

\* A word put together for a set has its modes.
LEMMA ModesHave ==
    ASSUME NEW p, NEW w, DOMAIN w = {"mode", "timer", "auto"}, 1..2 \subseteq DOMAIN w.auto,
           FanList(op[p], task[p].ids, task[p].set)
    PROVE  /\ 1..2 \subseteq DOMAIN Modes(p, w).auto
           /\ HasModes(op[p], task[p].ids, task[p].set, Modes(p, w).auto, w.auto, TRUE)
<1> DEFINE t == task[p]
           Listed(d) == {i \in DOMAIN t.ids : t.ids[i] = d /\ t.set[i].auto # "keep"}
           auto == [d \in DOMAIN w.auto |->
                       IF Listed(d) = {} THEN w.auto[d]
                       ELSE op[p] \in NewForm
                            /\ t.set[CHOOSE i \in Listed(d) : \A j \in Listed(d) : j <= i].auto = "auto"]
<1>1. Modes(p, w) = [w EXCEPT !.auto = auto]
  BY Zenon DEF Modes
<1>2. Modes(p, w).auto = auto
  <2> HIDE DEF auto
  <2>1. QED BY <1>1
<1>3. DOMAIN auto = DOMAIN w.auto
  OBVIOUS
<1>4. \A i \in DOMAIN t.ids : t.ids[i] \in DOMAIN w.auto
  BY DEF FanList
<1>5. ASSUME NEW i \in DOMAIN t.ids
      PROVE  IF t.set[i].auto = "keep" THEN auto[t.ids[i]] = w.auto[t.ids[i]]
             ELSE auto[t.ids[i]] = (op[p] \in NewForm /\ t.set[i].auto = "auto")
  <2> DEFINE d == t.ids[i]
  <2>1. d \in DOMAIN w.auto
    BY <1>4
  <2>2. \A j \in DOMAIN t.ids : t.ids[j] = d => j = i
    BY DEF FanList, Once
  <2>3. CASE t.set[i].auto = "keep"
    <3>1. Listed(d) = {}
      BY <2>2, <2>3
    <3>2. auto[d] = w.auto[d]
      BY <2>1, <3>1, Zenon
    <3>3. QED BY <2>3, <3>2
  <2>4. CASE t.set[i].auto # "keep"
    <3>1. Listed(d) = {i}
      BY <2>2, <2>4
    <3>2. i <= i
      BY DEF FanList
    <3> DEFINE c == CHOOSE k \in Listed(d) : \A j \in Listed(d) : j <= k
    <3>3. c \in Listed(d)
      <4> HIDE DEF Listed
      <4>1. \E k \in Listed(d) : \A j \in Listed(d) : j <= k
        BY <3>1, <3>2
      <4>2. QED BY <4>1
    <3>4. c = i
      BY <3>1, <3>3
    <3>5. auto[d] = (op[p] \in NewForm /\ t.set[c].auto = "auto")
      <4>1. Listed(d) # {}
        BY <3>1
      <4>2. QED BY <2>1, <4>1, Zenon
    <3> HIDE DEF c, auto
    <3>6. auto[d] = (op[p] \in NewForm /\ t.set[i].auto = "auto")
      BY <3>4, <3>5, Zenon
    <3>7. QED BY <2>4, <3>6
  <2>5. QED BY <2>3, <2>4
<1>6. HasModes(op[p], t.ids, t.set, auto, w.auto, TRUE)
  <2> HIDE DEF auto, t
  <2>1. QED BY <1>5, Zenon DEF HasModes
<1> HIDE DEF auto
<1>7. QED BY <1>2, <1>3, <1>6

\* The steps of a set of fans.
LEMMA SureEnough ==
    ASSUME NEW o, NEW ids, NEW set, NEW w, NEW old, HasModes(o, ids, set, w, old, TRUE)
    PROVE  /\ \A sure \in BOOLEAN : HasModes(o, ids, set, w, old, sure)
           /\ \A other : HasModes(o, ids, set, w, other, FALSE)
BY Zenon DEF HasModes

\* What a step of a set goes on with.
FanGoes(p, l, e) ==
    /\ pc'[p] = l /\ op'[p] = op[p] /\ err'[p] = e /\ next' = next
    /\ task'[p].ids = task[p].ids /\ task'[p].set = task[p].set

LEMMA FanWentOn ==
    ASSUME NEW p, FanKnown(p), op[p] \in FanSetters, NEW l \in FanSteps, NEW e \in BOOLEAN, FanGoes(p, l, e),
           FansWide', SetWorks(p)'
    PROVE  FanKnown(p)'
<1>1. FanPlaced(p)'
  BY DEF FanKnown, FanPlaced, FanGoes
<1>2. pc'[p] = l /\ l # "write" /\ l \notin Before /\ l # "idle"
  BY DEF FanGoes, FanSteps, Before, Counting, Behind
<1>3. SetAsked(p)' /\ ~Ended(p, FanSetters)' /\ pc'[p] # "write"
  BY <1>2 DEF SetAsked, Ended
<1>4. QED BY <1>1, <1>3 DEF FanKnown

LEMMA FanWordRead ==
    ASSUME NEW p, PortShaped(p), RegShaped, FanKnown(p), op[p] \in FanSetters, NEW ok \in BOOLEAN,
           ReadFanWord(p, ok)
    PROVE  FanKnown(p)'
<1> USE DEF PortShaped, Shaped
<1> DEFINE w == IF ok THEN reg.aiccfg ELSE Zeroed
           new == Modes(p, w)
           e == ~ok
           keep == task[p].set[1].auto = "keep"
           writes == /\ ok \/ op[p] \in {"SetFanConfigsNI", "SetFanConfigsNI_1"}
                     /\ task[p].set[1].auto # "keep"
           x == CASE writes -> "fwr"
                  [] ~writes /\ op[p] \in NewForm /\ task[p].set[1].auto # "keep" -> "ftrig"
                  [] OTHER -> "fpwm"
<1>1. /\ pc[p] = "fcfg" /\ UNCHANGED <<reg, next>>
      /\ SetErr(p, e) /\ Continue(p, x) /\ task' = [task EXCEPT ![p].buf = new]
  BY Zenon DEF ReadFanWord, KeepPorts
<1>2. /\ x \in {"fwr", "ftrig", "fpwm"}
      /\ x # "fwr" /\ ok => keep
  <2>1. writes \in BOOLEAN /\ keep \in BOOLEAN
    BY Zenon
  <2>2. ok /\ ~writes => keep
    OBVIOUS
  <2> HIDE DEF writes, keep
  <2>3. QED BY <2>1, <2>2
<1>3. e \in BOOLEAN /\ (e <=> ~ok)
  BY Zenon
<1>4. DOMAIN w = {"mode", "timer", "auto"} /\ 1..2 \subseteq DOMAIN w.auto /\ (ok => w = reg.aiccfg)
  BY DEF RegShaped, Zeroed, FanKnown, FansWide
<1>5. FanList(op[p], task[p].ids, task[p].set) /\ task[p].at = 1 /\ task[p].at \in 1..Len(task[p].ids)
  BY <1>1 DEF FanKnown, SetWorks, FanSteps
<1>6. /\ 1..2 \subseteq DOMAIN new.auto
      /\ HasModes(op[p], task[p].ids, task[p].set, new.auto, w.auto, TRUE)
  <2> HIDE DEF w
  <2>1. QED BY <1>4, <1>5, ModesHave
<1>7. keep => \A i \in DOMAIN task[p].ids : task[p].set[i].auto = "keep"
  <2>1. 1 \in DOMAIN task[p].ids
    BY <1>5 DEF FanList
  <2>2. QED BY <1>5, <2>1 DEF FanList, Modal
<1>8. HasModes(op[p], task[p].ids, task[p].set, new.auto, reg.aiccfg.auto, ~e)
  <2> HIDE DEF w, new, e
  <2>1. CASE ok
    BY <1>3, <1>4, <1>6, <2>1, SureEnough
  <2>2. CASE ~ok
    <3>1. HasModes(op[p], task[p].ids, task[p].set, new.auto, reg.aiccfg.auto, FALSE)
      BY <1>6, SureEnough
    <3>2. (~e) = FALSE
      BY <1>3, <2>2
    <3>3. QED BY <3>1, <3>2
  <2>3. QED BY <2>1, <2>2
<1>9. x # "fwr" /\ ~e => \A i \in DOMAIN task[p].ids : reg.aiccfg.auto[task[p].ids[i]] = new.auto[task[p].ids[i]]
  <2> SUFFICES ASSUME x # "fwr", ~e
               PROVE  \A i \in DOMAIN task[p].ids : new.auto[task[p].ids[i]] = reg.aiccfg.auto[task[p].ids[i]]
    OBVIOUS
  <2> HIDE DEF w, new, e, keep, x
  <2>1. ok /\ w = reg.aiccfg /\ keep
    BY <1>2, <1>3, <1>4
  <2>2. \A i \in DOMAIN task[p].ids : task[p].set[i].auto = "keep"
    BY <1>7, <2>1
  <2>3. \A i \in DOMAIN task[p].ids : new.auto[task[p].ids[i]] = w.auto[task[p].ids[i]]
    BY <1>6, <2>2 DEF HasModes
  <2>4. QED BY <2>1, <2>3
<1> HIDE DEF w, new, e, keep, writes, x
<1>10. /\ task'[p].buf = new /\ task'[p].ids = task[p].ids /\ task'[p].set = task[p].set
       /\ task'[p].at = task[p].at
  BY <1>1 DEF NoTask
<1>11. FanGoes(p, x, e) /\ x \in FanSteps
  BY <1>1, <1>2, <1>10 DEF FanGoes, Continue, Goto, SetErr, FanSteps
<1>12. SetWorks(p)'
  <2>1. pc'[p] = x /\ op'[p] = op[p] /\ reg' = reg /\ err'[p] = e
    BY <1>1, <1>11 DEF FanGoes
  <2>2. Driven(task[p].ids, task[p].set, reg.pwm, new.auto, task[p].at - 1)
    BY <1>5 DEF Driven
  <2>3. QED BY <1>2, <1>3, <1>5, <1>6, <1>8, <1>9, <1>10, <2>1, <2>2 DEF SetWorks
<1>13. FansWide'
  BY <1>1 DEF FanKnown, FansWide
<1>14. QED BY <1>3, <1>11, <1>12, <1>13, FanWentOn

LEMMA FanWordWritten ==
    ASSUME NEW p, PortShaped(p), RegShaped, FanKnown(p), op[p] \in FanSetters, NEW ok \in BOOLEAN,
           WriteFanWord(p, ok) \/ WriteFanTemperatures(p, ok)
    PROVE  FanKnown(p)'
<1> USE DEF PortShaped, Shaped
<1> DEFINE e == err[p] \/ ~ok
           b == task[p].buf
<1>1. e \in BOOLEAN /\ (~e => ~err[p] /\ ok)
  BY Zenon
<1>2. PICK x \in {"ftrig", "fpwm"} : SetErr(p, e) /\ Continue(p, x)
  BY Zenon DEF WriteFanWord, WriteFanTemperatures
<1>3. /\ next' = next /\ task' = task
      /\ \/ pc[p] = "fwr" /\ reg' = IF ok THEN [reg EXCEPT !.aiccfg = b] ELSE reg
         \/ pc[p] = "ftrig" /\ reg' = reg
  BY DEF WriteFanWord, WriteFanTemperatures
<1>4. FanList(op[p], task[p].ids, task[p].set) /\ task[p].at = 1 /\ task[p].at \in 1..Len(task[p].ids)
  BY <1>3 DEF FanKnown, SetWorks, FanSteps
<1>5. /\ 1..2 \subseteq DOMAIN b.auto
      /\ HasModes(op[p], task[p].ids, task[p].set, b.auto, reg.aiccfg.auto, ~err[p])
  BY <1>3 DEF FanKnown, SetWorks, FanSteps
<1>6. /\ reg'.aiccfg \in {reg.aiccfg, b} /\ reg'.pwm = reg.pwm
      /\ ~e => \A i \in DOMAIN task[p].ids : reg'.aiccfg.auto[task[p].ids[i]] = b.auto[task[p].ids[i]]
  <2>1. {"aiccfg", "pwm"} \subseteq DOMAIN reg
    BY DEF RegShaped, Words
  <2>2. CASE pc[p] = "fwr"
    <3> HIDE DEF b
    <3>1. reg'.aiccfg = (IF ok THEN b ELSE reg.aiccfg) /\ reg'.pwm = reg.pwm
      BY <1>3, <2>1, <2>2
    <3>2. QED BY <1>1, <3>1
  <2>3. CASE pc[p] = "ftrig"
    <3>1. ~e => \A i \in DOMAIN task[p].ids : reg.aiccfg.auto[task[p].ids[i]] = b.auto[task[p].ids[i]]
      BY <1>1, <2>3 DEF FanKnown, SetWorks
    <3>2. reg' = reg
      BY <1>3, <2>3
    <3> HIDE DEF b, e
    <3>3. QED BY <3>1, <3>2
  <2>4. QED BY <1>3, <2>2, <2>3
<1>7. HasModes(op[p], task[p].ids, task[p].set, b.auto, reg'.aiccfg.auto, ~e)
  <2> SUFFICES ASSUME NEW i \in DOMAIN task[p].ids
               PROVE  IF task[p].set[i].auto = "keep" THEN ~e => b.auto[task[p].ids[i]] = reg'.aiccfg.auto[task[p].ids[i]]
                      ELSE b.auto[task[p].ids[i]] = (op[p] \in NewForm /\ task[p].set[i].auto = "auto")
    BY Zenon DEF HasModes
  <2>1. task[p].set[i].auto # "keep" => b.auto[task[p].ids[i]] = (op[p] \in NewForm /\ task[p].set[i].auto = "auto")
    BY <1>5, Zenon DEF HasModes
  <2> HIDE DEF b, e
  <2>2. ~e => b.auto[task[p].ids[i]] = reg'.aiccfg.auto[task[p].ids[i]]
    BY <1>6
  <2>3. QED BY <2>1, <2>2, Zenon
<1> HIDE DEF e, b
<1>8. FanGoes(p, x, e) /\ x \in FanSteps
  BY <1>2, <1>3 DEF FanGoes, Continue, Goto, SetErr, FanSteps
<1>9. SetWorks(p)'
  <2>1. pc'[p] = x /\ op'[p] = op[p] /\ task'[p] = task[p] /\ err'[p] = e /\ task'[p].buf = b
    BY <1>3, <1>8 DEF FanGoes, b
  <2>2. Driven(task[p].ids, task[p].set, reg'.pwm, b.auto, task[p].at - 1)
    BY <1>4 DEF Driven
  <2>3. QED BY <1>2, <1>4, <1>5, <1>6, <1>7, <2>1, <2>2 DEF SetWorks
<1>10. FansWide'
  BY <1>5, <1>6 DEF FanKnown, FansWide
<1>11. QED BY <1>1, <1>8, <1>9, <1>10, FanWentOn

\* A fan more is driven.
LEMMA DrivenMore ==
    ASSUME NEW ids \in Seq(1..2), Once(ids), NEW set, NEW pwm, 1..2 \subseteq DOMAIN pwm, NEW auto,
           NEW n \in 1..Len(ids), Driven(ids, set, pwm, auto, n - 1), NEW duty,
           duty = IF auto[ids[n]] THEN "curve" ELSE set[n].pwm
    PROVE  Driven(ids, set, [pwm EXCEPT ![ids[n]] = duty], auto, n)
<1> SUFFICES ASSUME NEW i \in 1..n
             PROVE  [pwm EXCEPT ![ids[n]] = duty][ids[i]] = IF auto[ids[i]] THEN "curve" ELSE set[i].pwm
  BY DEF Driven
<1>1. DOMAIN ids = 1..Len(ids) /\ n \in DOMAIN ids /\ i \in DOMAIN ids
  OBVIOUS
<1>2. ids[n] \in DOMAIN pwm /\ ids[i] \in DOMAIN pwm
  BY <1>1
<1>3. CASE i = n
  BY <1>2, <1>3
<1>4. CASE i # n
  <2>1. ids[i] # ids[n]
    BY <1>1, <1>4 DEF Once
  <2>2. i \in 1..n - 1
    BY <1>4
  <2>3. pwm[ids[i]] = IF auto[ids[i]] THEN "curve" ELSE set[i].pwm
    BY <2>2 DEF Driven
  <2>4. QED BY <1>2, <2>1, <2>3
<1>5. QED BY <1>3, <1>4

\* With all fans driven the set has been obeyed.
LEMMA AllDriven ==
    ASSUME NEW o, NEW ids \in Seq(1..2), NEW set, NEW w, NEW old, NEW pwm,
           HasModes(o, ids, set, w, old, TRUE), \A i \in DOMAIN ids : old[ids[i]] = w[ids[i]],
           Driven(ids, set, pwm, w, Len(ids)), NEW i \in DOMAIN ids
    PROVE  FanObeys(o, ids[i], set[i], old, pwm)
<1> DEFINE d == ids[i]  s == set[i]  b == o \in NewForm /\ s.auto = "auto"
<1>1. old[d] = w[d]
  OBVIOUS
<1>2. i \in 1..Len(ids)
  OBVIOUS
<1>3. pwm[d] = IF w[d] THEN "curve" ELSE s.pwm
  BY <1>2 DEF Driven
<1>4. s.auto # "keep" => w[d] = b
  BY Zenon DEF HasModes
<1> HIDE DEF d, b
<1>5. CASE s.auto = "keep"
  BY <1>1, <1>3, <1>5 DEF d, FanObeys
<1>6. CASE s.auto # "keep"
  <2>1. old[d] = b /\ pwm[d] = IF b THEN "curve" ELSE s.pwm
    BY <1>1, <1>3, <1>4, <1>6
  <2>2. QED BY <1>6, <2>1 DEF d, b, FanObeys
<1>7. QED BY <1>5, <1>6

LEMMA FanDriven ==
    ASSUME NEW p, PortShaped(p), RegShaped, FanKnown(p), op[p] \in FanSetters, NEW ok \in BOOLEAN,
           WriteFanDuty(p, ok)
    PROVE  FanKnown(p)'
<1> USE DEF PortShaped, Shaped
<1> DEFINE t == task[p]
           i == t.ids[t.at]
           curve == IF op[p] = "SetFanConfigsNI_1" THEN t.buf.auto[i]
                    ELSE op[p] \in NewForm /\ t.set[t.at].auto = "auto"
           duty == IF curve THEN "curve" ELSE t.set[t.at].pwm
           e == err[p] \/ ~ok
<1>1. e \in BOOLEAN /\ (~e => ~err[p] /\ ok)
  BY Zenon
<1>2. /\ pc[p] = "fpwm" /\ next' = next
      /\ reg' = IF ok THEN [reg EXCEPT !.pwm[i] = duty] ELSE reg
      /\ \/ ~AtLast(p) /\ Step(p, "fpwm") /\ SetErr(p, e)
         \/ Fail(p)
         \/ AtLast(p) /\ ~e /\ Give(p, t.ids, <<>>)
  BY Zenon DEF WriteFanDuty
<1>3. /\ FanList(op[p], t.ids, t.set) /\ t.at \in 1..Len(t.ids)
      /\ 1..2 \subseteq DOMAIN t.buf.auto
      /\ HasModes(op[p], t.ids, t.set, t.buf.auto, reg.aiccfg.auto, ~err[p])
      /\ ~err[p] => /\ \A j \in DOMAIN t.ids : reg.aiccfg.auto[t.ids[j]] = t.buf.auto[t.ids[j]]
                    /\ Driven(t.ids, t.set, reg.pwm, t.buf.auto, t.at - 1)
  BY <1>2 DEF FanKnown, SetWorks, FanSteps
<1>4. t.at \in DOMAIN t.ids /\ i \in 1..2 /\ t.ids \in Seq(1..2) /\ Len(t.ids) \in Nat /\ t.at \in Nat
  BY <1>3 DEF FanList
<1>5. duty = IF t.buf.auto[i] THEN "curve" ELSE t.set[t.at].pwm
  <2> DEFINE b == op[p] \in NewForm /\ t.set[t.at].auto = "auto"
  <2>1. CASE op[p] = "SetFanConfigsNI_1"
    BY <2>1
  <2>2. CASE op[p] # "SetFanConfigsNI_1"
    <3>1. t.set[t.at].auto # "keep"
      BY <1>3, <1>4, <2>2 DEF FanList, Modal
    <3>2. t.buf.auto[i] = b
      BY <1>3, <1>4, <3>1, Zenon DEF HasModes
    <3>3. duty = IF b THEN "curve" ELSE t.set[t.at].pwm
      BY <2>2
    <3> HIDE DEF b, duty
    <3>4. QED BY <3>2, <3>3
  <2>3. QED BY <2>1, <2>2
<1> HIDE DEF curve, duty, e
<1>6. /\ reg'.aiccfg = reg.aiccfg /\ reg'.pwm = (IF ok THEN [reg.pwm EXCEPT ![i] = duty] ELSE reg.pwm)
      /\ DOMAIN reg'.pwm = DOMAIN reg.pwm
  <2>1. {"aiccfg", "pwm"} \subseteq DOMAIN reg
    BY DEF RegShaped, Words
  <2> HIDE DEF i
  <2>2. QED BY <1>2, <2>1
<1>7. FansWide' /\ FanPlaced(p)'
  BY <1>2, <1>6 DEF FanKnown, FansWide, FanPlaced
<1>8. ~e => Driven(t.ids, t.set, reg'.pwm, t.buf.auto, t.at)
  <2> SUFFICES ASSUME ~e PROVE Driven(t.ids, t.set, reg'.pwm, t.buf.auto, t.at)
    OBVIOUS
  <2>1. ok /\ Driven(t.ids, t.set, reg.pwm, t.buf.auto, t.at - 1) /\ Once(t.ids) /\ 1..2 \subseteq DOMAIN reg.pwm
    BY <1>1, <1>3 DEF FanList, FanKnown, FansWide
  <2>2. Driven(t.ids, t.set, [reg.pwm EXCEPT ![t.ids[t.at]] = duty], t.buf.auto, t.at)
    <3> HIDE DEF t
    <3>1. t.ids \in Seq(1..2) /\ t.at \in 1..Len(t.ids) /\ duty = IF t.buf.auto[t.ids[t.at]] THEN "curve" ELSE t.set[t.at].pwm
      BY <1>3, <1>4, <1>5
    <3>2. QED BY <2>1, <3>1, DrivenMore
  <2>3. QED BY <1>6, <2>1, <2>2
<1>9. CASE ~AtLast(p) /\ Step(p, "fpwm") /\ SetErr(p, e)
  <2>1. /\ task'[p].ids = t.ids /\ task'[p].set = t.set /\ task'[p].buf = t.buf /\ task'[p].at = t.at + 1
        /\ pc'[p] = "fpwm" /\ op'[p] = op[p] /\ err'[p] = e
    BY <1>9 DEF Step, Continue, Goto, SetErr, NoTask
  <2>2. t.at + 1 \in 1..Len(t.ids) /\ t.at + 1 - 1 = t.at
    BY <1>3, <1>4, <1>9 DEF AtLast
  <2>3. HasModes(op[p], t.ids, t.set, t.buf.auto, reg'.aiccfg.auto, ~e)
    <3>1. CASE e
      <4>1. HasModes(op[p], t.ids, t.set, t.buf.auto, reg'.aiccfg.auto, FALSE)
        BY <1>3, Zenon DEF HasModes
      <4>2. (~e) = FALSE
        BY <3>1
      <4>3. QED BY <4>1, <4>2
    <3>2. CASE ~e
      <4>1. (~e) = TRUE /\ (~err[p]) = TRUE
        BY <1>1, <3>2
      <4>2. QED BY <1>3, <1>6, <4>1
    <3>3. QED BY <3>1, <3>2
  <2>4. SetWorks(p)'
    <3> HIDE DEF t, i
    <3>1. pc'[p] = "fpwm" /\ ~err'[p] => ~e /\ ~err[p]
      BY <1>1, <2>1
    <3>2. QED BY <1>3, <1>6, <1>8, <2>1, <2>2, <2>3, <3>1 DEF SetWorks
  <2>5. FanGoes(p, "fpwm", e) /\ "fpwm" \in FanSteps
    BY <1>2, <2>1 DEF FanGoes, FanSteps
  <2>6. QED BY <1>1, <1>7, <2>4, <2>5, FanWentOn
<1>10. CASE Fail(p)
  <2>1. pc'[p] = "idle" /\ ret'[p] = "false"
    BY <1>10, Failed
  <2>2. SetWorks(p)' /\ SetAsked(p)' /\ ~Ended(p, FanSetters)' /\ pc'[p] # "write"
    BY <2>1, Zenon DEF SetWorks, SetAsked, FanSteps, Ended
  <2>3. QED BY <1>7, <2>2 DEF FanKnown
<1>11. CASE AtLast(p) /\ ~e /\ Give(p, t.ids, <<>>)
  <2>1. pc'[p] = "idle" /\ op' = op /\ task'[p].ids = t.ids /\ task'[p].set = t.set
    BY <1>11, Gives
  <2>2. SetWorks(p)' /\ SetAsked(p)' /\ pc'[p] # "write"
    BY <2>1, Zenon DEF SetWorks, SetAsked, FanSteps
  <2>3. Driven(t.ids, t.set, reg'.pwm, t.buf.auto, Len(t.ids))
    BY <1>8, <1>11 DEF AtLast
  <2>4. /\ HasModes(op[p], t.ids, t.set, t.buf.auto, reg'.aiccfg.auto, TRUE)
        /\ \A j \in DOMAIN t.ids : reg'.aiccfg.auto[t.ids[j]] = t.buf.auto[t.ids[j]]
    <3>1. ~err[p] /\ (~err[p]) = TRUE
      BY <1>1, <1>11
    <3>2. HasModes(op[p], t.ids, t.set, t.buf.auto, reg.aiccfg.auto, TRUE)
      BY <1>3, <3>1
    <3>3. \A j \in DOMAIN t.ids : reg.aiccfg.auto[t.ids[j]] = t.buf.auto[t.ids[j]]
      BY <1>3, <3>1
    <3> HIDE DEF t, i
    <3>4. reg'.aiccfg = reg.aiccfg
      BY <1>6
    <3>5. HasModes(op[p], t.ids, t.set, t.buf.auto, reg'.aiccfg.auto, TRUE)
      BY <3>2, <3>4
    <3>6. \A j \in DOMAIN t.ids : reg'.aiccfg.auto[t.ids[j]] = t.buf.auto[t.ids[j]]
      BY <3>3, <3>4
    <3>7. QED BY <3>5, <3>6 DEF t
  <2>5. FanSetSaid(p)'
    <3> DEFINE ids == t.ids  set == t.set  w == t.buf.auto  old == reg'.aiccfg.auto  pwm == reg'.pwm
    <3> SUFFICES ASSUME NEW j \in DOMAIN ids PROVE FanObeys(op[p], ids[j], set[j], old, pwm)
      BY <2>1 DEF FanSetSaid
    <3>1. /\ ids \in Seq(1..2) /\ HasModes(op[p], ids, set, w, old, TRUE)
          /\ \A x \in DOMAIN ids : old[ids[x]] = w[ids[x]]
          /\ Driven(ids, set, pwm, w, Len(ids))
      BY <1>4, <2>3, <2>4
    <3> HIDE DEF ids, set, w, old, pwm
    <3>2. QED BY <3>1, AllDriven
  <2>6. QED BY <1>7, <2>2, <2>5 DEF FanKnown
<1>12. QED BY <1>2, <1>9, <1>10, <1>11

\* A step on the words of the ports keeps the modes of the fans.
LEMMA FanWordPut ==
    ASSUME NEW p, PortShaped(p), RegShaped, Sized(p), FanKnown(p), op[p] \notin FanSetters,
           NEW ok \in BOOLEAN, ReadToSet(p, ok) \/ WritePort(p, ok)
    PROVE  FanKnown(p)'
<1> USE DEF PortShaped, Shaped
<1>1. next' = next /\ FanPlaced(p)' /\ op[p] \in Setters
  BY DEF ReadToSet, WritePort, KeepPorts, FanKnown, FanPlaced, Sized
<1>2. CASE ReadToSet(p, ok)
  <2>1. op'[p] = op[p] /\ reg' = reg
    BY <1>2, ReadToSetCalm DEF Calm
  <2>2. pc'[p] = "write" /\ op[p] = "SetPowerConfig" => 1..2 \subseteq DOMAIN task'[p].buf.auto
    <3> SUFFICES ASSUME pc'[p] = "write", op[p] = "SetPowerConfig" PROVE 1..2 \subseteq DOMAIN task'[p].buf.auto
      OBVIOUS
    <3>1. Meant(p)'
      BY <1>2, ReadToSetCalm
    <3>2. task'[p].buf.auto = reg.aiccfg.auto
      BY <2>1, <3>1 DEF Meant, Beside, Word, COMCalls, MiniCalls, MiniInfos, USBCalls, USBInfos
    <3>3. QED BY <3>2 DEF FanKnown, FansWide
  <2>3. ~Ended(p, FanSetters)'
    BY <2>1 DEF Ended
  <2>4. QED BY <1>1, <2>1, <2>2, <2>3 DEF FanKnown, FansWide
<1>3. CASE WritePort(p, ok)
  <2> DEFINE b == task[p].buf  x == Word(op[p])
  <2>1. /\ pc[p] = "write" /\ reg' = IF ok THEN [reg EXCEPT ![x] = b] ELSE reg
        /\ Fail(p) \/ Give(p, task[p].ids, <<>>)
    BY <1>3 DEF WritePort
  <2>2. pc'[p] = "idle" /\ op' = op
    BY <2>1, Gives, Failed
  <2>3. x \in Words /\ (x = "aiccfg" => op[p] = "SetPowerConfig")
    BY <1>1, WordOf
  <2>4. reg'.pwm = reg.pwm /\ 1..2 \subseteq DOMAIN reg'.aiccfg.auto
    <3>1. {"aiccfg", "pwm"} \subseteq DOMAIN reg /\ x # "pwm"
      BY <2>3 DEF RegShaped, Words
    <3>2. x = "aiccfg" => 1..2 \subseteq DOMAIN b.auto
      BY <2>1, <2>3 DEF FanKnown
    <3>3. 1..2 \subseteq DOMAIN reg.aiccfg.auto
      BY DEF FanKnown, FansWide
    <3> HIDE DEF b, x
    <3>4. reg'.pwm = reg.pwm /\ reg'.aiccfg \in {reg.aiccfg, b} /\ (x # "aiccfg" => reg'.aiccfg = reg.aiccfg)
      BY <2>1, <3>1
    <3>5. QED BY <3>2, <3>3, <3>4
  <2>5. ~Ended(p, FanSetters)' /\ pc'[p] # "write"
    BY <2>2 DEF Ended
  <2>6. QED BY <1>1, <2>2, <2>4, <2>5 DEF FanKnown, FansWide
<1>4. QED BY <1>2, <1>3

LEMMA FanStarted ==
    ASSUME NEW p, PortShaped(p), FanKnown(p), op[p] \in FanSetters, FanStarts(p)
    PROVE  FanKnown(p)'
<1>1. reg' = reg /\ FansWide' /\ FanPlaced(p)'
  BY DEF FanStarts, Ready, FanKnown, FansWide
<1>2. CASE Fail(p)
  <2>1. pc'[p] = "idle" /\ ret'[p] = "false"
    BY <1>2, Failed
  <2>2. SetWorks(p)' /\ SetAsked(p)' /\ ~Ended(p, FanSetters)' /\ pc'[p] # "write"
    BY <2>1, Zenon DEF SetWorks, SetAsked, FanSteps, Ended
  <2>3. QED BY <1>1, <2>2 DEF FanKnown
<1>3. ASSUME NEW ids, Transfer(p, ids, "fcfg"), FanList(op[p], ids, task[p].set) PROVE FanKnown(p)'
  <2>1. pc'[p] = "fcfg" /\ op' = op /\ task'[p].ids = ids /\ task'[p].set = task[p].set /\ task'[p].at = 1
    BY <1>3, Transfers
  <2>2. 1 \in 1..Len(ids)
    BY <1>3 DEF FanList
  <2>3. SetWorks(p)'
    BY <1>3, <2>1, <2>2 DEF SetWorks, FanSteps
  <2>4. SetAsked(p)' /\ ~Ended(p, FanSetters)'
    BY <2>1 DEF SetAsked, Before, Counting, Behind, Ended
  <2>5. QED BY <1>1, <2>1, <2>3, <2>4 DEF FanKnown
<1>4. QED BY <1>2, <1>3 DEF FanStarts

\* The modes of the fans are written by calls about fans and the power only.
LEMMA ModesKept ==
    ASSUME NEW p, PortShaped(p), RegShaped, Sized(p), ~Request(p), PortAct(p) \/ SensorAct(p)
    PROVE  reg'.aiccfg = reg.aiccfg \/ pc[p] \in {"write", "fwr"}
<1>1. pc[p] \notin {"write", "fwr"} => WordsKept
  BY PortMoves DEF PortWrites
<1>2. QED BY <1>1 DEF WordsKept, Words

LEMMA FanSetSteps ==
    ASSUME NEW p, PortShaped(p), RegShaped, Sized(p), OnWay(p), Fresh(p), FanKnown(p),
           op'[p] \in FanSetters => SetAsked(p)', PortAct(p) \/ SensorAct(p), ~Request(p)
    PROVE  FanKnown(p)'
<1>1. op'[p] = op[p]
  BY PortMoves DEF Calm
<1>2. FanSetters \subseteq PortCalls /\ "SetPowerConfig" \in Setters
      /\ \A o \in FanSetters : o \notin Setters
  BY ManyCalls DEF PortCalls, Setters
<1>3. FanPlaced(p)
  BY DEF FanKnown
<1>4. KeepPorts => reg' = reg /\ next' = next
  BY DEF KeepPorts
<1>5. next' = next => FanPlaced(p)'
  BY <1>3 DEF FanPlaced
<1>6. reg'.pwm = reg.pwm \/ pc[p] = "fpwm"
  BY PwmKept
<1>7. reg'.aiccfg = reg.aiccfg \/ pc[p] \in {"write", "fwr"}
  BY ModesKept
<1>8. ASSUME NEW ok \in BOOLEAN, ReadGains(p, ok) \/ ReadTypes(p, ok) PROVE FanKnown(p)'
  <2>1. /\ next' = next /\ reg' = reg
        /\ Fail(p) \/ Continue(p, "type") \/ Continue(p, "args")
    BY <1>4, <1>8 DEF ReadGains, ReadTypes
  <2>2. pc'[p] \in {"idle", "type", "args"} /\ ~Ended(p, FanSetters)'
    BY <2>1, Failed DEF PortShaped, Shaped, Continue, Goto, Ended
  <2>3. pc'[p] \notin FanSteps /\ pc'[p] # "write"
    BY <2>2 DEF FanSteps
  <2>4. QED BY <1>5, <2>1, <2>2, <2>3, FansAside DEF FanAside
<1>9. CASE op[p] \notin PortCalls
  BY <1>8, <1>9, Strangers
<1>10. CASE op[p] \in PortCalls /\ Ready(p, op[p])
  <2>1. reg' = reg
    BY <1>10 DEF Ready
  <2>2. CASE op[p] \in FanSetters
    BY <1>10, <2>2, FanSetStarts, FanStarted
  <2>3. CASE op[p] \notin FanSetters
    <3>1. ~NextMonitor(p) /\ ~PortStep(p) /\ ~SensorStep(p)
      BY <1>10 DEF Ready, NextMonitor, PortStep, ReadPort, ReadToSet, WritePort, SensorStep, ReadWDT,
         RaiseWDT, WriteWDT, Each, ReadFanDeaf, ReadFanMode, ReadFanWord, WriteFanWord,
         WriteFanTemperatures, WriteFanDuty, SelectMonitor, ReadMonitor, ReadGains, ReadTypes
    <3>2. \/ Power(p) /\ op[p] \in PowerCalls
          \/ COMPorts(p) /\ op[p] \in COMCalls
          \/ MiniSlots(p) /\ op[p] \in MiniCalls
          \/ USBPorts(p) /\ op[p] \in USBCalls
          \/ Watchdogs(p) /\ op[p] \in DogAsks \cup DogSets
          \/ (FanGets(p) \/ FanSets(p)) /\ op[p] \in FanCalls
          \/ MonitorCalls(p) /\ ~NextMonitor(p) /\ op[p] \in HWMonCalls
      BY <3>1, Families
    <3>3. FanPlaced(p)'
      <4>1. pc[p] = "args" /\ lib[p].fan \in {0, 2}
        <5>1. \A l \in Statics : l.fan \in {0, 2}
          BY DEF Statics
        <5>2. QED BY <1>10, <5>1 DEF Ready, PortShaped, Shaped
      <4>2. task[p].ids \in Seq(Nat) /\ (op[p] \in OneDevice => Len(task[p].ids) = 1)
        BY <1>10, <4>1 DEF Fresh, Before
      <4>3. op[p] \in OneDevice => task[p].ids[1] \in Nat
        BY <4>2
      <4>4. \/ Power(p) \/ COMPorts(p) \/ MiniSlots(p) \/ USBPorts(p) \/ Watchdogs(p)
            \/ FanGets(p) \/ FanSets(p) \/ (MonitorCalls(p) /\ ~NextMonitor(p))
        BY <3>2
      <4>5. QED BY <1>3, <4>1, <4>2, <4>3, <4>4, FansTurn
    <3>4. op[p] = "SetPowerConfig" => pc'[p] # "write"
      <4> SUFFICES ASSUME op[p] = "SetPowerConfig" PROVE pc'[p] # "write"
        OBVIOUS
      <4>1. Power(p)
        BY <3>2 DEF COMCalls, MiniCalls, MiniInfos, USBCalls, USBInfos, DogAsks, DogGets, DogSets,
           FanCalls, FanInfos, HWMonCalls
      <4>2. Plain(p, "SetPowerConfig", "read")
        BY <4>1 DEF Power, GetLANConfig, GetLANConfigNI, SetLANConfig, SetLANConfigNI,
           GetPowerConfig, GetPowerConfigNI, SetPowerConfig, SetPowerConfigNI, GetPower, GetTotalOnTimeMins,
           GetOnTimeSecs, GetPowerCounter, GetLastPowerStatus, GetBootCounter, Plain, Ready
      <4>3. pc'[p] = "read"
        BY <4>2, Transfers DEF Plain
      <4>4. QED BY <4>3
    <3>5. ~Ended(p, FanSetters)'
      BY <1>1, <2>3 DEF Ended
    <3>6. QED BY <1>1, <2>1, <2>3, <3>3, <3>4, <3>5, FansAside DEF FanAside
  <2>4. QED BY <2>2, <2>3
<1>11. ASSUME pc[p] \in {"get", "wget", "wfix", "wput", "each", "deaf", "fmode", "mon", "msel", "mread"},
              op[p] \in PortCalls, next' = next
       PROVE  FanKnown(p)'
  <2>1. pc[p] \in Way(op[p])
    BY <1>11 DEF OnWay, Before, Counting, Behind
  <2>2. op[p] \notin Setters /\ op[p] \notin FanSetters
    BY <1>11, <2>1, Ways
  <2>3. reg'.pwm = reg.pwm /\ reg'.aiccfg = reg.aiccfg
    BY <1>6, <1>7, <1>11
  <2>4. ~Ended(p, FanSetters)'
    BY <1>1, <2>2 DEF Ended
  <2>5. QED BY <1>1, <1>2, <1>5, <1>11, <2>2, <2>3, <2>4, FansAside DEF FanAside
<1>12. ASSUME pc[p] \in FanSteps, op[p] \in PortCalls PROVE op[p] \in FanSetters
  <2>1. pc[p] \in Way(op[p])
    BY <1>12 DEF OnWay, Before, Counting, Behind, FanSteps
  <2>2. QED BY <1>12, <2>1, Ways DEF FanSteps
<1>13. ASSUME op[p] \in PortCalls, NextMonitor(p) \/ PortStep(p) \/ SensorStep(p) PROVE FanKnown(p)'
  <2>1. CASE NextMonitor(p)
    BY <1>4, <1>11, <1>13, <2>1 DEF NextMonitor
  <2>2. ASSUME NEW ok \in BOOLEAN,
               \/ ReadPort(p, ok) \/ Each(p, ok) \/ ReadFanDeaf(p, ok) \/ ReadFanMode(p, ok)
        PROVE  FanKnown(p)'
    BY <1>4, <1>11, <1>13, <2>2 DEF ReadPort, Each, ReadFanDeaf, ReadFanMode
  <2>3. ASSUME NEW ok \in BOOLEAN, ReadToSet(p, ok) \/ WritePort(p, ok) PROVE FanKnown(p)'
    <3>1. pc[p] \in {"read", "write"}
      BY <2>3 DEF ReadToSet, WritePort
    <3>2. op[p] \notin FanSetters
      BY <1>2, <3>1 DEF Sized
    <3>3. QED BY <2>3, <3>2, FanWordPut
  <2>4. ASSUME NEW ok \in BOOLEAN, ReadWDT(p, ok) \/ ReadMonitor(p, ok) \/ SelectMonitor(p, ok)
        PROVE  FanKnown(p)'
    BY <1>11, <1>13, <2>4 DEF ReadWDT, ReadMonitor, SelectMonitor
  <2>5. ASSUME NEW ok \in BOOLEAN, RaiseWDT(p, ok) \/ WriteWDT(p, ok) PROVE FanKnown(p)'
    BY <1>11, <1>13, <2>5 DEF RaiseWDT, WriteWDT
  <2>6. ASSUME NEW ok \in BOOLEAN,
               \/ ReadFanWord(p, ok) \/ WriteFanWord(p, ok) \/ WriteFanTemperatures(p, ok)
               \/ WriteFanDuty(p, ok)
        PROVE  FanKnown(p)'
    <3>1. pc[p] \in FanSteps
      BY <2>6 DEF ReadFanWord, WriteFanWord, WriteFanTemperatures, WriteFanDuty, FanSteps
    <3>2. op[p] \in FanSetters
      BY <1>12, <1>13, <3>1
    <3>3. QED BY <2>6, <3>2, FanWordRead, FanWordWritten, FanDriven
  <2>7. QED BY <1>8, <1>13, <2>1, <2>2, <2>3, <2>4, <2>5, <2>6 DEF PortStep, SensorStep
<1>14. QED BY <1>9, <1>10, <1>13, Families

FansSetInv == FreshInv /\ (Alone => \A p \in Who[scene] : FanKnown(p))

LEMMA FansSetInductive ==
    ASSUME FanSetsFit PROVE FansSetInv /\ [LibNext]_libVars => FansSetInv'
<1> SUFFICES ASSUME FansSetInv, [LibNext]_libVars PROVE FansSetInv'
  OBVIOUS
<1>1. FreshInv'
  BY FreshInductive DEF FansSetInv
<1>2. CASE LibNext
  <2>1. PICK p \in Who[scene] : Moves(p)
    BY <1>2, Mover DEF FansSetInv, FreshInv, WayInv
  <2>2. scene' = scene /\ p \in Procs
    BY <2>1 DEF Moves
  <2>3. SUFFICES ASSUME Alone PROVE FanKnown(p)'
    <3>1. Alone' <=> Alone
      BY <2>2 DEF Alone
    <3>2. Alone => Who[scene] = {p}
      BY DEF Alone
    <3>3. QED BY <1>1, <2>2, <3>1, <3>2 DEF FansSetInv
  <2>4. FanKnown(p) /\ OnWay(p) /\ LibInv /\ Fresh(p)
    BY <2>2, <2>3 DEF FansSetInv, FreshInv, WayInv
  <2>5. op'[p] \in FanSetters => SetAsked(p)'
    BY <2>1, <2>4, AskedStep DEF FansSetInv, FanKnown
  <2>6. CASE (PortAct(p) \/ SensorAct(p)) /\ ~Request(p)
    <3>1. PortShaped(p) /\ RegShaped /\ Sized(p)
      BY <2>2, <2>4, LibShapes DEF LibInv
    <3>2. QED BY <2>4, <2>5, <2>6, <3>1, FanSetSteps
  <2>7. CASE ~((PortAct(p) \/ SensorAct(p)) /\ ~Request(p))
    <3>1. /\ pc'[p] \notin Works \ PoeWrites /\ ~Ended(p, PortCalls)'
          /\ reg' = reg /\ next' = next
      BY <2>1, <2>4, <2>7, Elsewhere DEF Moves
    <3>2. FanSetters \subseteq PortCalls /\ FanSteps \subseteq Works \ PoeWrites /\ "write" \in Works \ PoeWrites
      BY ManyCalls DEF PortCalls, FanSteps, Works, PortWrites, PoeWrites
    <3>3. FanPlaced(p)'
      BY <2>4, <3>1 DEF FanKnown, FanPlaced
    <3>4. ~Ended(p, FanSetters)' /\ pc'[p] \notin FanSteps /\ pc'[p] # "write"
      BY <3>1, <3>2 DEF Ended
    <3>5. QED BY <2>4, <2>5, <3>1, <3>3, <3>4, FansAside DEF FanAside
  <2>8. QED BY <2>6, <2>7
<1>3. CASE UNCHANGED libVars
  <2>1. \A p : FanKnown(p) => FanKnown(p)'
    BY <1>3 DEF libVars, FanKnown, FansWide, FanPlaced, Ended, FanSetSaid, SetAsked, SetWorks
  <2>2. QED BY <1>1, <1>3, <2>1 DEF FansSetInv, libVars, Alone
<1>4. QED BY <1>2, <1>3

LEMMA FansSetInitial == LibInit => FansSetInv
<1> SUFFICES ASSUME LibInit PROVE \A p \in Procs : FanKnown(p)
  <2>1. LibInit => FreshInv /\ Who[scene] \in SUBSET Procs
    BY FreshInitial, CountsAssumption DEF FreshInv, WayInv, LibInv, CountsInv, Types
  <2>2. QED BY <2>1 DEF FansSetInv
<1>1. scene \in Scenes /\ reg \in Registers[scene]
  BY DEF LibInit, PoeInit, PortsInit, CountsInit
<1>2. FansWide
  BY <1>1, PortsAssumption DEF FansWide
<1>3. \A p \in Procs : pc[p] = "idle" /\ ret[p] = "none" /\ FanPlaced(p)
  <2>1. next = [p \in Procs |-> [c \in Turns |-> 0]]
    BY DEF LibInit, PortsInit
  <2>2. "fanget" \in Turns
    BY DEF Turns
  <2>3. ASSUME NEW p \in Procs PROVE FanPlaced(p)
    <3>1. p \in DOMAIN next /\ next[p] = [c \in Turns |-> 0]
      BY <2>1
    <3>2. QED BY <2>2, <3>1 DEF FanPlaced
  <2>4. QED BY <2>3 DEF LibInit, PoeInit, CountsInit
<1>4. \A p \in Procs : SetAsked(p) /\ SetWorks(p)
  BY <1>3 DEF SetAsked, SetWorks, FanSteps
<1>5. QED BY <1>2, <1>3, <1>4 DEF FanKnown, Ended

\* A program alone with the AIC that was told its fans are set (EkDMCiSMBSetFanConfigs and
\* its other forms, DMCI.c) has them set, the mode and the duty of every fan of the list,
\* although up to four transfers of the call may fail by themselves.
THEOREM LibFansObeyed == FanSetsFit => (LibSpec => []FansObey)
<1>1. ASSUME FanSetsFit PROVE LibSpec => []FansObey
  <2>1. FansSetInv => FansObey
    <3> SUFFICES ASSUME FansSetInv, Alone, NEW p \in Procs, Ended(p, FanSetters) PROVE FanSetSaid(p)
      BY Zenon DEF FansObey, FanSetSaid, FanObeys, FanSetters
    <3>1. p \in Who[scene]
      BY DEF FansSetInv, FreshInv, WayInv, Ended, FanSetters, NewForm
    <3>2. QED BY <3>1 DEF FansSetInv, FanKnown
  <2>2. FansSetInv /\ [LibNext]_libVars => FansSetInv'
    BY <1>1, FansSetInductive
  <2>3. QED BY <2>1, <2>2, FansSetInitial, PTL DEF LibSpec
<1>2. QED BY <1>1
=============================================================================
