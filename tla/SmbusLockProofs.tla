--------------------------- MODULE SmbusLockProofs ---------------------------
(***************************************************************************)
(* Proofs about SmbusLock, for any number of programs, any poll limits and *)
(* any number of killed programs.                                          *)
(***************************************************************************)
EXTENDS SmbusRefinement, TLAPS

\* The loop counters are below their limits wherever a loop goes on, and only
\* a register dump is ever at "peek".
Counters ==
    \A p \in Procs :
        /\ pc[p] \in Polling => tries[p] < PreTries
        /\ pc[p] = "proc" => tries[p] < ProcTries
        /\ pc[p] = "peek" => MayPeek

TypeInv == TypeOK /\ Counters

\* The INUSE bit as a lock.
Lock ==
    ~torn => /\ \A p \in Procs : Holding(p) => "inuse" \in sts
             /\ \A p, q \in Procs : p # q => ~(Holding(p) /\ Holding(q))

\* What the controller does for the program that holds the bit.
InProgress(p) == sts = {"inuse", "busy"} /\ job = Own(p)
Answered(p)   == sts = {"inuse", "intr"} /\ d0 = Own(p) /\ job = None
Aborted       == sts = {"inuse", "err"} /\ job = None

Phase(p) ==
    /\ pc[p] \in {"slave", "data", "start"} => sts = {"inuse"} /\ job = None
    /\ pc[p] \in {"data", "start"} => slave = p
    /\ pc[p] = "start" => d0 = p
    /\ pc[p] \in {"proc", "exitkill"} => InProgress(p) \/ Answered(p) \/ Aborted
    /\ pc[p] = "fetch" => Answered(p)
    /\ pc[p] = "exitwipe" => "busy" \notin sts

\* A controller nobody has claimed is clean and at rest, so the next holder
\* finds no status of an earlier transfer.
BusOk ==
    /\ sts = {} \/ "inuse" \in sts
    /\ job = None \/ "busy" \in sts
    /\ \A p \in Procs : Phase(p)
    /\ \A p \in Procs : got[p] \in {None, Own(p)}
Bus == ~torn /\ ~MayPeek => BusOk

SmbusInv == TypeInv /\ Lock /\ Bus

-----------------------------------------------------------------------------
(* Type correctness.                                                       *)

LEMMA TypeInit == Init => TypeInv
<1> SUFFICES ASSUME Init PROVE TypeInv
  OBVIOUS
<1>1. tries \in [Procs -> 0..(PreTries + ProcTries)] /\ only \in [Procs -> 0..StealAfter]
  BY SmbusAssumption DEF Init
<1>2. crashes \in 0..MaxCrashes
  BY SmbusAssumption DEF Init
<1>3. QED BY <1>1, <1>2 DEF Init, TypeInv, TypeOK, Counters, Polling, Bits

\* EkSMBusPre: what NextTry and Judge do to the counters of the caller.
LEMMA NextTryType ==
    ASSUME TypeInv, NEW p \in Procs, pc[p] \in Polling, NextTry(p)
    PROVE  /\ tries' \in [Procs -> 0..(PreTries + ProcTries)]
           /\ pc' \in [Procs -> Polling \union {"idle", "peek", "slave", "data",
                                  "start", "proc", "fetch", "exitkill", "exitwipe"}]
           /\ Counters'
  BY SmbusAssumption DEF TypeInv, TypeOK, Counters, NextTry, Goto, Polling

LEMMA JudgeType ==
    ASSUME TypeInv, NEW p \in Procs, pc[p] \in Polling, NEW s, Judge(p, s)
    PROVE  /\ tries' \in [Procs -> 0..(PreTries + ProcTries)]
           /\ only' \in [Procs -> 0..StealAfter]
           /\ pc' \in [Procs -> Polling \union {"idle", "peek", "slave", "data",
                                  "start", "proc", "fetch", "exitkill", "exitwipe"}]
           /\ Counters'
<1>1. only' \in [Procs -> 0..StealAfter]
  BY SmbusAssumption DEF TypeInv, TypeOK, Judge
<1>2. CASE NextTry(p)
  BY <1>1, <1>2, NextTryType
<1>3. CASE ~NextTry(p)
  BY <1>1, <1>3, SmbusAssumption DEF TypeInv, TypeOK, Counters, Judge, Goto, Polling
<1>4. QED BY <1>2, <1>3

LEMMA TypeStep == ASSUME TypeInv, [Next]_vars PROVE TypeInv'
<1> USE SmbusAssumption
<1>1. CASE HwDone \/ HwFail
  BY <1>1 DEF TypeInv, TypeOK, Counters, HwDone, HwFail, Bits, locals, Transfer
<1>2. ASSUME NEW p \in Procs, PreRead(p) PROVE TypeInv'
  <2>1. sts' \in SUBSET Bits
    BY <1>2 DEF TypeInv, TypeOK, PreRead, ReadSts, Bits
  <2>2. pc[p] \in Polling
    BY <1>2 DEF PreRead, Polling
  <2>3. CASE Judge(p, sts)
    BY <1>2, <2>1, <2>2, <2>3, JudgeType DEF TypeInv, TypeOK, PreRead
  <2>4. CASE NextTry(p) /\ UNCHANGED only
    BY <1>2, <2>1, <2>2, <2>4, NextTryType DEF TypeInv, TypeOK, PreRead
  <2>5. CASE Goto(p, "kill") /\ UNCHANGED <<tries, only>>
    BY <1>2, <2>1, <2>5 DEF TypeInv, TypeOK, Counters, PreRead, Goto, Polling
  <2>6. QED BY <1>2, <2>3, <2>4, <2>5 DEF PreRead
<1>3. ASSUME NEW p \in Procs, PreReread(p) PROVE TypeInv'
  <2>1. sts' \in SUBSET Bits
    BY <1>3 DEF TypeInv, TypeOK, PreReread, ReadSts, Bits
  <2>2. pc[p] \in Polling /\ Judge(p, sts)
    BY <1>3 DEF PreReread, Polling
  <2>3. QED BY <1>3, <2>1, <2>2, JudgeType DEF TypeInv, TypeOK, PreReread
<1>4. ASSUME NEW p \in Procs, PreSteal(p) PROVE TypeInv'
  <2>1. sts' \in SUBSET Bits /\ torn' \in BOOLEAN
    BY <1>4 DEF TypeInv, TypeOK, PreSteal, ClearSts, Bits
  <2>2. only' \in [Procs -> 0..StealAfter]
    BY <1>4 DEF TypeInv, TypeOK, PreSteal
  <2>3. pc[p] \in Polling /\ NextTry(p)
    BY <1>4 DEF PreSteal, Polling
  <2>4. QED BY <1>4, <2>1, <2>2, <2>3, NextTryType DEF TypeInv, TypeOK, PreSteal
<1>5. ASSUME NEW p \in Procs,
             PreKill(p) \/ PreWipe(p) \/ ExitKill(p) \/ ExitWipe(p) \/ PeekClear(p)
      PROVE TypeInv'
  <2>1. sts' \in SUBSET Bits /\ torn' \in BOOLEAN
    BY <1>5 DEF TypeInv, TypeOK, PreKill, PreWipe, ExitKill, ExitWipe, PeekClear,
                Kill, ClearSts, Bits
  <2>2. QED BY <1>5, <2>1 DEF TypeInv, TypeOK, Counters, PreKill, PreWipe, ExitKill,
                ExitWipe, PeekClear, Kill, ClearSts, Goto, Polling
<1>6. ASSUME NEW p \in Procs, SetSlave(p) \/ SetData(p) \/ Start(p) PROVE TypeInv'
  BY <1>6 DEF TypeInv, TypeOK, Counters, SetSlave, SetData, Start, Goto, Polling,
              Bits, Transfer
<1>7. ASSUME NEW p \in Procs, ProcRead(p) PROVE TypeInv'
  <2>1. sts' \in SUBSET Bits
    BY <1>7 DEF TypeInv, TypeOK, ProcRead, ReadSts, Bits
  <2>2. Outcome(sts) \in {"exitkill", "exitwipe", "fetch"}
    BY DEF Outcome
  <2>3. tries' \in [Procs -> 0..(PreTries + ProcTries)]
    BY <1>7 DEF TypeInv, TypeOK, Counters, ProcRead
  <2>4. QED BY <1>7, <2>1, <2>2, <2>3 DEF TypeInv, TypeOK, Counters, ProcRead, Goto, Polling
<1>8. ASSUME NEW p \in Procs, Fetch(p) \/ Begin(p) \/ Crash(p) PROVE TypeInv'
  BY <1>8 DEF TypeInv, TypeOK, Counters, Fetch, Begin, Crash, regs, Goto, Polling
<1>9. ASSUME NEW p \in Procs, PeekRead(p) PROVE TypeInv'
  BY <1>9 DEF TypeInv, TypeOK, Counters, PeekRead, ReadSts, Goto, Polling, Bits
<1>10. CASE UNCHANGED vars
  BY <1>10 DEF TypeInv, TypeOK, Counters, vars, regs, locals
<1>11. QED BY <1>1, <1>2, <1>3, <1>4, <1>5, <1>6, <1>7, <1>8, <1>9, <1>10
           DEF Next, Step

-----------------------------------------------------------------------------
(* The bit is a lock.                                                      *)

\* A poll that comes out as a holder has found the bit clear.
LEMMA JudgeAcquires ==
    ASSUME TypeInv, NEW p \in Procs, ~Holding(p), Judge(p, sts)
    PROVE  /\ \A q \in Procs \ {p} : Holding(q)' <=> Holding(q)
           /\ Holding(p)' => "inuse" \notin sts
  BY DEF TypeInv, TypeOK, Judge, NextTry, Goto, Holding

LEMMA LockStep == ASSUME TypeInv, Lock, [Next]_vars PROVE Lock'
<1> SUFFICES ASSUME ~torn' PROVE Lock'
  BY DEF Lock
<1> USE DEF TypeInv, TypeOK
<1>1. CASE HwDone \/ HwFail
  BY <1>1 DEF Lock, Holding, HwDone, HwFail, locals
<1>2. ASSUME NEW p \in Procs, PreRead(p) \/ PreReread(p) PROVE Lock'
  <2>1. sts' = sts \union {"inuse"} /\ ~torn
    BY <1>2 DEF PreRead, PreReread, ReadSts
  <2>2. ~Holding(p)
    BY <1>2 DEF PreRead, PreReread, Holding
  <2>3. CASE Judge(p, sts)
    BY <2>1, <2>2, <2>3, JudgeAcquires DEF Lock
  <2>4. CASE NextTry(p) \/ Goto(p, "kill")
    BY <2>1, <2>2, <2>4 DEF Lock, NextTry, Goto, Holding
  <2>5. QED BY <1>2, <2>3, <2>4 DEF PreRead, PreReread
<1>3. ASSUME NEW p \in Procs, PreWipe(p) \/ PreSteal(p) \/ ExitWipe(p) \/ PeekClear(p)
      PROVE Lock'
  <2>1. \A q \in Procs \ {p} : ~Holding(q)
    BY <1>3 DEF PreWipe, PreSteal, ExitWipe, PeekClear, ClearSts, NotHis
  <2>2. \A q \in Procs : ~Holding(q)'
    BY <1>3, <2>1 DEF PreWipe, PreSteal, ExitWipe, PeekClear, NextTry, Goto, Holding
  <2>3. QED BY <2>2 DEF Lock
<1>4. ASSUME NEW p \in Procs, PreKill(p) \/ ExitKill(p) PROVE Lock'
  BY <1>4 DEF Lock, PreKill, ExitKill, Kill, Goto, Holding
<1>5. ASSUME NEW p \in Procs, SetSlave(p) \/ SetData(p) \/ Start(p) PROVE Lock'
  BY <1>5 DEF Lock, SetSlave, SetData, Start, Goto, Holding
<1>6. ASSUME NEW p \in Procs, ProcRead(p) PROVE Lock'
  BY <1>6 DEF Lock, ProcRead, ReadSts, Goto, Holding
<1>7. ASSUME NEW p \in Procs, Fetch(p) \/ Begin(p) \/ Crash(p) PROVE Lock'
  BY <1>7 DEF Lock, Fetch, Begin, Crash, regs, Goto, Holding
<1>8. ASSUME NEW p \in Procs, PeekRead(p) PROVE Lock'
  BY <1>8 DEF Lock, PeekRead, ReadSts, Goto, Holding
<1>9. CASE UNCHANGED vars
  BY <1>9 DEF Lock, Holding, vars, regs, locals
<1>10. QED BY <1>1, <1>2, <1>3, <1>4, <1>5, <1>6, <1>7, <1>8, <1>9 DEF Next, Step

-----------------------------------------------------------------------------
(* Calls get their own answers.                                            *)

\* While the lock holds, the phases of everybody but the holder are void.
LEMMA OnlyHolder ==
    ASSUME TypeInv, Lock, ~torn, NEW p \in Procs, Holding(p)
    PROVE  \A q \in Procs \ {p} : ~Holding(q)
  BY DEF Lock

LEMMA VoidPhase ==
    ASSUME NEW q \in Procs, ~Holding(q) PROVE Phase(q)
  BY DEF Holding, Phase

LEMMA HwStep ==
    ASSUME TypeInv, Lock, BusOk, ~torn, HwDone \/ HwFail PROVE BusOk'
<1>1. (sts' = {} \/ "inuse" \in sts') /\ job' = None
  BY DEF BusOk, HwDone, HwFail
<1>2. ASSUME NEW p \in Procs PROVE Phase(p)'
  <2>1. pc[p] \notin {"slave", "data", "start", "fetch", "exitwipe"}
    BY DEF BusOk, Phase, Answered, HwDone, HwFail
  <2>2. CASE HwDone
    BY <2>1, <2>2 DEF BusOk, HwDone, Phase, InProgress, Answered, Aborted, locals
  <2>3. CASE HwFail
    BY <2>1, <2>3 DEF BusOk, HwFail, Phase, InProgress, Answered, Aborted, locals
  <2>4. QED BY <2>2, <2>3
<1>3. QED BY <1>1, <1>2 DEF BusOk, HwDone, HwFail, locals

\* A step of p that leaves the controller and the others alone but for INUSE,
\* which a holder has set already.
LEMMA OthersKeepPhase ==
    ASSUME TypeInv, BusOk, NEW p \in Procs, NEW q \in Procs \ {p}, pc'[q] = pc[q],
           sts' = sts \/ (sts' = sts \union {"inuse"}),
           UNCHANGED <<slave, d0, job>>, Lock, ~torn
    PROVE  Phase(q)'
<1>1. CASE Holding(q)
  <2>1. sts' = sts
    BY <1>1 DEF Lock
  <2>2. QED BY <2>1 DEF BusOk, Phase, InProgress, Answered, Aborted
<1>2. CASE ~Holding(q)
  BY <1>2 DEF Holding, Phase
<1>3. QED BY <1>1, <1>2

\* A poll that acquires the bit has found the controller clean and at rest.
LEMMA PollStep ==
    ASSUME TypeInv, Lock, BusOk, ~torn, NEW p \in Procs, PreRead(p) \/ PreReread(p)
    PROVE  BusOk'
<1>1. sts' = sts \union {"inuse"} /\ UNCHANGED <<slave, d0, job, got>>
  BY DEF PreRead, PreReread, ReadSts
<1>2. \A q \in Procs \ {p} : pc'[q] = pc[q]
  BY DEF PreRead, PreReread, Judge, NextTry, Goto, TypeInv, TypeOK
<1>3. pc'[p] \in {"pre", "idle", "kill", "steal", "slave"}
  BY DEF PreRead, PreReread, Judge, NextTry, Goto, TypeInv, TypeOK
<1>4. pc'[p] = "slave" => sts = {}
  BY DEF PreRead, PreReread, Judge, NextTry, Goto, BusOk, TypeInv, TypeOK
<1>5. Phase(p)'
  BY <1>1, <1>3, <1>4 DEF Phase, BusOk
<1>6. \A q \in Procs \ {p} : Phase(q)'
  BY <1>1, <1>2, OthersKeepPhase
<1>7. QED BY <1>1, <1>5, <1>6 DEF BusOk

\* KILL aborts what is in progress, whoever started it.
LEMMA KillStep ==
    ASSUME TypeInv, Lock, BusOk, ~torn, NEW p \in Procs, PreKill(p) \/ ExitKill(p)
    PROVE  BusOk'
<1>1. ("inuse" \in sts' \/ sts' = {}) /\ job' = None /\ "busy" \notin sts'
  BY DEF PreKill, ExitKill, Kill, BusOk
<1>2. ASSUME NEW q \in Procs PROVE Phase(q)'
  <2>1. CASE q = p
    BY <1>1, <2>1 DEF PreKill, ExitKill, Goto, Phase, TypeInv, TypeOK
  <2>2. CASE q # p
    <3>1. pc'[q] = pc[q] /\ UNCHANGED <<slave, d0>>
      BY <2>2 DEF PreKill, ExitKill, Goto, TypeInv, TypeOK
    <3>2. CASE "busy" \in sts
      BY <1>1, <3>1, <3>2 DEF PreKill, ExitKill, Kill, BusOk, Phase, InProgress,
                              Answered, Aborted
    <3>3. CASE "busy" \notin sts
      BY <1>1, <3>1, <3>3 DEF PreKill, ExitKill, Kill, BusOk, Phase, InProgress,
                              Answered, Aborted
    <3>4. QED BY <3>2, <3>3
  <2>3. QED BY <2>1, <2>2
<1>3. QED BY <1>1, <1>2 DEF BusOk, PreKill, ExitKill

\* A write of 0xFF that tears no bit leaves a clean controller to nobody.
LEMMA ClearStep ==
    ASSUME TypeInv, Lock, BusOk, ~torn', NEW p \in Procs,
           PreWipe(p) \/ PreSteal(p) \/ ExitWipe(p)
    PROVE  BusOk'
<1>1. \A q \in Procs \ {p} : ~Holding(q)
  BY DEF PreWipe, PreSteal, ExitWipe, ClearSts, NotHis
<1>2. \A q \in Procs : ~Holding(q)'
  BY <1>1 DEF PreWipe, PreSteal, ExitWipe, NextTry, Goto, Holding, TypeInv, TypeOK
<1>3. \A q \in Procs : Phase(q)'
  BY <1>2 DEF Holding, Phase
<1>4. "busy" \notin sts
  <2>1. CASE ExitWipe(p)
    BY <2>1 DEF BusOk, Phase, ExitWipe
  <2>2. CASE PreWipe(p) \/ PreSteal(p)
    <3>1. ~Holding(p)
      BY <2>2 DEF PreWipe, PreSteal, Holding
    <3>2. QED BY <2>2, <3>1 DEF PreWipe, PreSteal, ClearSts, NotHis
  <2>3. QED BY <2>1, <2>2
<1>5. sts' = {}
  BY <1>4 DEF PreWipe, PreSteal, ExitWipe, ClearSts
<1>6. UNCHANGED <<job, got>>
  BY DEF PreWipe, PreSteal, ExitWipe
<1>7. QED BY <1>3, <1>4, <1>5, <1>6 DEF BusOk

\* Only the holder writes the registers and starts a transfer.
LEMMA TransferStep ==
    ASSUME TypeInv, Lock, BusOk, ~torn, NEW p \in Procs,
           SetSlave(p) \/ SetData(p) \/ Start(p)
    PROVE  BusOk'
<1>1. Holding(p)
  BY DEF SetSlave, SetData, Start, Holding
<1>2. \A q \in Procs \ {p} : pc'[q] = pc[q] /\ ~Holding(q)
  BY <1>1, OnlyHolder DEF SetSlave, SetData, Start, Goto, TypeInv, TypeOK
<1>3. \A q \in Procs \ {p} : Phase(q)'
  BY <1>2 DEF Holding, Phase
<1>4. Phase(p)'
  <2>1. CASE SetSlave(p)
    BY <2>1 DEF SetSlave, Goto, Phase, BusOk, TypeInv, TypeOK
  <2>2. CASE SetData(p)
    BY <2>2 DEF SetData, Goto, Phase, BusOk, TypeInv, TypeOK
  <2>3. CASE Start(p)
    <3>1. sts = {"inuse"} /\ slave = p /\ d0 = p
      BY <2>3 DEF Start, Phase, BusOk
    <3>2. sts' = {"inuse", "busy"} /\ job' = Own(p)
      BY <2>3, <3>1 DEF Start, Own
    <3>3. pc'[p] = "proc"
      BY <2>3 DEF Start, Goto, TypeInv, TypeOK
    <3>4. QED BY <3>2, <3>3 DEF Phase, InProgress
  <2>4. QED BY <2>1, <2>2, <2>3
<1>5. "inuse" \in sts' /\ (job' = None \/ "busy" \in sts')
  <2>1. "inuse" \in sts
    BY <1>1 DEF Lock
  <2>2. QED BY <2>1 DEF SetSlave, SetData, Start, BusOk
<1>6. QED BY <1>3, <1>4, <1>5 DEF BusOk, SetSlave, SetData, Start

\* A transfer that EkSMBusProc takes for done has left the holder's answer.
LEMMA ProcStep ==
    ASSUME TypeInv, Lock, BusOk, ~torn, NEW p \in Procs, ProcRead(p)
    PROVE  BusOk'
<1>1. Holding(p) /\ "inuse" \in sts
  BY DEF ProcRead, Holding, Lock
<1>2. sts' = sts /\ UNCHANGED <<slave, d0, job, got>>
  BY <1>1 DEF ProcRead, ReadSts
<1>3. \A q \in Procs \ {p} : pc'[q] = pc[q]
  BY DEF ProcRead, Goto, TypeInv, TypeOK
<1>4. \A q \in Procs \ {p} : Phase(q)'
  BY <1>2, <1>3, OthersKeepPhase
<1>5. InProgress(p) \/ Answered(p) \/ Aborted
  BY DEF ProcRead, BusOk, Phase
<1>6. pc'[p] \in {"proc", Outcome(sts)}
  BY DEF ProcRead, Goto, TypeInv, TypeOK
<1>7. Outcome(sts) \in {"exitkill", "fetch"} /\ (Outcome(sts) = "fetch" => Answered(p))
  BY <1>5 DEF Outcome, InProgress, Answered, Aborted
<1>8. Phase(p)'
  BY <1>2, <1>5, <1>6, <1>7 DEF Phase, InProgress, Answered, Aborted
<1>9. QED BY <1>2, <1>4, <1>8 DEF BusOk

LEMMA LocalStep ==
    ASSUME TypeInv, Lock, BusOk, ~torn, NEW p \in Procs,
           Fetch(p) \/ Begin(p) \/ Crash(p)
    PROVE  BusOk'
<1>1. UNCHANGED <<sts, slave, d0, job>>
  BY DEF Fetch, Begin, Crash, regs
<1>2. \A q \in Procs \ {p} : pc'[q] = pc[q] /\ got'[q] = got[q]
  BY DEF Fetch, Begin, Crash, Goto, TypeInv, TypeOK
<1>3. \A q \in Procs \ {p} : Phase(q)'
  BY <1>1, <1>2, OthersKeepPhase
<1>4. Phase(p)' /\ got'[p] \in {None, Own(p)}
  BY <1>1 DEF Fetch, Begin, Crash, Goto, Phase, Answered, BusOk, TypeInv, TypeOK
<1>5. QED BY <1>1, <1>2, <1>3, <1>4 DEF BusOk

LEMMA BusStep == ASSUME TypeInv, Lock, Bus, [Next]_vars PROVE Bus'
<1> SUFFICES ASSUME ~torn', ~MayPeek PROVE BusOk'
  BY DEF Bus
<1>1. ~torn
  BY DEF Next, Step, HwDone, HwFail, Begin, PeekRead, PreRead, PreKill, PreWipe,
         PreReread, PreSteal, SetSlave, SetData, Start, ProcRead, Fetch, ExitKill,
         ExitWipe, PeekClear, Crash, ClearSts, vars, TypeInv, TypeOK
<1>2. BusOk
  BY <1>1 DEF Bus
<1>3. ASSUME NEW p \in Procs PROVE ~PeekRead(p) /\ ~PeekClear(p)
  BY DEF PeekRead, PeekClear, TypeInv, Counters
<1>4. CASE UNCHANGED vars
  BY <1>2, <1>4 DEF BusOk, Phase, InProgress, Answered, Aborted, vars, regs, locals
<1>5. CASE HwDone \/ HwFail
  BY <1>1, <1>2, <1>5, HwStep
<1>6. ASSUME NEW p \in Procs, Begin(p) \/ Step(p) \/ Crash(p) PROVE BusOk'
  BY <1>1, <1>2, <1>3, <1>6, PollStep, KillStep, ClearStep, TransferStep, ProcStep,
     LocalStep DEF Step
<1>7. QED BY <1>3, <1>4, <1>5, <1>6 DEF Next

-----------------------------------------------------------------------------

\* The inductive invariant: types and counters, the bit as a lock while it is
\* not torn, and the controller's state in each phase of the holder's call.
THEOREM SmbusInvariant == Spec => []SmbusInv
<1>1. Init => SmbusInv
  <2>1. ASSUME Init PROVE Lock /\ Bus
    BY <2>1 DEF Init, Lock, Bus, BusOk, Holding, Phase
  <2>2. QED BY <2>1, TypeInit DEF SmbusInv
<1>2. SmbusInv /\ [Next]_vars => SmbusInv'
  BY TypeStep, LockStep, BusStep DEF SmbusInv
<1>3. QED BY <1>1, <1>2, PTL DEF Spec

\* The variables, the loop counters of EkSMBusPre and EkSMBusProc among them,
\* keep their types.
THEOREM SmbusTypes == Spec => []TypeOK
<1>1. SmbusInv => TypeOK
  BY DEF SmbusInv, TypeInv
<1>2. QED BY <1>1, SmbusInvariant, PTL

\* Until a program clears a bit that is not its own, at most one program is
\* between EkSMBusPre and EkSMBusExit.
THEOREM SmbusExclusive == Spec => []Exclusive
<1>1. SmbusInv => Exclusive
  BY DEF SmbusInv, Lock, Exclusive
<1>2. QED BY <1>1, SmbusInvariant, PTL

\* Until then, and without register dumps, a call reads back the answer to its
\* own command, even when programs are killed and transfers fail or hang.
THEOREM SmbusOwnAnswer == Spec => []OwnAnswer
<1>1. SmbusInv => OwnAnswer
  BY DEF SmbusInv, Bus, BusOk, OwnAnswer
<1>2. QED BY <1>1, SmbusInvariant, PTL

-----------------------------------------------------------------------------
(* Who breaks the lock.                                                    *)

\* A program at the steal has met its limit; and while nothing has failed, hung,
\* been killed or dumped, and no bit is torn, nobody is where an error leads.
Blame ==
    /\ \A p \in Procs : pc[p] = "steal" => only[p] >= StealAfter
    /\ ~Disturbed /\ ~torn =>
          /\ "err" \notin sts
          /\ \A p \in Procs : pc[p] \notin {"kill", "wipe", "reread", "exitkill", "peek"}

\* A poll that leads to the steal has counted to the limit, and it leads to no
\* place of the error path.
LEMMA JudgeBlame ==
    ASSUME TypeInv, Blame, NEW p \in Procs, Judge(p, sts)
    PROVE  /\ \A q \in Procs : pc'[q] = "steal" => only'[q] >= StealAfter
           /\ pc'[p] \in {"pre", "idle", "slave", "steal"}
           /\ \A q \in Procs \ {p} : pc'[q] = pc[q]
  BY SmbusAssumption DEF TypeInv, TypeOK, Blame, Judge, NextTry, Goto

LEMMA BlameStep == ASSUME SmbusInv, Blame, [Next]_vars PROVE Blame'
<1> USE SmbusAssumption DEF SmbusInv, TypeInv, TypeOK
<1>1. CASE HwDone \/ HwFail
  BY <1>1 DEF Blame, Disturbed, HwDone, HwFail, locals
<1>2. ASSUME NEW p \in Procs, PreRead(p) PROVE Blame'
  <2>1. sts' = sts \union {"inuse"} /\ torn' = torn
    BY <1>2 DEF PreRead, ReadSts
  <2>2. CASE Judge(p, sts)
    BY <2>1, <2>2, JudgeBlame DEF Blame
  <2>3. CASE NextTry(p) /\ UNCHANGED only
    BY <2>1, <2>3 DEF Blame, NextTry, Goto
  <2>4. CASE "err" \in sts /\ Goto(p, "kill") /\ UNCHANGED <<tries, only>>
    BY <2>1, <2>4 DEF Blame, Goto
  <2>5. QED BY <1>2, <2>2, <2>3, <2>4 DEF PreRead
<1>3. ASSUME NEW p \in Procs, PreReread(p) PROVE Blame'
  <2>1. sts' = sts \union {"inuse"} /\ torn' = torn /\ Judge(p, sts)
    BY <1>3 DEF PreReread, ReadSts
  <2>2. QED BY <1>3, <2>1, JudgeBlame DEF PreReread, Blame
<1>4. ASSUME NEW p \in Procs, PreKill(p) \/ ExitKill(p) PROVE Blame'
  BY <1>4 DEF Blame, PreKill, ExitKill, Kill, Goto
<1>5. ASSUME NEW p \in Procs, PreWipe(p) \/ ExitWipe(p) PROVE Blame'
  BY <1>5 DEF Blame, PreWipe, ExitWipe, ClearSts, Goto
<1>6. ASSUME NEW p \in Procs, PreSteal(p) PROVE Blame'
  BY <1>6 DEF Blame, PreSteal, ClearSts, NextTry, Goto
<1>7. ASSUME NEW p \in Procs, ProcRead(p) PROVE Blame'
  <2>1. pc'[p] \in {"proc", "fetch", "exitkill", "exitwipe"}
    BY <1>7 DEF ProcRead, Goto, Outcome
  <2>2. ASSUME ~Disturbed, ~torn PROVE pc'[p] # "exitkill"
    <3>1. InProgress(p) \/ Answered(p)
      BY <1>7, <2>2 DEF ProcRead, Blame, Disturbed, Bus, BusOk, Phase, Aborted
    <3>2. Ended(sts) => Outcome(sts) = "fetch"
      BY <3>1 DEF Ended, Outcome, InProgress, Answered
    <3>3. QED BY <1>7, <2>2, <3>2 DEF ProcRead, Goto, Counters, Disturbed
  <2>3. QED BY <1>7, <2>1, <2>2 DEF ProcRead, ReadSts, Goto, Blame
<1>8. ASSUME NEW p \in Procs, SetSlave(p) \/ SetData(p) \/ Start(p) PROVE Blame'
  BY <1>8 DEF Blame, SetSlave, SetData, Start, Goto
<1>9. ASSUME NEW p \in Procs, Fetch(p) \/ Begin(p) \/ Crash(p) PROVE Blame'
  BY <1>9 DEF Blame, Fetch, Begin, Crash, Goto, regs
<1>10. ASSUME NEW p \in Procs, PeekRead(p) \/ PeekClear(p) PROVE Blame'
  BY <1>10 DEF Blame, Disturbed, PeekRead, PeekClear, ReadSts, Goto, Counters
<1>11. CASE UNCHANGED vars
  BY <1>11 DEF Blame, vars, regs, locals
<1>12. QED BY <1>1, <1>2, <1>3, <1>4, <1>5, <1>6, <1>7, <1>8, <1>9, <1>10, <1>11
           DEF Next, Step

\* Whatever the limits and however many programs are killed: a bit is torn by a
\* steal that has met its limit, and by the error path of a poll or a dump only
\* where something failed; EkSMBusExit gives back the caller's bit and no other.
THEOREM SmbusTornBy == Spec => TornBy
<1>1. Init => Blame
  BY DEF Init, Blame
<1>2. SmbusInv /\ Blame /\ [Next]_vars => Blame'
  BY BlameStep
<1>3. SmbusInv /\ Blame /\ [Next]_vars =>
        [~torn /\ torn' => \E p \in Procs :
             \/ pc[p] = "steal" /\ only[p] >= StealAfter
             \/ Disturbed /\ pc[p] \in {"wipe", "peek"}]_vars
  <2> SUFFICES ASSUME SmbusInv, Blame, [Next]_vars, ~torn, torn'
               PROVE  \E p \in Procs : \/ pc[p] = "steal" /\ only[p] >= StealAfter
                                       \/ Disturbed /\ pc[p] \in {"wipe", "peek"}
    OBVIOUS
  <2>1. PICK p \in Procs : PreWipe(p) \/ PreSteal(p) \/ ExitWipe(p) \/ PeekClear(p)
    BY DEF Next, Step, HwDone, HwFail, Begin, PeekRead, PreRead, PreKill, PreReread,
           SetSlave, SetData, Start, ProcRead, Fetch, ExitKill, Crash, vars
  <2>2. ASSUME ExitWipe(p) PROVE FALSE
    <3>1. Holding(p) /\ torn' = (torn \/ NotHis(p))
      BY <2>2 DEF ExitWipe, ClearSts, Holding
    <3>2. PICK q \in Procs \ {p} : Holding(q)
      BY <3>1 DEF NotHis
    <3>3. QED BY <3>1, <3>2 DEF SmbusInv, Lock
  <2>3. QED BY <2>1, <2>2 DEF Blame, PreWipe, PreSteal, PeekClear
<1>4. QED BY <1>1, <1>2, <1>3, SmbusInvariant, PTL DEF Spec, TornBy

\* A program killed after its transfer has ended loses the bus for everybody:
\* without a register dump no sequence of calls and kills frees it.
THEOREM SmbusOrphanStays == ~MayPeek => (Spec => OrphanStays)
<1> SUFFICES ASSUME ~MayPeek PROVE Spec => OrphanStays
  OBVIOUS
<1>1. ASSUME SmbusInv, [Next]_vars, Orphan PROVE Orphan'
  <2> USE DEF SmbusInv, TypeInv, TypeOK
  <2>1. CASE UNCHANGED vars
    BY <1>1, <2>1 DEF Orphan, vars, regs, locals
  <2>2. ASSUME NEW p \in Procs, PreRead(p) PROVE Orphan'
    <3>1. sts' = sts
      BY <1>1, <2>2 DEF Orphan, PreRead, ReadSts
    <3>2. NextTry(p)
      BY <1>1, <2>2 DEF Orphan, PreRead, Judge
    <3>3. QED BY <1>1, <3>1, <3>2 DEF Orphan, NextTry, Goto
  <2>3. ASSUME NEW p \in Procs, Begin(p) \/ Crash(p) PROVE Orphan'
    BY <1>1, <2>3 DEF Orphan, Begin, Crash, regs, Goto
  <2>4. QED BY <1>1, <2>1, <2>2, <2>3 DEF Next, Step, Orphan, HwDone, HwFail, PeekRead,
             PreKill, PreWipe, PreReread, PreSteal, SetSlave, SetData, Start, ProcRead,
             Fetch, ExitKill, ExitWipe, PeekClear
<1>2. SmbusInv /\ [Next]_vars => [Orphan => Orphan']_vars
  BY <1>1
<1>3. QED BY <1>2, SmbusInvariant, PTL DEF Spec, OrphanStays

-----------------------------------------------------------------------------
(* The refinement: SmbusLock implements BusLock, for any number of         *)
(* programs.                                                               *)

BusPhase == [p \in Procs |-> CallPhase(p)]

\* A step of one program changes only its own phase.
LEMMA PhaseStep ==
    ASSUME TypeOK, NEW p \in Procs, NEW l, pc' = [pc EXCEPT ![p] = l],
           NEW ph, CallPhase(p)' = ph
    PROVE  BusPhase' = [BusPhase EXCEPT ![p] = ph]
<1>1. \A q \in Procs \ {p} : pc'[q] = pc[q]
  BY DEF TypeOK
<1>2. \A q \in Procs \ {p} : CallPhase(q)' = CallPhase(q)
  BY <1>1 DEF CallPhase, Holding
<1>3. QED BY <1>2 DEF BusPhase

LEMMA AbstractInit == Init => Abstract!Init
  BY DEF Init, Abstract!Init, CallPhase, Holding, Polling

\* The controller ends transfers.
LEMMA HwAbstract ==
    ASSUME SmbusInv, ~MayPeek, ~torn, HwDone \/ HwFail
    PROVE  [Abstract!Next]_(Abstract!abstract)
<1>1. pc' = pc /\ got' = got /\ torn' = torn /\ job' = None
  BY DEF HwDone, HwFail, locals
<1>2. BusPhase' = BusPhase
  BY <1>1 DEF BusPhase, CallPhase, Holding
<1>3. CASE job = None
  BY <1>1, <1>2, <1>3 DEF Abstract!abstract, BusPhase
<1>4. CASE job # None
  <2>1. Abstract!End
    BY <1>1, <1>2, <1>4 DEF Abstract!End, BusPhase
  <2>2. QED BY <1>1, <2>1 DEF Abstract!Next, Abstract!Kept
<1>5. QED BY <1>3, <1>4

\* EkSMBusPre polls: the call goes on waiting, gives up, or is granted the bus,
\* which nobody else uses and no transfer is on.
LEMMA PollAbstract ==
    ASSUME SmbusInv, SmbusInv', ~MayPeek, ~torn, ~torn',
           NEW p \in Procs, PreRead(p) \/ PreReread(p)
    PROVE  [Abstract!Next]_(Abstract!abstract)
<1>1. TypeOK /\ BusOk' /\ \A q, r \in Procs : q # r => ~(Holding(q)' /\ Holding(r)')
  BY DEF SmbusInv, TypeInv, Lock, Bus
<1>2. /\ job' = job /\ got' = got /\ torn' = torn
      /\ pc[p] \in {"pre", "reread"}
      /\ \E l \in {"pre", "idle", "kill", "steal", "slave"} : pc' = [pc EXCEPT ![p] = l]
  BY DEF PreRead, PreReread, Judge, NextTry, Goto
<1>3. PICK l \in {"pre", "idle", "kill", "steal", "slave"} : pc' = [pc EXCEPT ![p] = l]
  BY <1>2
<1>4. pc'[p] = l
  BY <1>1, <1>3 DEF TypeOK
<1>5. BusPhase[p] = "waiting"
  BY <1>2 DEF BusPhase, CallPhase, Holding, Polling
<1>6. CASE l \in {"pre", "kill", "steal"}
  <2>1. CallPhase(p)' = "waiting"
    BY <1>4, <1>6 DEF CallPhase, Holding, Polling
  <2>2. BusPhase' = [BusPhase EXCEPT ![p] = "waiting"]
    BY <1>1, <1>3, <2>1, PhaseStep
  <2>3. BusPhase' = BusPhase
    BY <1>5, <2>2 DEF BusPhase
  <2>4. QED BY <1>2, <2>3 DEF Abstract!abstract, BusPhase
<1>7. CASE l = "idle"
  <2>1. CallPhase(p)' = "out"
    BY <1>4, <1>7 DEF CallPhase, Holding, Polling
  <2>2. BusPhase' = [BusPhase EXCEPT ![p] = "out"]
    BY <1>1, <1>3, <2>1, PhaseStep
  <2>3. Abstract!Leave(p)
    BY <1>2, <1>5, <2>2 DEF Abstract!Leave, BusPhase
  <2>4. QED BY <1>2, <2>3 DEF Abstract!Next, Abstract!Kept
<1>8. CASE l = "slave"
  <2>1. CallPhase(p)' = "using" /\ Holding(p)'
    BY <1>4, <1>8 DEF CallPhase, Holding, Polling
  <2>2. BusPhase' = [BusPhase EXCEPT ![p] = "using"]
    BY <1>1, <1>3, <2>1, PhaseStep
  <2>3. job = None
    BY <1>1, <1>2, <1>4, <1>8 DEF BusOk, Phase
  <2>4. \A q \in Procs : BusPhase[q] # "using"
    <3>1. \A q \in Procs \ {p} : ~Holding(q)
      BY <1>1, <1>3, <2>1 DEF TypeOK, Holding
    <3>2. ~Holding(p)
      BY <1>2 DEF Holding
    <3>3. QED BY <3>1, <3>2 DEF BusPhase, CallPhase
  <2>5. Abstract!Grant(p)
    BY <1>2, <1>5, <2>2, <2>3, <2>4 DEF Abstract!Grant, BusPhase
  <2>6. QED BY <1>2, <2>5 DEF Abstract!Next, Abstract!Kept
<1>9. QED BY <1>6, <1>7, <1>8

\* Steps of one program that keep its phase and at most end a transfer.
LEMMA SamePhase ==
    ASSUME SmbusInv, ~torn, NEW p \in Procs, NEW l, pc' = [pc EXCEPT ![p] = l],
           CallPhase(p)' = CallPhase(p),
           got' = got, torn' = torn, job' \in {job, None}
    PROVE  [Abstract!Next]_(Abstract!abstract)
<1>1. BusPhase' = [BusPhase EXCEPT ![p] = CallPhase(p)]
  BY PhaseStep DEF SmbusInv, TypeInv
<1>2. BusPhase' = BusPhase
  BY <1>1 DEF BusPhase
<1>3. CASE job' = job
  BY <1>2, <1>3 DEF Abstract!abstract, BusPhase
<1>4. CASE job' = None /\ job # None
  <2>1. Abstract!End
    BY <1>2, <1>4 DEF Abstract!End, BusPhase
  <2>2. QED BY <2>1 DEF Abstract!Next, Abstract!Kept
<1>5. QED BY <1>3, <1>4

\* Steps that take one program out of the call.
LEMMA LeaveAbstract ==
    ASSUME SmbusInv, ~torn, NEW p \in Procs, pc' = [pc EXCEPT ![p] = "idle"],
           pc[p] \in Polling \/ Holding(p),
           got' = got, torn' = torn, job' = job
    PROVE  [Abstract!Next]_(Abstract!abstract)
<1>1. pc'[p] = "idle"
  BY DEF SmbusInv, TypeInv, TypeOK
<1>2. CallPhase(p)' = "out"
  BY <1>1 DEF CallPhase, Holding, Polling
<1>3. BusPhase' = [BusPhase EXCEPT ![p] = "out"]
  BY <1>2, PhaseStep DEF SmbusInv, TypeInv
<1>4. BusPhase[p] # "out"
  BY DEF BusPhase, CallPhase
<1>5. Abstract!Leave(p)
  BY <1>3, <1>4 DEF Abstract!Leave, BusPhase
<1>6. QED BY <1>5 DEF Abstract!Next, Abstract!Kept

\* The rest of EkSMBusPre, and EkSMBusExit.
LEMMA ClearAbstract ==
    ASSUME SmbusInv, ~torn, ~torn', NEW p \in Procs,
           \/ PreKill(p) \/ PreWipe(p) \/ PreSteal(p)
           \/ ExitKill(p) \/ ExitWipe(p)
    PROVE  [Abstract!Next]_(Abstract!abstract)
<1> USE DEF SmbusInv, TypeInv, TypeOK
<1>1. CASE PreKill(p)
  <2>1. CallPhase(p)' = CallPhase(p)
    BY <1>1 DEF PreKill, Goto, CallPhase, Holding, Polling
  <2>2. QED BY <1>1, <2>1, SamePhase DEF PreKill, Kill, Goto
<1>2. CASE PreWipe(p)
  <2>1. CallPhase(p)' = CallPhase(p)
    BY <1>2 DEF PreWipe, Goto, CallPhase, Holding, Polling
  <2>2. torn' = torn
    BY <1>2 DEF PreWipe, ClearSts
  <2>3. QED BY <1>2, <2>1, <2>2, SamePhase DEF PreWipe, Goto
<1>3. CASE PreSteal(p)
  <2>1. torn' = torn
    BY <1>3 DEF PreSteal, ClearSts
  <2>2. PICK l \in {"pre", "idle"} : pc' = [pc EXCEPT ![p] = l]
    BY <1>3 DEF PreSteal, NextTry, Goto
  <2>3. CASE l = "pre"
    <3>1. CallPhase(p)' = CallPhase(p)
      BY <1>3, <2>2, <2>3 DEF PreSteal, CallPhase, Holding, Polling
    <3>2. QED BY <1>3, <2>1, <2>2, <3>1, SamePhase DEF PreSteal
  <2>4. CASE l = "idle"
    BY <1>3, <2>1, <2>2, <2>4, LeaveAbstract DEF PreSteal, Polling
  <2>5. QED BY <2>2, <2>3, <2>4
<1>4. CASE ExitKill(p)
  <2>1. CallPhase(p)' = CallPhase(p)
    BY <1>4 DEF ExitKill, Goto, CallPhase, Holding, Polling
  <2>2. QED BY <1>4, <2>1, SamePhase DEF ExitKill, Kill, Goto
<1>5. CASE ExitWipe(p)
  <2>1. torn' = torn
    BY <1>5 DEF ExitWipe, ClearSts
  <2>2. QED BY <1>5, <2>1, LeaveAbstract DEF ExitWipe, Goto, Holding
<1>6. QED BY <1>1, <1>2, <1>3, <1>4, <1>5

\* The transaction: what START sends is the caller's own command and argument,
\* and what is read afterwards is the answer to it.
LEMMA TransferAbstract ==
    ASSUME SmbusInv, ~MayPeek, ~torn, NEW p \in Procs,
           SetSlave(p) \/ SetData(p) \/ Start(p) \/ ProcRead(p) \/ Fetch(p)
    PROVE  [Abstract!Next]_(Abstract!abstract)
<1> USE DEF SmbusInv, TypeInv, TypeOK
<1>1. Phase(p)
  BY DEF Bus, BusOk
<1>2. PICK l \in {"data", "start", "proc", "fetch", "exitkill", "exitwipe"} :
         pc' = [pc EXCEPT ![p] = l]
  BY DEF SetSlave, SetData, Start, ProcRead, Fetch, Goto, Outcome
<1>3. CallPhase(p)' = "using" /\ CallPhase(p) = "using"
  <2>1. pc'[p] = l
    BY <1>2
  <2>2. Holding(p)
    BY DEF SetSlave, SetData, Start, ProcRead, Fetch, Holding
  <2>3. QED BY <2>1, <2>2 DEF CallPhase, Holding
<1>4. BusPhase[p] = "using"
  BY <1>3 DEF BusPhase
<1>5. BusPhase' = BusPhase
  <2>1. BusPhase' = [BusPhase EXCEPT ![p] = "using"]
    BY <1>2, <1>3, PhaseStep
  <2>2. QED BY <1>4, <2>1 DEF BusPhase
<1>6. CASE SetSlave(p) \/ SetData(p) \/ ProcRead(p)
  BY <1>2, <1>3, <1>6, SamePhase DEF SetSlave, SetData, ProcRead
<1>7. CASE Start(p)
  <2>1. sts = {"inuse"} /\ job = None /\ slave = p /\ d0 = p
    BY <1>1, <1>7 DEF Start, Phase
  <2>2. job' = <<p, p>> /\ got' = got /\ torn' = torn
    BY <1>7, <2>1 DEF Start
  <2>3. Abstract!Send(p)
    BY <1>4, <1>5, <2>1, <2>2 DEF Abstract!Send, BusPhase
  <2>4. QED BY <2>2, <2>3 DEF Abstract!Next, Abstract!Kept
<1>8. CASE Fetch(p)
  <2>1. d0 = <<p, p>> /\ job = None
    BY <1>1, <1>8 DEF Fetch, Phase, Answered, Own
  <2>2. got' = [got EXCEPT ![p] = <<p, p>>] /\ job' = job /\ torn' = torn
    BY <1>8, <2>1 DEF Fetch, regs
  <2>3. CASE got[p] = None
    <3>1. Abstract!Answer(p)
      BY <1>4, <1>5, <2>1, <2>2, <2>3 DEF Abstract!Answer, BusPhase
    <3>2. QED BY <2>2, <3>1 DEF Abstract!Next, Abstract!Kept
  <2>4. CASE got[p] = <<p, p>>
    <3>1. got' = got
      BY <2>2, <2>4
    <3>2. QED BY <1>5, <2>2, <3>1 DEF Abstract!abstract, BusPhase
  <2>5. got[p] \in {None, <<p, p>>}
    BY DEF Bus, BusOk, Own
  <2>6. QED BY <2>3, <2>4, <2>5
<1>9. QED BY <1>6, <1>7, <1>8

LEMMA BeginAbstract ==
    ASSUME SmbusInv, ~torn, NEW p \in Procs, Begin(p)
    PROVE  [Abstract!Next]_(Abstract!abstract)
<1> USE DEF SmbusInv, TypeInv, TypeOK
<1>1. CallPhase(p)' = "waiting" /\ BusPhase[p] = "out"
  BY DEF Begin, Goto, BusPhase, CallPhase, Holding, Polling
<1>2. BusPhase' = [BusPhase EXCEPT ![p] = "waiting"]
  BY <1>1, PhaseStep DEF Begin, Goto
<1>3. Abstract!Ask(p) /\ torn' = torn
  BY <1>1, <1>2 DEF Begin, regs, Abstract!Ask, BusPhase
<1>4. QED BY <1>3 DEF Abstract!Next, Abstract!Kept

LEMMA AbstractStep ==
    ASSUME SmbusInv, SmbusInv', ~MayPeek, [Next]_vars
    PROVE  [Abstract!Next]_(Abstract!abstract)
<1>1. CASE torn'
  BY <1>1 DEF Abstract!Next
<1>2. ASSUME torn PROVE torn'
  BY <1>2 DEF Next, Step, HwDone, HwFail, Begin, PeekRead, PeekClear, Crash, PreRead,
         PreKill, PreWipe, PreReread, PreSteal, SetSlave, SetData, Start, ProcRead,
         Fetch, ExitKill, ExitWipe, ClearSts, vars
<1>3. CASE ~torn' /\ ~torn
  <2>1. ASSUME NEW p \in Procs, Crash(p) PROVE [Abstract!Next]_(Abstract!abstract)
    <3>1. pc[p] \in Polling \/ Holding(p)
      BY <2>1 DEF SmbusInv, TypeInv, TypeOK, Counters, Crash, Holding
    <3>2. QED BY <1>3, <2>1, <3>1, LeaveAbstract DEF Crash, Goto, regs
  <2>2. ASSUME NEW p \in Procs PROVE ~PeekRead(p) /\ ~PeekClear(p)
    BY DEF SmbusInv, TypeInv, Counters, PeekRead, PeekClear
  <2>3. CASE UNCHANGED vars
    BY <2>3 DEF vars, regs, locals, Abstract!abstract, CallPhase, Holding
  <2>4. QED BY <1>3, <2>1, <2>2, <2>3, HwAbstract, PollAbstract, ClearAbstract,
            TransferAbstract, BeginAbstract DEF Next, Step
<1>4. QED BY <1>1, <1>2, <1>3

\* As long as nobody dumps the registers, SmbusLock implements BusLock.
THEOREM SmbusKeepsPromise == ~MayPeek => (Spec => KeepsPromise)
<1> SUFFICES ASSUME ~MayPeek PROVE Spec => KeepsPromise
  OBVIOUS
<1>1. SmbusInv /\ SmbusInv' /\ [Next]_vars => [Abstract!Next]_(Abstract!abstract)
  BY AbstractStep
<1>2. QED BY <1>1, AbstractInit, SmbusInvariant, PTL
          DEF Spec, KeepsPromise, Abstract!Spec
=============================================================================
