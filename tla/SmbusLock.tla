------------------------------ MODULE SmbusLock ------------------------------
(***************************************************************************)
(* Arbitration for the chipset's SMBus host controller between the         *)
(* programs built on EKit_L/DMCI.c.  On Linux EkSMBusBlockWait takes no    *)
(* mutex, so all that keeps two programs apart is the INUSE bit of the     *)
(* host status register HST_STS, a test-and-set: a read returns the bit    *)
(* and leaves it set, writing a one clears it.  EkSMBusPre polls for it,   *)
(* EkSMBusProc waits for the transfer, EkSMBusExit gives it back.          *)
(*                                                                         *)
(* Three writes of 0xFF to HST_STS clear the bit: EkSMBusExit's, of the    *)
(* program that holds it; EkSMBusPre's after an error somebody left or is  *)
(* just handling; and EkSMBusPre's when it has seen the register equal to  *)
(* INUSE so often that it takes the holder for dead.  The last two look at *)
(* the status alone and cannot tell whose bit they clear.                  *)
(*                                                                         *)
(* One action is one access of the controller's registers with the         *)
(* decision the program takes on it.  Sleep(1) is the gap between actions. *)
(***************************************************************************)
EXTENDS Integers

CONSTANTS
    Procs,       \* programs using the library
    PreTries,    \* WAIT_PRE_CNT: polls before EkSMBusPre gives up (500)
    StealAfter,  \* WAIT_PRE_CNT_: lone INUSE sightings before a steal (9)
    ProcTries,   \* WAIT_PROC_CNT: polls for the end of a transfer (100)
    MayFail,     \* whether a transfer can end in an error
    MayHang,     \* whether a transfer can outlast ProcTries polls
    MayPeek,     \* whether a program dumps the registers (EkDMCiSMBGetHST)
    MaxCrashes,  \* bound: programs killed in the middle of a call
    None

ASSUME SmbusAssumption ==
    /\ PreTries \in Nat \ {0} /\ ProcTries \in Nat \ {0} /\ StealAfter \in Nat
    /\ {MayFail, MayHang, MayPeek} \subseteq BOOLEAN /\ MaxCrashes \in Nat
    /\ None \notin Procs

VARIABLES
    sts,      \* HST_STS: the set of bits that are on
    slave,    \* XMIT_SLVA, HST_CMD: the program that wrote them last
    d0,       \* HST_D0..: the program whose argument, or the answer it holds
    job,      \* the transfer in progress, or None
    pc, tries, only,  \* where each program is; PROC_IDX and PROC_IDX_
    got,      \* the answer each call has read
    torn,     \* history: a bit was cleared by a program it was not held for
    crashes   \* programs killed so far

regs   == <<sts, slave, d0, job>>
locals == <<pc, tries, only, got>>
vars   == <<regs, locals, torn, crashes>>

Bits == {"inuse", "busy", "intr", "err"}
\* What the controller transfers: address and argument, each of some program.
Transfer == (Procs \union {None}) \X (Procs \union {None})
Own(p)   == <<p, p>>

Polling == {"pre", "kill", "wipe", "reread", "steal"}
Holding(p) == pc[p] \in {"slave", "data", "start", "proc", "fetch",
                         "exitkill", "exitwipe"}

TypeOK ==
    /\ sts \in SUBSET Bits
    /\ slave \in Procs \union {None}
    /\ d0 \in Procs \union {None} \union Transfer
    /\ job \in Transfer \union {None}
    /\ pc \in [Procs -> Polling \union {"idle", "peek", "slave", "data", "start",
                                        "proc", "fetch", "exitkill", "exitwipe"}]
    /\ tries \in [Procs -> 0..(PreTries + ProcTries)]
    /\ only \in [Procs -> 0..StealAfter]
    /\ got \in [Procs -> Procs \union {None} \union Transfer]
    /\ torn \in BOOLEAN
    /\ crashes \in 0..MaxCrashes

Init ==
    /\ sts = {} /\ slave = None /\ d0 = None /\ job = None
    /\ pc = [p \in Procs |-> "idle"]
    /\ tries = [p \in Procs |-> 0]
    /\ only = [p \in Procs |-> 0]
    /\ got = [p \in Procs |-> None]
    /\ torn = FALSE
    /\ crashes = 0

-----------------------------------------------------------------------------
(* The controller: external, as the library uses it.                       *)

\* A read of HST_STS returns sts and takes INUSE.
ReadSts == sts' = sts \union {"inuse"}

\* The bit p clears belongs to a call of another program, or to a transfer
\* that is still in progress, started by a program that has been killed.
NotHis(p) == \/ \E q \in Procs \ {p} : Holding(q)
             \/ ~Holding(p) /\ "busy" \in sts

\* Writing 0xFF clears every bit but HOST_BUSY, whoever had set them.
ClearSts(p) ==
    /\ sts' = sts \intersect {"busy"}
    /\ torn' = (torn \/ NotHis(p))

\* KILL aborts a transfer; the write of 0 that follows re-arms the controller.
Kill ==
    /\ sts' = IF "busy" \in sts THEN (sts \ {"busy"}) \union {"err"} ELSE sts
    /\ job' = None

HwDone ==
    /\ "busy" \in sts
    /\ sts' = (sts \ {"busy"}) \union {"intr"}
    /\ d0' = job
    /\ job' = None
    /\ UNCHANGED <<slave, locals, torn, crashes>>

HwFail ==
    /\ MayFail /\ "busy" \in sts
    /\ sts' = (sts \ {"busy"}) \union {"err"}
    /\ job' = None
    /\ UNCHANGED <<slave, d0, locals, torn, crashes>>

-----------------------------------------------------------------------------
(* EkSMBusPre                                                              *)

Goto(p, l) == pc' = [pc EXCEPT ![p] = l]

\* Any transaction of the library (EkSMBusReadByte, EkSMBusBlockRead, ...).
Begin(p) ==
    /\ pc[p] = "idle"
    /\ Goto(p, "pre")
    /\ tries' = [tries EXCEPT ![p] = 0]
    /\ only' = [only EXCEPT ![p] = 0]
    /\ got' = [got EXCEPT ![p] = None]
    /\ UNCHANGED <<regs, torn, crashes>>

\* PROC_IDX++ and the loop's test; a call whose polls are used up returns FALSE.
NextTry(p) ==
    /\ tries' = [tries EXCEPT ![p] = @ + 1]
    /\ Goto(p, IF tries[p] + 1 < PreTries THEN "pre" ELSE "idle")

\* Fault: a finished transfer that nobody fetched counts as a dead holder.
JudgeStealsFinished(p, s) ==
    \/ /\ "inuse" \notin s
       /\ Goto(p, "slave") /\ UNCHANGED <<tries, only>>
    \/ /\ "inuse" \in s /\ only[p] >= StealAfter
       /\ Goto(p, "steal") /\ UNCHANGED <<tries, only>>
    \/ /\ "inuse" \in s /\ only[p] < StealAfter
       /\ only' = [only EXCEPT ![p] = @ + 1] /\ NextTry(p)

\* Fault: the sightings are counted from zero in every round of the loop.
JudgeForgets(p, s) ==
    \/ /\ "inuse" \notin s
       /\ Goto(p, "slave") /\ UNCHANGED <<tries, only>>
    \/ /\ s = {"inuse"} /\ only[p] >= StealAfter
       /\ Goto(p, "steal") /\ UNCHANGED <<tries, only>>
    \/ /\ "inuse" \in s /\ ~(s = {"inuse"} /\ only[p] >= StealAfter)
       /\ only' = [only EXCEPT ![p] = 0] /\ NextTry(p)

\* What a poll of the status s leads to once the controller is not busy.
Judge(p, s) ==
    \/ /\ "inuse" \notin s
       /\ Goto(p, "slave") /\ UNCHANGED <<tries, only>>
    \/ /\ s = {"inuse"} /\ only[p] >= StealAfter
       /\ Goto(p, "steal") /\ UNCHANGED <<tries, only>>
    \/ /\ s = {"inuse"} /\ only[p] < StealAfter
       /\ only' = [only EXCEPT ![p] = @ + 1] /\ NextTry(p)
    \/ /\ "inuse" \in s /\ s # {"inuse"}
       /\ only' = [only EXCEPT ![p] = 0] /\ NextTry(p)

\* Fault: a poll of a busy controller is not counted.
PreReadUncounted(p) ==
    /\ pc[p] = "pre"
    /\ ReadSts
    /\ \/ "busy" \in sts /\ UNCHANGED <<pc, tries, only>>
       \/ /\ "busy" \notin sts /\ "err" \in sts
          /\ Goto(p, "kill") /\ UNCHANGED <<tries, only>>
       \/ "busy" \notin sts /\ "err" \notin sts /\ Judge(p, sts)
    /\ UNCHANGED <<slave, d0, job, got, torn, crashes>>

PreRead(p) ==
    /\ pc[p] = "pre"
    /\ ReadSts
    /\ \/ "busy" \in sts /\ NextTry(p) /\ UNCHANGED only
       \/ /\ "busy" \notin sts /\ "err" \in sts
          /\ Goto(p, "kill") /\ UNCHANGED <<tries, only>>
       \/ "busy" \notin sts /\ "err" \notin sts /\ Judge(p, sts)
    /\ UNCHANGED <<slave, d0, job, got, torn, crashes>>

PreKill(p) ==
    /\ pc[p] = "kill"
    /\ Kill /\ Goto(p, "wipe")
    /\ UNCHANGED <<slave, d0, tries, only, got, torn, crashes>>

PreWipe(p) ==
    /\ pc[p] = "wipe"
    /\ ClearSts(p) /\ Goto(p, "reread")
    /\ UNCHANGED <<slave, d0, job, tries, only, got, crashes>>

\* Fault: whoever has cleared an error takes the bus without a second look.
PreRereadBlind(p) ==
    /\ pc[p] = "reread"
    /\ ReadSts /\ Goto(p, "slave")
    /\ UNCHANGED <<slave, d0, job, tries, only, got, torn, crashes>>

\* The second look, which no longer asks whether the controller is busy.
PreReread(p) ==
    /\ pc[p] = "reread"
    /\ ReadSts /\ Judge(p, sts)
    /\ UNCHANGED <<slave, d0, job, got, torn, crashes>>

PreSteal(p) ==
    /\ pc[p] = "steal"
    /\ ClearSts(p)
    /\ only' = [only EXCEPT ![p] = 0] /\ NextTry(p)
    /\ UNCHANGED <<slave, d0, job, got, crashes>>

-----------------------------------------------------------------------------
(* The transaction, EkSMBusProc and EkSMBusExit                            *)

SetSlave(p) ==
    /\ pc[p] = "slave"
    /\ slave' = p /\ Goto(p, "data")
    /\ UNCHANGED <<sts, d0, job, tries, only, got, torn, crashes>>

\* The argument goes into the registers the answer comes back in.
SetData(p) ==
    /\ pc[p] = "data"
    /\ d0' = p /\ Goto(p, "start")
    /\ UNCHANGED <<sts, slave, job, tries, only, got, torn, crashes>>

\* START; a controller that is busy ignores it.
Start(p) ==
    /\ pc[p] = "start"
    /\ IF "busy" \in sts THEN UNCHANGED <<sts, job>>
       ELSE /\ sts' = sts \union {"busy"}
            /\ job' = <<slave, IF d0 \in Procs THEN d0 ELSE None>>
    /\ Goto(p, "proc") /\ tries' = [tries EXCEPT ![p] = 0]
    /\ UNCHANGED <<slave, d0, only, got, torn, crashes>>

\* STS_ERR, or STS_PROC_END under STS_PROC_MASK.
Ended(s) == "err" \in s \/ s \intersect {"inuse", "busy", "intr"} = {"inuse", "intr"}

\* Fault: EkSMBusExit leaves a transfer that has not ended running.
OutcomeNoKill(s) == IF "intr" \notin s \/ "err" \in s THEN "exitwipe" ELSE "fetch"

\* The status EkSMBusProc returns decides whether there is an answer to read
\* and whether EkSMBusExit kills the transfer.
Outcome(s) == IF "intr" \notin s THEN "exitkill"
              ELSE IF "err" \in s THEN "exitwipe" ELSE "fetch"

ProcRead(p) ==
    /\ pc[p] = "proc"
    /\ ReadSts
    /\ Ended(sts) \/ tries[p] + 1 < ProcTries \/ MayHang
    /\ tries' = [tries EXCEPT ![p] = @ + 1]
    /\ Goto(p, IF Ended(sts) \/ tries[p] + 1 = ProcTries THEN Outcome(sts) ELSE "proc")
    /\ UNCHANGED <<slave, d0, job, only, got, torn, crashes>>

Fetch(p) ==
    /\ pc[p] = "fetch"
    /\ got' = [got EXCEPT ![p] = d0] /\ Goto(p, "exitwipe")
    /\ UNCHANGED <<regs, tries, only, torn, crashes>>

ExitKill(p) ==
    /\ pc[p] = "exitkill"
    /\ Kill /\ Goto(p, "exitwipe")
    /\ UNCHANGED <<slave, d0, tries, only, got, torn, crashes>>

ExitWipe(p) ==
    /\ pc[p] = "exitwipe"
    /\ ClearSts(p) /\ Goto(p, "idle")
    /\ UNCHANGED <<slave, d0, job, tries, only, got, crashes>>

\* EkDMCiSMBGetHST reads the registers and then clears INUSE, and only it: an
\* INTR beside it stays, and the next transfer seems to have ended.
PeekRead(p) ==
    /\ MayPeek /\ pc[p] = "idle"
    /\ ReadSts /\ Goto(p, "peek")
    /\ UNCHANGED <<slave, d0, job, tries, only, got, torn, crashes>>

PeekClear(p) ==
    /\ pc[p] = "peek"
    /\ sts' = sts \ {"inuse"}
    /\ torn' = (torn \/ NotHis(p) \/ "intr" \in sts)
    /\ Goto(p, "idle")
    /\ UNCHANGED <<slave, d0, job, tries, only, got, crashes>>

\* The program is killed in the middle of a call; the controller goes on.
Crash(p) ==
    /\ pc[p] # "idle" /\ crashes < MaxCrashes
    /\ crashes' = crashes + 1
    /\ Goto(p, "idle")
    /\ UNCHANGED <<regs, tries, only, got, torn>>

\* One step of a call that is under way.
Step(p) ==
    \/ PreRead(p) \/ PreKill(p) \/ PreWipe(p) \/ PreReread(p) \/ PreSteal(p)
    \/ SetSlave(p) \/ SetData(p) \/ Start(p)
    \/ ProcRead(p) \/ Fetch(p) \/ ExitKill(p) \/ ExitWipe(p) \/ PeekClear(p)

Next ==
    \/ HwDone \/ HwFail
    \/ \E p \in Procs : Begin(p) \/ PeekRead(p) \/ Step(p) \/ Crash(p)

Spec == Init /\ [][Next]_vars

\* The scheduler runs every program; nothing is assumed of the controller.
FairSpec == Spec /\ \A p \in Procs : WF_vars(Step(p))

-----------------------------------------------------------------------------

\* Until some program clears a bit that is not its own, the bit is a lock: no
\* two programs are between EkSMBusPre and EkSMBusExit at one time.
Exclusive ==
    ~torn => \A p, q \in Procs : p # q => ~(Holding(p) /\ Holding(q))

\* ... and what a call reads back answers its own command and argument, even
\* when programs are killed and transfers fail or hang.  A register dump breaks
\* this: it leaves an old INTR without INUSE, a transfer that hangs then ends as
\* if it had succeeded, and its late answer reaches the next program.
OwnAnswer ==
    ~torn /\ ~MayPeek => \A p \in Procs : got[p] \in {None, Own(p)}

\* The lock is broken in three places and never by EkSMBusExit: by the steal,
\* after more than StealAfter sightings of a lone INUSE; by the error path of a
\* poll; by a dump.  Where no transfer fails or hangs, nobody is killed and
\* nobody dumps, the steal alone is left.
Disturbed == MayFail \/ MayHang \/ MayPeek \/ MaxCrashes > 0
TornBy == [][~torn /\ torn' => \E p \in Procs :
    \/ pc[p] = "steal" /\ only[p] >= StealAfter
    \/ Disturbed /\ pc[p] \in {"wipe", "peek"}]_vars

\* A program killed after its transfer has ended leaves INUSE with INTR; no
\* poll takes that for a dead holder, and the bus stays lost to everybody.
Orphan ==
    /\ {"inuse", "intr"} \subseteq sts /\ "err" \notin sts /\ "busy" \notin sts
    /\ \A p \in Procs : pc[p] \in {"idle", "pre"}
OrphanStays == [][Orphan => Orphan']_vars

\* Killed before START it leaves INUSE alone: a call that is just polling gets
\* the bus for itself or for another.
Abandoned ==
    /\ sts = {"inuse"} /\ crashes = MaxCrashes
    /\ \A p \in Procs : pc[p] \in {"idle", "pre"}
    /\ \E p \in Procs : pc[p] = "pre" /\ tries[p] = 0
AbandonedRecovered == Abandoned ~> \E p \in Procs : Holding(p)

\* Every call returns, whatever the controller does or does not do.
CallReturns == \A p \in Procs : pc[p] # "idle" ~> pc[p] = "idle"

=============================================================================
