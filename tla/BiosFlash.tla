------------------------------- MODULE BiosFlash -------------------------------
(***************************************************************************)
(* The BIOS update of congatec's utility: checks the file against the      *)
(* board and against what the flash holds, unlocks the flash if more than  *)
(* the BIOS is updated, keeps the board's own data, writes block by block, *)
(* verifies, and locks again.  Every access to the flash goes through the  *)
(* CGOS library and may fail; the tool may be killed, and the power of the *)
(* board go.                                                               *)
(***************************************************************************)
EXTENDS Naturals, Sequences, FiniteSets, SequencesExt

CONSTANTS
    FlashScenes, \* one in each behaviour: the arguments, the file and the board
    FlashFaults, \* bound: calls that fail
    MaxRetries   \* how often the writing of a block is repeated

\* The flash in blocks: network data, controller data, and the BIOS in two.
Blocks == 1..4
BiosBlocks == 3..4
InfoBlock == 3      \* has the BIOS's name and the ID of what else it needs

-----------------------------------------------------------------------------
(* Arguments.                                                              *)

\* The flags each option adds and those it drops; a command is alone.
Adds == [file |-> {}, BP |-> {}, C |-> {"DELCMOS"}, NOC |-> {}, P |-> {"PRESERVE"},
    LAN |-> {"KEEP_LANAREAS"}, F |-> {"FORCE"}, D |-> {"ASK"}, NAOO |-> {}, AOO |-> {"AUTO_OFFON"},
    E |-> {"EXTD"}, EM |-> {"EXTD", "MANUF"}, EF |-> {"EXTD", "FEXTD"},
    EFM |-> {"EXTD", "FEXTD", "MANUF"}, EIL |-> {"ISLOCKED"}, EU |-> {"UNLOCK"},
    EUM |-> {"UNLOCK", "MANUF"}, EL |-> {"LOCK"}, ELM |-> {"LOCK", "MANUF"}]
Drops(a) == CASE a = "NOC" -> {"DELCMOS"} [] a = "NAOO" -> {"AUTO_OFFON"} [] OTHER -> {}
FlagsOf(args) == FoldLeft(LAMBDA fl, a : (fl \ Drops(a)) \cup Adds[a], {}, args)

\* What is assumed of a board: the kinds, a lock, and two network addresses.
ASSUME FlashAssumption == \A s \in FlashScenes :
    /\ s.board.kind \in {"none", "gbe", "DSA", "EHL"} /\ s.board.extd \in BOOLEAN
    /\ s.board.lock \in {"locked", "unlocked"} /\ s.board.bup \in BOOLEAN
    /\ s.board.mac = <<s.board.mac[1], s.board.mac[2]>>

-----------------------------------------------------------------------------

VARIABLES
    job,    \* the arguments of each run, file and board; never changes
    tool,   \* the tool: where it is, its flags, what it found, its buffer, what it said
    flash,  \* the flash parts: their blocks, the lock, the settings, the power
    spent   \* calls that failed, and runs

flashVars == <<job, tool, flash, spent>>

\* What a block holds: of which image, and the network addresses in it.  The
\* boards keep these in the first block, in both of the first two (each of two
\* network controllers), or in the BIOS.
MacBlocks(kind) == CASE kind = "gbe" -> {1} [] kind = "DSA" -> {1, 2} [] kind = "EHL" -> {4} [] OTHER -> {}
Block(img, kind, b, mac) == [img |-> img, mac |-> IF b \in MacBlocks(kind) THEN mac ELSE <<>>]
Torn == [img |-> "none", mac |-> <<>>]
OldBlock(board, b) == Block("old", board.kind, b, board.mac)
FileBlock(board, b) == Block("new", board.kind, b, <<"other", "blank">>)

Idle == [at |-> "start", flags |-> {}, ext |-> FALSE, extd |-> FALSE, blk |-> 1, try |-> 0,
         buf |-> [b \in Blocks |-> Torn], had |-> [b \in Blocks |-> <<>>], closed |-> FALSE,
         misread |-> FALSE, said |-> {}, ret |-> "none"]

FlashInit ==
    /\ job \in FlashScenes
    /\ tool = Idle
    /\ flash = [blocks |-> [part \in 1..2 |-> [b \in Blocks |-> OldBlock(job.board, b)]], part |-> 1,
                lock |-> job.board.lock, next |-> job.board.lock, bup |-> job.board.bup,
                saved |-> FALSE, setup |-> "own", cmos |-> "good", power |-> "on"]
    /\ spent = [faults |-> 0, runs |-> 1]

Here == flash.blocks[flash.part]
Flag(f) == f \in tool.flags
Args == job.runs[spent.runs]

Go(at) == tool' = [tool EXCEPT !.at = at]
End(ret) == tool' = [tool EXCEPT !.at = "end", !.ret = ret]

\* A call of the library that may fail.
Works(ok) == /\ ok \/ spent.faults < FlashFaults
             /\ spent' = IF ok THEN spent ELSE [spent EXCEPT !.faults = @ + 1]
Still == UNCHANGED <<job, flash>>
At(at) == tool.at = at /\ flash.power # "off"

-----------------------------------------------------------------------------
(* The command: write protection, sizes, and what needs no file.           *)

Start(ok) ==
    /\ At("start") /\ Works(ok)
    /\ IF ok THEN tool' = [tool EXCEPT !.at = "bup", !.flags = FlagsOf(Args)] ELSE End("access")
    /\ Still

\* The protection is taken off with the password, until the next boot; alone
\* on the command line that is all.  A question that fails is answered like a
\* protection that is off.
AskedAlone == Args[1] = "BP"

AskProtection(ok) ==
    /\ At("bup")
    /\ IF "BP" \notin ToSet(Args) THEN ok /\ Go("protected") /\ UNCHANGED spent
       ELSE /\ Works(ok)
            /\ IF ok /\ flash.bup THEN Go("password")
               ELSE IF AskedAlone THEN End("error") ELSE Go("protected")
    /\ Still

Password(ok) ==
    /\ At("password") /\ (ok => job.password)
    /\ IF job.password THEN Works(ok) ELSE UNCHANGED spent
    /\ IF ~ok THEN End("error") ELSE IF AskedAlone THEN End("ok") ELSE Go("protected")
    /\ flash' = [flash EXCEPT !.bup = @ /\ ~ok]
    /\ UNCHANGED job

Protected(ok) ==
    /\ At("protected") /\ Works(ok)
    /\ IF ok /\ flash.bup THEN End("error") ELSE Go("size")
    /\ Still

FlashSize(ok) ==
    /\ At("size") /\ Works(ok)
    /\ IF ok THEN Go("extdsize") ELSE End("interface")
    /\ Still

\* A part beyond the BIOS counts as absent when it cannot be read now.
ExtdSize(ok) ==
    /\ At("extdsize") /\ Works(ok)
    /\ tool' = [tool EXCEPT !.at = "name", !.ext = ok /\ job.board.extd]
    /\ Still

BoardName(ok) ==
    /\ At("name") /\ Works(ok)
    /\ IF ok THEN Go("command") ELSE End("interface")
    /\ Still

\* Locking and unlocking take effect at the next power cycle, which a board may
\* be told to make; some unlock at once.  That is the controller's part.
Unlocked(cycle) == flash' = [flash EXCEPT !.next = "unlocked",
    !.lock = IF job.board.onfly /\ ~cycle THEN "unlocked" ELSE @,
    !.power = IF cycle THEN "cycling" ELSE @]
Locked(cycle) == flash' = [flash EXCEPT !.next = "locked", !.power = IF cycle THEN "cycling" ELSE @]

\* A question that fails is answered like an open lock.
IsLocked(ok) ==
    /\ At("command") /\ Flag("ISLOCKED") /\ Works(ok)
    /\ End(IF ok /\ flash.lock = "locked" THEN "locked" ELSE "unlocked")
    /\ Still

\* With a power cycle these do not come back; if they do, that is an error.
LockCommand(ok) ==
    LET cycle == ~Flag("MANUF") IN
    /\ At("command") /\ ~Flag("ISLOCKED") /\ (Flag("UNLOCK") \/ Flag("LOCK"))
    /\ IF ~tool.ext THEN ok /\ End("ok") /\ UNCHANGED <<flash, spent>>
       ELSE /\ Works(ok)
            /\ End(IF ok /\ ~cycle THEN "ok" ELSE "error")
            /\ IF ~ok THEN UNCHANGED flash
               ELSE IF Flag("UNLOCK") THEN Unlocked(cycle) ELSE Locked(cycle)
    /\ UNCHANGED job

\* The operator may switch to the other flash part before he goes on.
AskOperator(other) ==
    /\ At("command") /\ tool.flags \cap {"ISLOCKED", "UNLOCK", "LOCK"} = {}
    /\ (other => Flag("ASK"))
    /\ flash' = [flash EXCEPT !.part = IF other THEN 3 - @ ELSE @]
    /\ Go("check") /\ UNCHANGED <<job, spent>>

-----------------------------------------------------------------------------
(* The update: does the file fit, and is the flash open?                   *)

\* Everything the file tells by itself: a whole flash, only the BIOS, too short;
\* whether it is a BIOS of this project.
CheckFile ==
    LET file == job.file
        extd == Flag("EXTD") /\ tool.ext IN
    /\ At("check")
    /\ IF file.size = "absent" THEN End("file")
       ELSE IF file.size = "short" \/ (extd /\ file.size # "full") THEN End("size")
       ELSE IF ~file.bios THEN End("invalid")
       ELSE IF ~file.fits /\ ~Flag("FORCE") THEN End("incomp")
       ELSE tool' = [tool EXCEPT !.extd = extd, !.at = IF tool.ext THEN "compat" ELSE "read"]
    /\ Still /\ UNCHANGED spent

\* (mutant) a BIOS that is the same in what it needs is taken for granted.
CompatibleAnyhow(ok) ==
    /\ At("compat") /\ Works(ok)
    /\ LET extd == tool.extd /\ Flag("FEXTD") IN
       tool' = [tool EXCEPT !.extd = extd, !.at = IF extd THEN "lock" ELSE "read"]
    /\ Still

\* The BIOS in the flash tells whether what is beyond it is the same; if it
\* cannot be read or found, it is not.
Compatible(ok) ==
    LET img == Here[InfoBlock].img
        same == ok /\ (img = "new" \/ (img = "old" /\ job.file.compat)) IN
    /\ At("compat") /\ Works(ok)
    /\ IF ~same /\ ~tool.extd THEN End("incompExtd")
       ELSE LET extd == tool.extd /\ (~same \/ Flag("FEXTD")) IN
            tool' = [tool EXCEPT !.extd = extd, !.at = IF extd THEN "lock" ELSE "read"]
    /\ Still

LockState(ok) ==
    /\ At("lock") \/ At("lockAgain")
    /\ Works(ok)
    /\ Go(IF ~ok \/ flash.lock = "unlocked" THEN "read"
          ELSE IF tool.at = "lock" THEN "unlock" ELSE "unlockCycle")
    /\ Still

Unlock(ok) ==
    /\ At("unlock") /\ Works(ok)
    /\ IF ok THEN Go("lockAgain") /\ Unlocked(FALSE) ELSE End("unlock") /\ UNCHANGED flash
    /\ UNCHANGED job

\* Still locked: the unlocking is prepared for the next start.  When the board
\* is to restart at once the tool goes on until the power goes, with the file
\* already closed.
UnlockCycle(ok) ==
    /\ At("unlockCycle") /\ Works(ok)
    /\ IF ~ok THEN End("unlock") /\ UNCHANGED flash
       ELSE IF Flag("AUTO_OFFON")
       THEN tool' = [tool EXCEPT !.at = "read", !.closed = TRUE] /\ Unlocked(TRUE)
       ELSE End("notYet") /\ Unlocked(FALSE)
    /\ UNCHANGED job

\* The closed file cannot be read: an error, or a crash.
ReadFile(ok) ==
    /\ At("read") /\ (IF tool.closed THEN ~ok /\ UNCHANGED spent ELSE Works(ok))
    /\ IF ok THEN tool' = [tool EXCEPT !.at = "ehl",
                     !.buf = [b \in Blocks |-> FileBlock(job.board, b)],
                     !.had = [b \in Blocks |-> Here[b].mac]]
       ELSE End("file")
    /\ Still

-----------------------------------------------------------------------------
(* The board's network addresses are kept, if file and flash have a place  *)
(* for them; one that cannot be read is given up, or the update is.        *)

Places(b) == job.file.gbe /\ Here[b].img # "none" /\ tool.buf[b].mac # <<>>

\* In the BIOS: the number of ports also lands where its version belongs.
PatchEHL(ok) ==
    /\ At("ehl")
    /\ IF job.board.kind # "EHL" THEN ok /\ UNCHANGED spent ELSE Works(ok)
    /\ tool' = [tool EXCEPT !.at = "patch", !.misread = @ \/ ~ok,
          !.buf = IF ok /\ job.board.kind = "EHL" /\ Places(4)
                  THEN [@ EXCEPT ![4].mac = <<Here[4].mac[1], "ports">>] ELSE @]
    /\ Still

\* Of two copies the second counts, if it is valid; it goes where the first is.
Effective(mac) == IF mac[2] # "blank" THEN mac[2] ELSE mac[1]

\* What cannot be read: nothing, the layout, or an address.
Patch(lost) ==
    LET kind == job.board.kind
        place == kind = "gbe" /\ Places(1) IN
    /\ At("patch") /\ kind # "DSA"
    /\ IF ~tool.extd THEN lost = "nothing" /\ UNCHANGED spent ELSE Works(lost = "nothing")
    /\ (lost = "address" => place)
    /\ IF lost = "address" THEN End("error")
       ELSE tool' = [tool EXCEPT !.at = "save", !.misread = @ \/ lost # "nothing",
               !.buf = IF tool.extd /\ lost = "nothing" /\ place
                       THEN [@ EXCEPT ![1].mac[1] = Effective(Here[1].mac)] ELSE @]
    /\ Still

\* With two controllers both areas are kept, one after the other, or only the
\* addresses, which are all read first; where they are stands in the first.
PatchDSA(lost) ==
    LET both == MacBlocks("DSA")
        kept == IF lost = "address" THEN IF Flag("KEEP_LANAREAS") THEN {1} ELSE {}
                ELSE IF lost = "layout" \/ ~tool.extd \/ ~Places(1) THEN {} ELSE both IN
    /\ At("patch") /\ job.board.kind = "DSA"
    /\ IF ~tool.extd THEN lost = "nothing" /\ UNCHANGED spent ELSE Works(lost = "nothing")
    /\ (lost = "address" => Places(1))
    /\ tool' = [tool EXCEPT !.at = "save", !.misread = @ \/ lost # "nothing",
          !.buf = [b \in Blocks |-> IF b \in kept THEN [@[b] EXCEPT !.mac = Here[b].mac] ELSE @[b]]]
    /\ Still

\* The settings in the BIOS are saved by the BIOS itself.
SaveSetup(ok) ==
    /\ At("save") /\ (IF Flag("PRESERVE") THEN Works(ok) ELSE ok /\ UNCHANGED spent)
    /\ flash' = [flash EXCEPT !.saved = Flag("PRESERVE") /\ ok]
    /\ Go("blocksize") /\ UNCHANGED job

-----------------------------------------------------------------------------
(* Writing, block by block.                                                *)

\* Newer boards take large blocks, which they erase and verify themselves.
BlockSize(ok) ==
    /\ At("blocksize") /\ Works(ok)
    /\ tool' = [tool EXCEPT !.blk = IF tool.extd THEN 1 ELSE 3, !.try = 0,
                            !.at = IF ok /\ job.board.large THEN "writeLarge" ELSE "erase"]
    /\ Still

\* The flash refuses while it is protected, and the area that is the whole
\* flash while it is locked; else what it does may fail, half done.
Open == ~flash.bup /\ (tool.extd => flash.lock = "unlocked")
Tried(ok) == /\ ok => Open
             /\ IF Open THEN Works(ok) ELSE UNCHANGED spent
Put(v) == flash' = [flash EXCEPT !.blocks[flash.part][tool.blk] = v,
                                 !.setup = IF tool.blk \in BiosBlocks THEN "reset" ELSE @]
Spoilt == IF Open THEN Put(Torn) \/ UNCHANGED flash ELSE UNCHANGED flash

NextBlock(again, after) ==
    tool' = IF tool.blk = 4 THEN [tool EXCEPT !.at = after]
            ELSE [tool EXCEPT !.at = again, !.blk = @ + 1, !.try = 0]
Retry(again) == IF tool.try = MaxRetries THEN End("interface")
                ELSE tool' = [tool EXCEPT !.at = again, !.try = @ + 1]

\* If erasing fails the block is left as it is, for the verification to find.
EraseBlock(ok) ==
    /\ At("erase") /\ Tried(ok)
    /\ IF ok THEN Put(Torn) /\ Go("write")
       ELSE /\ Spoilt
            /\ IF tool.try = MaxRetries THEN End("interface") ELSE NextBlock("erase", "verify")
    /\ UNCHANGED job

WriteBlock(ok) ==
    /\ At("write") /\ Tried(ok)
    /\ IF ok THEN Put(tool.buf[tool.blk]) /\ NextBlock("erase", "verify")
       ELSE Spoilt /\ Retry("erase")
    /\ UNCHANGED job

WriteLarge(ok) ==
    /\ At("writeLarge") /\ Tried(ok)
    /\ IF ok THEN Put(tool.buf[tool.blk]) /\ NextBlock("writeLarge", "restore")
       ELSE Spoilt /\ Retry("writeLarge")
    /\ UNCHANGED job

\* (mutant) the BIOS read back is not compared.
VerifyNothing(ok) ==
    /\ At("verify") /\ Works(ok)
    /\ IF ok THEN Go("restore") ELSE End("interface")
    /\ Still

\* The BIOS is compared, of a whole flash too.
Verify(ok) ==
    /\ At("verify") /\ Works(ok)
    /\ IF ~ok THEN End("interface")
       ELSE IF \A b \in BiosBlocks : Here[b] = tool.buf[b] THEN Go("restore") ELSE End("error")
    /\ Still

\* What fails from here on is only told.  Settings that were not saved are not
\* brought back by restoring them.
Restore(ok) ==
    /\ At("restore") /\ (IF Flag("PRESERVE") THEN Works(ok) ELSE ok /\ UNCHANGED spent)
    /\ LET kept == Flag("PRESERVE") /\ ok /\ flash.saved IN
       /\ flash' = [flash EXCEPT !.setup = IF kept THEN "own" ELSE @]
       /\ tool' = [tool EXCEPT !.at = "cmos", !.said = @ \cup IF kept THEN {"kept"} ELSE {}]
    /\ UNCHANGED job

\* The CMOS is invalidated in three calls; the first is enough.
Cmos(calls) ==
    /\ At("cmos")
    /\ IF Flag("DELCMOS") THEN Works(calls = 3) ELSE calls = 0 /\ UNCHANGED spent
    /\ flash' = [flash EXCEPT !.cmos = IF calls > 0 THEN "invalid" ELSE @]
    /\ tool' = [tool EXCEPT !.said = @ \cup {"updated"}, !.at = IF tool.extd THEN "relock" ELSE "end",
                            !.ret = IF tool.extd THEN @ ELSE "ok"]
    /\ UNCHANGED job

Relock(ok) ==
    /\ At("relock") /\ Works(ok)
    /\ End(IF ok THEN "ok" ELSE "lock")
    /\ IF ok THEN Locked(Flag("AUTO_OFFON") /\ ~Flag("MANUF")) ELSE UNCHANGED flash
    /\ UNCHANGED job

-----------------------------------------------------------------------------
(* The tool is killed, the power goes, and the tool is run again.          *)

Kill ==
    /\ tool.at # "end" /\ flash.power # "off"
    /\ End("killed") /\ Still /\ UNCHANGED spent

PowerCycle ==
    /\ flash.power # "off" /\ (flash.power = "cycling" \/ spent.runs < Len(job.runs))
    /\ (IF tool.at = "end" THEN UNCHANGED tool ELSE End("killed"))
    /\ flash' = [flash EXCEPT !.lock = flash.next, !.bup = job.board.bup,
          !.power = IF \A b \in BiosBlocks : Here[b].img # "none" THEN "on" ELSE "off"]
    /\ UNCHANGED <<job, spent>>

Rerun ==
    /\ tool.at = "end" /\ spent.runs < Len(job.runs) /\ flash.power = "on"
    /\ tool' = Idle
    /\ spent' = [spent EXCEPT !.runs = @ + 1]
    /\ Still

Prepare(ok) == \/ Start(ok) \/ AskProtection(ok) \/ Password(ok) \/ Protected(ok)
               \/ FlashSize(ok) \/ ExtdSize(ok) \/ BoardName(ok)
               \/ IsLocked(ok) \/ LockCommand(ok) \/ AskOperator(ok)
Update(ok) == \/ Compatible(ok) \/ LockState(ok) \/ Unlock(ok) \/ UnlockCycle(ok)
              \/ ReadFile(ok) \/ PatchEHL(ok) \/ SaveSetup(ok) \/ BlockSize(ok)
              \/ EraseBlock(ok) \/ WriteBlock(ok) \/ WriteLarge(ok) \/ Verify(ok)
              \/ Restore(ok) \/ Relock(ok)

FlashNext == \/ \E ok \in BOOLEAN : Prepare(ok) \/ Update(ok)
             \/ CheckFile
             \/ \E lost \in {"nothing", "layout", "address"} : Patch(lost) \/ PatchDSA(lost)
             \/ \E calls \in 0..3 : Cmos(calls)
             \/ Kill \/ PowerCycle \/ Rerun
FlashSpec == FlashInit /\ [][FlashNext]_flashVars

-----------------------------------------------------------------------------

\* Of an update that is told to be done: the BIOS in the flash is the file's;
\* where an address was none but it is, unless reading failed, or what says where
\* the second is had been lost before; the settings that were to be kept are; and
\* one that is told to be complete has the flash locked from the next start on.
\* (CG_BiosFlash)
MacOf(mac) == IF job.board.kind = "EHL" THEN mac[1] ELSE Effective(mac)
FlashTold ==
    /\ "updated" \in tool.said =>
           /\ \A b \in BiosBlocks : Here[b].img = FileBlock(job.board, b).img
           /\ job.file.gbe /\ ~tool.misread /\ (job.board.kind = "DSA" => tool.had[1] # <<>>) =>
                  \A b \in Blocks : tool.had[b] # <<>> /\ Here[b].mac # <<>>
                                       => MacOf(Here[b].mac) = MacOf(tool.had[b])
    /\ "kept" \in tool.said /\ tool.at # "start" => flash.setup = "own"
    /\ tool.ret = "ok" /\ tool.extd => flash.next = "locked"

\* Nothing is written but by an update whose file is a BIOS of this board, or is
\* forced; beyond the BIOS only if that was asked for; and, if no call failed,
\* the BIOS alone only if it goes with what else is in the flash, or that is no
\* longer of another version, also after an update that was cut short.
\* (CG_BiosFlash)
FlashTouched ==
    [][flash'.blocks # flash.blocks =>
          /\ job.file.bios /\ (job.file.fits \/ Flag("FORCE"))
          /\ tool.flags \cap {"ISLOCKED", "UNLOCK", "LOCK"} = {}
          /\ \A part \in 1..2, b \in Blocks : flash'.blocks[part][b] # flash.blocks[part][b] =>
                 part = flash.part /\ (b \in BiosBlocks \/ Flag("EXTD"))
          /\ spent.faults = 0 /\ job.board.extd /\ ~tool.extd =>
                 job.file.compat \/ \A b \in Blocks \ BiosBlocks : Here[b].img # "old"]_flashVars
=============================================================================
