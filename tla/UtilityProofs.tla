----------------------------- MODULE UtilityProofs -----------------------------
(***************************************************************************)
(* Proofs about congatec's utility: what the BIOS update tells and what it *)
(* touches, and what the module command leaves alone.                      *)
(***************************************************************************)
EXTENDS BiosFlash, BiosModules, TLAPS

-----------------------------------------------------------------------------
(* The BIOS update: the inductive invariant.                               *)

Addresses == {"other", "blank", "ports"} \cup {s.board.mac[i] : s \in FlashScenes, i \in 1..2}
Macs == {<<>>} \cup (Addresses \X Addresses)
BlockType == [img : {"old", "new", "none"}, mac : Macs]
Locks == {"locked", "unlocked"}
FlashType == [blocks : [1..2 -> [Blocks -> BlockType]], part : 1..2, lock : Locks, next : Locks,
              bup : BOOLEAN, saved : BOOLEAN, setup : {"own", "reset"}, cmos : {"good", "invalid"},
              power : {"on", "cycling", "off"}]

\* The stages of the tool: before the file is judged, while the flash is opened,
\* with the buffer being made, writing, and after it.
Asking == {"start", "bup", "password", "protected", "size", "extdsize", "name", "command", "check"}
Unlocking == {"lock", "lockAgain", "unlock", "unlockCycle"}
Patching == {"ehl", "patch", "save", "blocksize"}
Writing == {"erase", "write", "writeLarge"}
Closing == {"verify", "restore", "cmos", "relock"}
Holding == Patching \cup Writing \cup Closing
Judged == Unlocking \cup {"read"} \cup Holding
AllStages == Asking \cup {"compat"} \cup Judged \cup {"end"}

\* The types of the update's variables; of flags, retries and results nothing is needed.
ToolType == tool \in [at : AllStages, flags : {tool.flags}, ext : BOOLEAN, extd : BOOLEAN, blk : Blocks,
    try : {tool.try}, buf : [Blocks -> BlockType], had : [Blocks -> Macs],
    closed : BOOLEAN, misread : BOOLEAN, said : SUBSET {"kept", "updated"}, ret : {tool.ret}]
SpentType == [faults : Nat, runs : Nat]
FlashTypes ==
    /\ job \in FlashScenes
    /\ flash \in FlashType
    /\ ToolType
    /\ spent \in SpentType

Kind == job.board.kind
Area1 == IF tool.extd THEN Blocks ELSE BiosBlocks
Fine == spent.faults = 0 /\ job.board.extd

\* An erased block has no address, and a block without a place for one neither;
\* others have one, if it is not the second of two, which may have been lost.
Sure(b) == b \in MacBlocks(Kind) /\ (Kind = "DSA" => b = 1)
Parts == \A part \in 1..2, b \in Blocks :
    /\ flash.blocks[part][b].img = "none" \/ b \notin MacBlocks(Kind) => flash.blocks[part][b].mac = <<>>
    /\ flash.blocks[part][b].img # "none" /\ Sure(b) => flash.blocks[part][b].mac # <<>>

\* What was told, and at which stage it can have been.
Talk ==
    /\ tool.at \in Asking \cup {"compat"} => tool.said = {}
    /\ tool.at \in Asking => ~tool.extd
    /\ tool.at \in Judged \ {"cmos", "relock"} => tool.said = {}
    /\ "updated" \in tool.said => tool.at \in {"relock", "end"}
    /\ tool.at # "end" => tool.ret = "none"
    /\ tool.ret = "ok" /\ tool.extd => flash.next = "locked"
    /\ "kept" \in tool.said => flash.setup = "own"

\* What was found out before anything is written.
Admission ==
    /\ tool.at \in {"check", "compat"} \cup Judged => tool.flags \cap {"ISLOCKED", "UNLOCK", "LOCK"} = {}
    /\ tool.at \in {"compat"} \cup Judged =>
           /\ job.file.bios /\ (job.file.fits \/ Flag("FORCE"))
           /\ tool.extd => Flag("EXTD")
    /\ tool.at \in Unlocking => tool.extd
    /\ Fine /\ tool.at \in {"name", "command", "check"} => tool.ext
    /\ Fine /\ tool.at \in Judged /\ ~tool.extd =>
           job.file.compat \/ \A b \in {1, 2} : Here[b].img # "old"

\* The buffer: of the file, with the addresses the flash has.
Keeping == job.file.gbe /\ ~tool.misread /\ (Kind = "DSA" => tool.had[1] # <<>>)
Kept(b) == Keeping /\ tool.had[b] # <<>> /\ tool.buf[b].mac # <<>> =>
               MacOf(tool.buf[b].mac) = MacOf(tool.had[b])
Image ==
    /\ tool.at \in Holding =>
           \A b \in Blocks : /\ tool.buf[b].img = "new"
                             /\ b \notin MacBlocks(Kind) => tool.buf[b].mac = <<>>
                             /\ Sure(b) => tool.buf[b].mac # <<>>
    /\ tool.at \in Patching => \A b \in Blocks : tool.had[b] = Here[b].mac
    /\ tool.at \in {"ehl", "patch"} /\ Kind = "gbe" => tool.buf[1].mac[2] = "blank"
    /\ tool.at = "patch" /\ Kind = "EHL" => Kept(4)
    /\ tool.at \in Holding \ {"ehl", "patch"} => \A b \in Area1 : Kept(b)

\* The flash while it is written and afterwards.
Progress ==
    /\ tool.at \in Writing => tool.blk \in Area1
    /\ tool.at \in Writing \cup Closing =>
           \A b \in Blocks : \/ Here[b].mac \in {<<>>, tool.had[b]}
                             \/ b \in Area1 /\ Here[b].mac = tool.buf[b].mac
    /\ tool.at = "writeLarge" => \A b \in BiosBlocks : b < tool.blk => Here[b] = tool.buf[b]
    /\ tool.at \in {"restore", "cmos", "relock"} => \A b \in BiosBlocks : Here[b] = tool.buf[b]

\* The BIOS is the last to become new.
LastNew ==
    /\ \A part \in 1..2 : Fine /\ flash.blocks[part][InfoBlock].img = "new" =>
           job.file.compat \/ \A b \in {1, 2} : flash.blocks[part][b].img # "old"
    /\ Fine /\ tool.at \in Writing /\ tool.extd /\ Open =>
           \A b \in Blocks : b < tool.blk => Here[b].img # "old"

FlashInv == /\ FlashTypes /\ Parts /\ Talk /\ Admission /\ Image /\ Progress /\ LastNew
            /\ FlashTold

-----------------------------------------------------------------------------

USE DEF Blocks, BiosBlocks, InfoBlock

LEMMA FlashInitial == ASSUME FlashInit PROVE FlashInv
<1> DEFINE board == job.board
<1>0. /\ job \in FlashScenes /\ Kind \in {"none", "gbe", "DSA", "EHL"} /\ board.extd \in BOOLEAN
      /\ board.lock \in Locks /\ board.bup \in BOOLEAN /\ board.mac = <<board.mac[1], board.mac[2]>>
  BY FlashAssumption DEF FlashInit, Locks, Kind
<1>9. board.mac \in Addresses \X Addresses
  <2>1. board.mac[1] \in Addresses /\ board.mac[2] \in Addresses BY <1>0 DEF Addresses
  <2> QED BY <1>0, <2>1
<1>1. \A b \in Blocks : OldBlock(board, b) \in BlockType
  BY <1>9 DEF OldBlock, Block, BlockType, Macs
<1>2. \A b \in Blocks : /\ OldBlock(board, b).img = "old" /\ (b \notin MacBlocks(Kind) => OldBlock(board, b).mac = <<>>)
                        /\ b \in MacBlocks(Kind) => OldBlock(board, b).mac # <<>>
  BY <1>0 DEF OldBlock, Block, Kind
<1>3. \A part \in 1..2, b \in Blocks : flash.blocks[part][b] = OldBlock(board, b)
  BY DEF FlashInit
<1>4. FlashTypes
  BY <1>0, <1>1 DEF FlashInit, FlashTypes, FlashType, ToolType, SpentType, Idle, Torn, BlockType, Macs, Locks, AllStages, Asking
<1>5. Parts /\ LastNew
  BY <1>2, <1>3 DEF FlashInit, Parts, LastNew, Sure, Idle, Writing
<1>6. Talk /\ Admission /\ Image /\ Progress /\ FlashTold
  BY DEF FlashInit, Talk, Admission, Image, Progress, FlashTold, Idle, AllStages, Asking, Unlocking, Patching, Writing, Closing, Holding, Judged
<1> QED BY <1>4, <1>5, <1>6 DEF FlashInv

\* The end of a run, other than by success.
Calm == /\ job' = job /\ flash' \in FlashType /\ spent' \in SpentType /\ (Fine' => Fine)
        /\ flash'.blocks = flash.blocks

LEMMA EndStep ==
  ASSUME FlashInv, Calm, NEW r, r # "ok", tool' = [tool EXCEPT !.at = "end", !.ret = r],
         flash'.part = flash.part, flash'.setup = flash.setup, tool.at # "end"
  PROVE  FlashInv'
<1> USE DEF Calm
<1>1. FlashTypes' BY DEF FlashInv, FlashTypes, ToolType, AllStages
<1>2. /\ tool'.at = "end" /\ tool'.ret = r /\ tool'.said = tool.said /\ tool'.had = tool.had
      /\ tool'.misread = tool.misread
  BY DEF FlashInv, FlashTypes, ToolType
<1>3. Parts' /\ LastNew'
  BY <1>2 DEF FlashInv, Parts, LastNew, Kind, Sure, Fine, Here, Writing
<1>4. Talk'
  BY <1>2 DEF FlashInv, Talk, AllStages, Asking, Unlocking, Patching, Writing, Closing, Holding, Judged
<1>5. Admission' /\ Image' /\ Progress'
  BY <1>2 DEF Admission, Image, Progress, Asking, Unlocking, Patching, Writing, Closing, Holding, Judged
<1>6. FlashTold'
  BY <1>2 DEF FlashInv, FlashTold, Talk, Here, MacOf
<1> QED BY <1>1, <1>3, <1>4, <1>5, <1>6 DEF FlashInv

\* A step of the tool before the file is judged.
LEMMA AskStep ==
  ASSUME FlashInv, Calm, tool.at \in Asking, ToolType', tool'.at \in Asking \cup {"end"},
         tool'.said = tool.said, tool'.extd = tool.extd, tool'.at # "end" => tool'.ret = "none",
         tool'.at = "check" => tool'.flags \cap {"ISLOCKED", "UNLOCK", "LOCK"} = {},
         Fine' /\ tool'.at \in {"name", "command", "check"} => tool'.ext
  PROVE  FlashInv'
<1> USE DEF Calm
<1>1. FlashTypes' BY DEF FlashInv, FlashTypes
<1>2. tool.said = {} /\ ~tool.extd BY DEF FlashInv, Talk
<1>3. Parts' /\ LastNew'
  BY <1>2 DEF FlashInv, Parts, LastNew, Kind, Sure, Fine, Here, Writing, Asking
<1>4. Talk'
  BY <1>2 DEF FlashInv, Talk, AllStages, Asking, Unlocking, Patching, Writing, Closing, Holding, Judged
<1>5. Admission' /\ Image' /\ Progress'
  BY <1>2 DEF Admission, Image, Progress, Asking, Unlocking, Patching, Writing, Closing, Holding, Judged
<1>6. FlashTold'
  BY <1>2 DEF FlashInv, FlashTold
<1> QED BY <1>1, <1>3, <1>4, <1>5, <1>6 DEF FlashInv

LEMMA WorksFine ==
  ASSUME spent \in SpentType, NEW ok \in BOOLEAN, Works(ok)
  PROVE  spent' \in SpentType /\ (spent'.faults = 0 => spent.faults = 0 /\ ok)
BY DEF Works, SpentType

\* What moving on and ending leave as it was.
SameBut(at) == /\ tool'.at = at /\ tool'.said = tool.said /\ tool'.extd = tool.extd /\ tool'.ext = tool.ext
               /\ tool'.flags = tool.flags /\ tool'.buf = tool.buf /\ tool'.had = tool.had
               /\ tool'.misread = tool.misread /\ tool'.blk = tool.blk
LEMMA GoFacts == ASSUME ToolType, NEW at \in AllStages, Go(at)
                 PROVE  ToolType' /\ SameBut(at) /\ tool'.ret = tool.ret
BY DEF Go, ToolType, SameBut

LEMMA EndFacts == ASSUME ToolType, NEW ret, End(ret)
                  PROVE  ToolType' /\ SameBut("end") /\ tool'.ret = ret
BY DEF End, ToolType, SameBut, AllStages

LEMMA PrepareStep == ASSUME FlashInv, NEW ok \in BOOLEAN, Prepare(ok) PROVE FlashInv'
<1> USE DEF FlashInv, FlashTypes, Still, At
<1>0. tool.at \in Asking => tool.said = {} /\ ~tool.extd /\ tool.ret = "none"
  BY DEF Talk, Asking
<1>11. Works(ok) => spent' \in SpentType /\ (spent'.faults = 0 => spent.faults = 0 /\ ok)
  BY WorksFine
<1>12. \A at \in Asking : Go(at) => ToolType' /\ SameBut(at) /\ tool'.ret = tool.ret
  BY GoFacts DEF AllStages
<1>13. \A ret : End(ret) => ToolType' /\ SameBut("end")
  BY EndFacts
<1>1. CASE Start(ok)
  <2>1. Calm /\ tool.at \in Asking BY <1>1, <1>11 DEF Start, Calm, Fine, Asking
  <2>2. ToolType' BY <1>1, <1>11, <1>12, <1>13 DEF Start, ToolType, SameBut, Asking, AllStages
  <2>3. tool'.at \in {"bup", "end"} /\ tool'.said = tool.said /\ tool'.extd = tool.extd /\ (tool'.at # "end" => tool'.ret = tool.ret)
    BY <1>1, <1>11, <1>12, <1>13 DEF Start, ToolType, SameBut, Asking
  <2> QED BY <1>0, <2>1, <2>2, <2>3, AskStep DEF Asking
<1>2. CASE AskProtection(ok)
  <2>1. Calm /\ tool.at \in Asking BY <1>2, <1>11 DEF AskProtection, Calm, Fine, Asking
  <2>2. ToolType' BY <1>2, <1>11, <1>12, <1>13 DEF AskProtection, ToolType, SameBut, Asking
  <2>3. tool'.at \in {"password", "protected", "end"} /\ tool'.said = tool.said /\ tool'.extd = tool.extd /\ (tool'.at # "end" => tool'.ret = tool.ret)
    BY <1>2, <1>11, <1>12, <1>13 DEF AskProtection, ToolType, SameBut, Asking
  <2> QED BY <1>0, <2>1, <2>2, <2>3, AskStep DEF Asking
<1>3. CASE Password(ok)
  <2>1. Calm /\ tool.at \in Asking
    <3>1. flash' \in FlashType /\ flash'.blocks = flash.blocks BY <1>3 DEF Password, FlashType
    <3> QED BY <1>3, <1>11, <3>1 DEF Password, Calm, Fine, Asking
  <2>2. ToolType' BY <1>3, <1>11, <1>12, <1>13 DEF Password, ToolType, SameBut, Asking
  <2>3. tool'.at \in {"protected", "end"} /\ tool'.said = tool.said /\ tool'.extd = tool.extd /\ (tool'.at # "end" => tool'.ret = tool.ret)
    BY <1>3, <1>11, <1>12, <1>13 DEF Password, ToolType, SameBut, Asking
  <2> QED BY <1>0, <2>1, <2>2, <2>3, AskStep DEF Asking
<1>4. CASE Protected(ok)
  <2>1. Calm /\ tool.at \in Asking BY <1>4, <1>11 DEF Protected, Calm, Fine, Asking
  <2>2. ToolType' BY <1>4, <1>11, <1>12, <1>13 DEF Protected, ToolType, SameBut, Asking
  <2>3. tool'.at \in {"size", "end"} /\ tool'.said = tool.said /\ tool'.extd = tool.extd /\ (tool'.at # "end" => tool'.ret = tool.ret)
    BY <1>4, <1>11, <1>12, <1>13 DEF Protected, ToolType, SameBut, Asking
  <2> QED BY <1>0, <2>1, <2>2, <2>3, AskStep DEF Asking
<1>5. CASE FlashSize(ok)
  <2>1. Calm /\ tool.at \in Asking BY <1>5, <1>11 DEF FlashSize, Calm, Fine, Asking
  <2>2. ToolType' BY <1>5, <1>11, <1>12, <1>13 DEF FlashSize, ToolType, SameBut, Asking
  <2>3. tool'.at \in {"extdsize", "end"} /\ tool'.said = tool.said /\ tool'.extd = tool.extd /\ (tool'.at # "end" => tool'.ret = tool.ret)
    BY <1>5, <1>11, <1>12, <1>13 DEF FlashSize, ToolType, SameBut, Asking
  <2> QED BY <1>0, <2>1, <2>2, <2>3, AskStep DEF Asking
<1>6. CASE ExtdSize(ok)
  <2>1. Calm /\ tool.at \in Asking BY <1>6, <1>11 DEF ExtdSize, Calm, Fine, Asking
  <2>4. job.board.extd \in BOOLEAN BY FlashAssumption
  <2>2. ToolType' BY <1>6, <2>4 DEF ExtdSize, ToolType, AllStages, Asking
  <2>3. /\ tool'.at = "name" /\ tool'.said = tool.said /\ tool'.extd = tool.extd /\ tool'.ret = tool.ret
        /\ Fine' => tool'.ext
    BY <1>6, <1>11 DEF ExtdSize, ToolType, Fine
  <2> QED BY <1>0, <2>1, <2>2, <2>3, AskStep DEF Asking
<1>7. CASE BoardName(ok)
  <2>1. Calm /\ tool.at \in Asking BY <1>7, <1>11 DEF BoardName, Calm, Fine, Asking
  <2>2. ToolType' BY <1>7, <1>11, <1>12, <1>13 DEF BoardName, ToolType, SameBut, Asking
  <2>3. tool'.at \in {"command", "end"} /\ tool'.said = tool.said /\ tool'.extd = tool.extd
        /\ (tool'.at # "end" => tool'.ret = tool.ret) /\ tool'.ext = tool.ext /\ tool.at = "name"
    BY <1>7, <1>11, <1>12, <1>13 DEF BoardName, ToolType, SameBut, Asking
  <2> QED BY <1>0, <2>1, <2>2, <2>3, AskStep DEF Asking, Admission, Calm, Fine
<1>8. CASE IsLocked(ok)
  <2>1. Calm /\ tool.at \in Asking BY <1>8, <1>11 DEF IsLocked, Calm, Fine, Asking
  <2>2. ToolType' BY <1>8, <1>11, <1>12, <1>13 DEF IsLocked, ToolType, SameBut, Asking
  <2>3. tool'.at = "end" /\ tool'.said = tool.said /\ tool'.extd = tool.extd
    BY <1>8, <1>11, <1>12, <1>13 DEF IsLocked, ToolType, SameBut, Asking
  <2> QED BY <1>0, <2>1, <2>2, <2>3, AskStep DEF Asking
<1>9. CASE LockCommand(ok)
  <2>1. Calm /\ tool.at \in Asking
    <3>1. flash' \in FlashType /\ flash'.blocks = flash.blocks BY <1>9 DEF LockCommand, FlashType, Unlocked, Locked, Locks
    <3> QED BY <1>9, <1>11, <3>1 DEF LockCommand, Calm, Fine, Asking
  <2>2. ToolType' BY <1>9, <1>11, <1>12, <1>13 DEF LockCommand, ToolType, SameBut, Asking
  <2>3. tool'.at = "end" /\ tool'.said = tool.said /\ tool'.extd = tool.extd
    BY <1>9, <1>11, <1>12, <1>13 DEF LockCommand, ToolType, SameBut, Asking
  <2> QED BY <1>0, <2>1, <2>2, <2>3, AskStep DEF Asking
<1>10. CASE AskOperator(ok)
  <2>1. Calm /\ tool.at \in Asking
    <3>1. flash' \in FlashType /\ flash'.blocks = flash.blocks BY <1>10 DEF AskOperator, FlashType
    <3> QED BY <1>10, <3>1 DEF AskOperator, Calm, Fine, Asking
  <2>2. ToolType' BY <1>10, <1>11, <1>12, <1>13 DEF AskOperator, ToolType, SameBut, Asking
  <2>3. /\ tool.at = "command" /\ tool'.at = "check" /\ tool'.said = tool.said /\ tool'.extd = tool.extd /\ tool'.ret = tool.ret
        /\ tool'.ext = tool.ext /\ tool'.flags \cap {"ISLOCKED", "UNLOCK", "LOCK"} = {}
    BY <1>10, <1>11, <1>12, <1>13 DEF AskOperator, ToolType, SameBut, Asking
  <2> QED BY <1>0, <2>1, <2>2, <2>3, AskStep DEF Asking, Admission, Calm, Fine
<1> QED BY <1>1, <1>2, <1>3, <1>4, <1>5, <1>6, <1>7, <1>8, <1>9, <1>10 DEF Prepare

\* A step of the tool from the judgement of the file until it is read.
LEMMA JudgeStep ==
  ASSUME FlashInv, Calm, flash'.part = flash.part, flash'.setup = flash.setup,
         tool.at \in {"check", "compat"} \cup Unlocking, tool'.at \in {"compat", "read"} \cup Unlocking,
         ToolType', tool'.said = tool.said, tool'.ret = tool.ret, Admission'
  PROVE  FlashInv'
<1> USE DEF Calm
<1>1. FlashTypes' BY DEF FlashInv, FlashTypes
<1>2. tool.said = {} /\ tool.ret = "none"
  BY DEF FlashInv, Talk, Asking, Judged, Unlocking
<1>3. Parts' /\ LastNew'
  BY <1>2 DEF FlashInv, Parts, LastNew, Kind, Sure, Fine, Here, Writing, Unlocking
<1>4. Talk'
  BY <1>2 DEF Talk, Asking, Unlocking
<1>5. Image' /\ Progress'
  BY DEF Image, Progress, Unlocking, Patching, Writing, Closing, Holding
<1>6. FlashTold'
  BY <1>2 DEF FlashTold
<1> QED BY <1>1, <1>3, <1>4, <1>5, <1>6 DEF FlashInv

LEMMA CheckStep == ASSUME FlashInv, CheckFile PROVE FlashInv'
<1> USE DEF FlashInv, FlashTypes
<1> DEFINE extd == Flag("EXTD") /\ tool.ext
           at == IF tool.ext THEN "compat" ELSE "read"
<1> HIDE DEF extd, at
<1>1. Calm /\ tool.at = "check" /\ flash' = flash BY DEF CheckFile, Calm, At, Still, Fine
<1>2. extd \in BOOLEAN BY DEF extd, ToolType
<1>3. CASE \E r \in {"file", "size", "invalid", "incomp"} : End(r)
  <2>1. PICK r \in {"file", "size", "invalid", "incomp"} : End(r) BY <1>3
  <2> QED BY <1>1, <2>1, EndStep DEF End
<1>4. CASE /\ tool' = [tool EXCEPT !.extd = extd, !.at = at]
           /\ job.file.bios /\ (job.file.fits \/ Flag("FORCE"))
  <2>1. at \in {"compat", "read"} /\ (at = "read" => ~tool.ext) BY DEF at
  <2>2. at \in AllStages BY <2>1 DEF AllStages, Judged
  <2>3. ToolType' /\ tool'.said = tool.said /\ tool'.ret = tool.ret /\ tool'.flags = tool.flags /\ tool'.at = at
        /\ tool'.extd = extd
    BY <1>2, <1>4, <2>2 DEF ToolType
  <2>4. Admission'
    BY <1>1, <1>4, <2>1, <2>3 DEF Admission, extd, Flag, Fine, Calm, Unlocking, Judged, Holding, Patching, Writing, Closing
  <2> QED BY <1>1, <2>1, <2>3, <2>4, JudgeStep
<1> QED BY <1>3, <1>4 DEF CheckFile, extd, at

LEMMA CompatibleStep == ASSUME FlashInv, NEW ok \in BOOLEAN, Compatible(ok) PROVE FlashInv'
<1> USE DEF FlashInv, FlashTypes
<1> DEFINE img == Here[InfoBlock].img
           same == ok /\ (img = "new" \/ (img = "old" /\ job.file.compat))
           extd == tool.extd /\ (~same \/ Flag("FEXTD"))
           at == IF extd THEN "lock" ELSE "read"
<1> HIDE DEF img, same, extd, at
<1>1. Calm /\ tool.at = "compat" /\ flash' = flash /\ (spent'.faults = 0 => spent.faults = 0 /\ ok)
  BY WorksFine DEF Compatible, Calm, At, Still, Fine
<1>2. extd \in BOOLEAN BY DEF extd, ToolType
<1>3. CASE End("incompExtd")
  BY <1>1, <1>3, EndStep DEF End
<1>4. CASE tool' = [tool EXCEPT !.extd = extd, !.at = at] /\ (same \/ tool.extd)
  <2>1. at \in {"lock", "read"} /\ (at = "lock" => extd) BY DEF at
  <2>2. at \in AllStages BY <2>1 DEF AllStages, Judged, Unlocking
  <2>3. ToolType' /\ tool'.said = tool.said /\ tool'.ret = tool.ret /\ tool'.flags = tool.flags /\ tool'.at = at
        /\ tool'.extd = extd
    BY <1>2, <1>4, <2>2 DEF ToolType
  <2>4. ASSUME Fine', ~extd PROVE job.file.compat \/ \A b \in {1, 2} : Here[b].img # "old"
    <3>1. same BY <1>4, <2>4 DEF extd
    <3>2. Fine BY <1>1, <2>4 DEF Calm
    <3>3. flash.part \in 1..2 BY DEF FlashType
    <3> QED BY <3>1, <3>2, <3>3 DEF same, img, LastNew, Here
  <2>5. Admission'
    <3>1. flash'.blocks = flash.blocks /\ flash'.part = flash.part /\ job' = job BY <1>1 DEF Calm
    <3>2. extd => tool.extd BY DEF extd
    <3>3. Here' = Here BY <3>1 DEF Here
    <3> QED BY <1>1, <2>1, <2>3, <2>4, <3>1, <3>2, <3>3 DEF Admission, Flag, Unlocking
  <2> QED BY <1>1, <2>1, <2>3, <2>5, JudgeStep DEF Unlocking
<1> QED BY <1>3, <1>4 DEF Compatible, extd, at, same, img

LEMMA UnlockStep == ASSUME FlashInv, NEW ok \in BOOLEAN, LockState(ok) \/ Unlock(ok) \/ UnlockCycle(ok)
                    PROVE  FlashInv'
<1> USE DEF FlashInv, FlashTypes
<1>1. Works(ok) /\ tool.at \in Unlocking /\ job' = job
  BY DEF LockState, Unlock, UnlockCycle, At, Unlocking, Still
<1>2. spent' \in SpentType /\ (spent'.faults = 0 => spent.faults = 0 /\ ok) BY <1>1, WorksFine
<1>3. flash' \in FlashType /\ flash'.blocks = flash.blocks /\ flash'.part = flash.part /\ flash'.setup = flash.setup
  BY DEF LockState, Unlock, UnlockCycle, FlashType, Unlocked, Still, Locks
<1>4. Calm BY <1>1, <1>2, <1>3 DEF Calm, Fine
<1>5. tool.extd BY <1>1 DEF Admission
<1>6. CASE \E r \in {"unlock", "notYet"} : End(r)
  <2>1. PICK r \in {"unlock", "notYet"} : End(r) BY <1>6
  <2> QED BY <1>1, <1>3, <1>4, <2>1, EndStep DEF End, Unlocking
<1>7. CASE /\ tool'.at \in {"lockAgain", "read", "unlock", "unlockCycle"} /\ ToolType' /\ tool'.said = tool.said
           /\ tool'.ret = tool.ret /\ tool'.flags = tool.flags /\ tool'.extd = tool.extd
  <2>1. Admission'
    BY <1>1, <1>3, <1>4, <1>5, <1>7 DEF Admission, Flag, Calm, Unlocking, Judged
  <2> QED BY <1>1, <1>3, <1>4, <1>7, <2>1, JudgeStep DEF Unlocking
<1>8. ToolType BY DEF FlashTypes
<1>9. {"lockAgain", "read", "unlock", "unlockCycle"} \subseteq AllStages BY DEF AllStages, Judged, Unlocking
<1>10. CASE LockState(ok)
  <2>1. PICK at \in {"read", "unlock", "unlockCycle"} : Go(at) BY <1>10 DEF LockState
  <2> QED BY <1>7, <1>8, <1>9, <2>1, GoFacts DEF SameBut
<1>11. CASE Unlock(ok)
  <2>1. Go("lockAgain") \/ End("unlock") BY <1>11 DEF Unlock
  <2> QED BY <1>6, <1>7, <1>8, <1>9, <2>1, GoFacts DEF SameBut
<1>12. CASE UnlockCycle(ok)
  <2>1. tool' = [tool EXCEPT !.at = "read", !.closed = TRUE] \/ End("unlock") \/ End("notYet")
    BY <1>12 DEF UnlockCycle
  <2> QED BY <1>6, <1>7, <1>8, <1>9, <2>1 DEF ToolType
<1> QED BY <1>10, <1>11, <1>12

\* A step of the tool on its buffer.
LEMMA PatchStep ==
  ASSUME FlashInv, Calm, flash'.part = flash.part, flash'.setup = flash.setup,
         tool.at \in {"read"} \cup Patching, tool'.at \in Patching, ToolType',
         tool'.said = tool.said, tool'.ret = tool.ret, tool'.flags = tool.flags, tool'.extd = tool.extd, Image'
  PROVE  FlashInv'
<1> USE DEF Calm
<1>1. FlashTypes' BY DEF FlashInv, FlashTypes
<1>2. tool.said = {} /\ tool.ret = "none"
  BY DEF FlashInv, Talk, Judged, Holding, Patching
<1>3. Parts' /\ LastNew'
  BY <1>2 DEF FlashInv, Parts, LastNew, Kind, Sure, Fine, Here, Writing, Patching
<1>4. Talk'
  BY <1>2 DEF Talk, Asking, Patching
<1>5. Admission'
  <2>1. Here' = Here BY DEF Here
  <2> QED BY <2>1 DEF FlashInv, Admission, Flag, Judged, Holding, Patching, Unlocking
<1>6. Progress'
  BY DEF Progress, Patching, Writing, Closing
<1>7. FlashTold'
  BY <1>2 DEF FlashTold
<1> QED BY <1>1, <1>3, <1>4, <1>5, <1>6, <1>7 DEF FlashInv

LEMMA ReadStep == ASSUME FlashInv, NEW ok \in BOOLEAN, ReadFile(ok) PROVE FlashInv'
<1> USE DEF FlashInv, FlashTypes
<1>1. Calm /\ tool.at = "read" /\ flash' = flash
  BY WorksFine DEF ReadFile, Calm, At, Still, Fine
<1>2. CASE End("file")
  BY <1>1, <1>2, EndStep DEF End
<1>3. CASE tool' = [tool EXCEPT !.at = "ehl", !.buf = [b \in Blocks |-> FileBlock(job.board, b)],
                                !.had = [b \in Blocks |-> Here[b].mac]]
  <2>1. \A b \in Blocks : /\ FileBlock(job.board, b) \in BlockType /\ FileBlock(job.board, b).img = "new"
                          /\ FileBlock(job.board, b).mac = IF b \in MacBlocks(Kind) THEN <<"other", "blank">> ELSE <<>>
    <3>1. <<"other", "blank">> \in Macs BY DEF Macs, Addresses
    <3> QED BY <3>1 DEF FileBlock, Block, BlockType, Macs, Kind
  <2>2. \A b \in Blocks : Here[b].mac \in Macs BY DEF Here, FlashType, BlockType
  <2>3. "ehl" \in AllStages BY DEF AllStages, Judged, Holding, Patching
  <2>4. /\ ToolType' /\ tool'.said = tool.said /\ tool'.ret = tool.ret /\ tool'.flags = tool.flags
        /\ tool'.extd = tool.extd /\ tool'.at = "ehl"
        /\ \A b \in Blocks : tool'.buf[b] = FileBlock(job.board, b) /\ tool'.had[b] = Here[b].mac
    BY <1>3, <2>1, <2>2, <2>3 DEF ToolType
  <2>5. Here' = Here /\ Kind' = Kind BY <1>1 DEF Here, Calm, Kind
  <2>6. <<"other", "blank">> # <<>> /\ <<"other", "blank">>[2] = "blank" /\ MacBlocks("gbe") = {1} BY DEF MacBlocks
  <2>7. Image'
    BY <2>1, <2>4, <2>5, <2>6 DEF Image, Patching, Sure
  <2> QED BY <1>1, <2>4, <2>7, PatchStep DEF Patching
<1> QED BY <1>2, <1>3 DEF ReadFile

LEMMA PatchEHLStep == ASSUME FlashInv, NEW ok \in BOOLEAN, PatchEHL(ok) PROVE FlashInv'
<1> USE DEF FlashInv, FlashTypes
<1> DEFINE put == ok /\ Kind = "EHL" /\ Places(4)
           mac == <<Here[4].mac[1], "ports">>
           buf == IF put THEN [tool.buf EXCEPT ![4].mac = mac] ELSE tool.buf
           misread == tool.misread \/ ~ok
<1>1. Calm /\ tool.at = "ehl" /\ flash' = flash
  BY WorksFine DEF PatchEHL, Calm, At, Still, Fine
<1>2. tool' = [tool EXCEPT !.at = "patch", !.misread = misread, !.buf = buf]
  BY DEF PatchEHL, Kind
<1>3. MacBlocks("EHL") = {4} /\ MacBlocks("DSA") = {1, 2} BY DEF MacBlocks
<1>4. \A b \in Blocks : Here[b] \in BlockType BY DEF Here, FlashType
<1>5. tool.buf \in [Blocks -> BlockType] /\ tool.had \in [Blocks -> Macs] BY DEF ToolType
<1>6. ASSUME put PROVE mac \in Macs /\ Here[4].mac # <<>>
  <2>1. Here[4].img # "none" /\ Sure(4) BY <1>3, <1>6 DEF Places, Sure
  <2>2. Here[4].mac # <<>> BY <2>1 DEF Parts, FlashType, Here
  <2>3. Here[4].mac \in Addresses \X Addresses BY <1>4, <2>2 DEF BlockType, Macs
  <2>4. Here[4].mac[1] \in Addresses /\ "ports" \in Addresses BY <2>3 DEF Addresses
  <2> QED BY <2>2, <2>4 DEF Macs
<1>7. /\ buf \in [Blocks -> BlockType] /\ \A b \in Blocks : buf[b].img = tool.buf[b].img
      /\ put => buf[4].mac = mac
      /\ \A b \in Blocks : ~(b = 4 /\ put) => buf[b] = tool.buf[b]
  BY <1>5, <1>6 DEF BlockType
<1> HIDE DEF put, mac, buf, misread
<1>8. misread \in BOOLEAN /\ "patch" \in AllStages BY DEF misread, ToolType, AllStages, Judged, Holding, Patching
<1>9. /\ ToolType' /\ tool'.said = tool.said /\ tool'.ret = tool.ret /\ tool'.flags = tool.flags
      /\ tool'.extd = tool.extd /\ tool'.at = "patch" /\ tool'.buf = buf /\ tool'.had = tool.had
      /\ tool'.misread = misread
  BY <1>2, <1>7, <1>8 DEF ToolType
<1>10. Here' = Here /\ Kind' = Kind BY <1>1 DEF Here, Calm, Kind
<1>11. \A b \in Blocks : /\ buf[b].img = "new" /\ (b \notin MacBlocks(Kind) => buf[b].mac = <<>>)
                         /\ Sure(b) => buf[b].mac # <<>>
  <2>1. put => Kind = "EHL" /\ mac # <<>> BY DEF put, mac
  <2> QED BY <1>1, <1>3, <1>7, <2>1 DEF Image, Holding, Patching
<1>14. Kind = "gbe" => buf[1].mac[2] = "blank"
  BY <1>1, <1>7 DEF Image, put
<1>12. ASSUME Kind = "EHL", Keeping', tool.had[4] # <<>>, buf[4].mac # <<>>
       PROVE  buf[4].mac[1] = tool.had[4][1]
  <2>1. tool.had[4] = Here[4].mac BY <1>1 DEF Image, Patching
  <2>2. ok /\ job.file.gbe BY <1>1, <1>9, <1>12 DEF Keeping, misread, Calm
  <2>3. Places(4)
    BY <1>1, <1>3, <1>12, <2>1, <2>2 DEF Places, Parts, Here, FlashType, Image, Holding, Patching, Sure
  <2>4. put BY <1>12, <2>2, <2>3 DEF put
  <2>5. buf[4].mac[1] = Here[4].mac[1] BY <1>7, <2>4 DEF mac
  <2> QED BY <2>1, <2>5
<1>13. Image'
  <2>1. Kind = "EHL" => Kept(4)' BY <1>9, <1>10, <1>12 DEF Kept, MacOf, Kind
  <2>2. \A b \in Blocks : tool.had[b] = Here[b].mac BY <1>1 DEF Image, Patching
  <2> QED BY <1>9, <1>10, <1>11, <1>14, <2>1, <2>2 DEF Image, Sure, Patching
<1> QED BY <1>1, <1>9, <1>13, PatchStep DEF Patching

\* What a step that makes the buffer ready has to show of it.
NewBuffer == \A b \in Blocks : /\ tool'.buf[b].img = "new" /\ (b \notin MacBlocks(Kind) => tool'.buf[b].mac = <<>>)
                               /\ Sure(b) => tool'.buf[b].mac # <<>>
NewKept == \A b \in Area1 :
    /\ b \in MacBlocks(Kind) /\ job.file.gbe /\ ~tool'.misread /\ (Kind = "DSA" => tool.had[1] # <<>>)
    /\ tool.had[b] # <<>> /\ tool'.buf[b].mac # <<>>
    => MacOf(tool'.buf[b].mac) = MacOf(tool.had[b])
LEMMA SaveStep ==
  ASSUME FlashInv, Calm, flash' = flash, tool.at = "patch", ToolType', tool'.at = "save",
         tool'.said = tool.said, tool'.ret = tool.ret, tool'.flags = tool.flags, tool'.extd = tool.extd,
         tool'.had = tool.had, tool.misread => tool'.misread,
         NewBuffer, NewKept
  PROVE  FlashInv'
<1> USE DEF FlashInv, FlashTypes
<1>3. Here' = Here /\ Kind' = Kind /\ Area1' = Area1 /\ job' = job BY DEF Here, Calm, Kind, Area1
<1>4. \A b \in Blocks : tool.had[b] = Here[b].mac /\ (b \notin MacBlocks(Kind) => tool.had[b] = <<>>)
  BY DEF Image, Patching, Parts, Here, FlashType
<1>5. ASSUME NEW b \in Area1 PROVE Kept(b)'
  <2>1. b \in Blocks BY DEF Area1
  <2>2. CASE b \notin MacBlocks(Kind)
    BY <1>4, <2>1, <2>2 DEF Kept
  <2>3. CASE b \in MacBlocks(Kind)
    BY <1>3, <2>3 DEF NewKept, Kept, Keeping, MacOf, Kind
  <2> QED BY <2>2, <2>3
<1>6. Image'
  <2>1. (\A b \in Area1 : Kept(b))' BY <1>3, <1>5
  <2>2. \A b \in Blocks : Sure(b)' = Sure(b) BY <1>3 DEF Sure
  <2>3. (\A b \in Blocks : tool.had[b] = Here[b].mac)' BY <1>3, <1>4
  <2>4. (\A b \in Blocks : /\ tool.buf[b].img = "new" /\ (b \notin MacBlocks(Kind) => tool.buf[b].mac = <<>>)
                           /\ Sure(b) => tool.buf[b].mac # <<>>)'
    BY <1>3 DEF Sure, NewBuffer
  <2> QED BY <2>1, <2>3, <2>4 DEF Image
<1> QED BY <1>6, PatchStep DEF Patching

LEMMA EffectivePair == ASSUME NEW m \in Addresses \X Addresses
                       PROVE  Effective(m) \in Addresses /\ Effective(<<Effective(m), "blank">>) = Effective(m)
BY DEF Effective

LEMMA PlainPatchStep == ASSUME FlashInv, NEW lost \in {"nothing", "layout", "address"}, Patch(lost) PROVE FlashInv'
<1> USE DEF FlashInv, FlashTypes
<1> DEFINE place == Kind = "gbe" /\ Places(1)
           put == tool.extd /\ lost = "nothing" /\ place
           old == Effective(Here[1].mac)
           buf == IF put THEN [tool.buf EXCEPT ![1].mac[1] = old] ELSE tool.buf
           misread == tool.misread \/ lost # "nothing"
<1>1. Calm /\ tool.at = "patch" /\ flash' = flash /\ Kind # "DSA"
  <2>1. (lost = "nothing") \in BOOLEAN OBVIOUS
  <2>2. Works(lost = "nothing") => spent' \in SpentType /\ (spent'.faults = 0 => spent.faults = 0)
    BY <2>1, WorksFine
  <2> QED BY <2>2 DEF Patch, Calm, At, Still, Fine, Kind
<1>2. CASE End("error")
  BY <1>1, <1>2, EndStep DEF End
<1>3. CASE tool' = [tool EXCEPT !.at = "save", !.misread = misread, !.buf = buf]
  <2>1. MacBlocks("EHL") = {4} /\ MacBlocks("gbe") = {1} /\ MacBlocks("none") = {} BY DEF MacBlocks
  <2>2. \A b \in Blocks : Here[b] \in BlockType BY DEF Here, FlashType
  <2>3. tool.buf \in [Blocks -> BlockType] /\ tool.had \in [Blocks -> Macs] BY DEF ToolType
  <2>4. \A b \in Blocks : /\ tool.buf[b].img = "new" /\ (b \notin MacBlocks(Kind) => tool.buf[b].mac = <<>>)
                          /\ Sure(b) => tool.buf[b].mac # <<>>
                          /\ tool.had[b] = Here[b].mac
    BY <1>1 DEF Image, Holding, Patching
  <2>5. Kind \in {"none", "gbe", "DSA", "EHL"} BY FlashAssumption DEF Kind
  <2>6. ASSUME put PROVE /\ Here[1].mac \in Addresses \X Addresses /\ Here[1].mac # <<>>
                         /\ tool.buf[1].mac \in Addresses \X Addresses
                         /\ Sure(1)
    <3>1. Sure(1) /\ Here[1].img # "none" BY <2>1, <2>6 DEF Sure, Places
    <3>2. Here[1].mac # <<>> BY <3>1 DEF Parts, Here, FlashType
    <3> HIDE DEF put
    <3>3. tool.buf[1].mac # <<>> BY <2>4, <3>1
    <3>4. Here[1].mac \in Macs /\ tool.buf[1].mac \in Macs BY <2>2, <2>3 DEF BlockType
    <3>5. Here[1].mac \in Addresses \X Addresses BY <3>2, <3>4 DEF Macs
    <3>6. tool.buf[1].mac \in Addresses \X Addresses BY <3>3, <3>4 DEF Macs
    <3> QED BY <3>1, <3>2, <3>5, <3>6
  <2>7. ASSUME put PROVE old \in Addresses
    <3>1. Here[1].mac \in Addresses \X Addresses BY <2>6, <2>7
    <3> QED BY <3>1, EffectivePair
  <2>8. /\ buf \in [Blocks -> BlockType] /\ \A b \in Blocks : buf[b].img = tool.buf[b].img
        /\ put => buf[1].mac = [tool.buf[1].mac EXCEPT ![1] = old]
        /\ \A b \in Blocks : ~(b = 1 /\ put) => buf[b] = tool.buf[b]
    <3>1. CASE put
      <4> HIDE DEF put, old
      <4>1. [tool.buf[1].mac EXCEPT ![1] = old] \in Addresses \X Addresses
        BY <2>6, <2>7, <3>1
      <4>2. [tool.buf[1].mac EXCEPT ![1] = old] \in Macs BY <4>1 DEF Macs
      <4> QED BY <2>3, <3>1, <4>1, <4>2 DEF BlockType
    <3>2. CASE ~put
      BY <2>3, <3>2
    <3> QED BY <3>1, <3>2
  <2> HIDE DEF put, buf, misread
  <2>9. misread \in BOOLEAN /\ "save" \in AllStages BY DEF misread, ToolType, AllStages, Judged, Holding, Patching
  <2>10. /\ ToolType' /\ tool'.said = tool.said /\ tool'.ret = tool.ret /\ tool'.flags = tool.flags
         /\ tool'.extd = tool.extd /\ tool'.at = "save" /\ tool'.buf = buf /\ tool'.had = tool.had
         /\ tool'.misread = misread
    BY <1>3, <2>8, <2>9 DEF ToolType
  <2>11. ASSUME NEW b \in Blocks
         PROVE  /\ buf[b].img = "new" /\ (b \notin MacBlocks(Kind) => buf[b].mac = <<>>)
                /\ Sure(b) => buf[b].mac # <<>>
    BY <2>4, <2>6, <2>8 DEF Sure
  <2>12. ASSUME NEW b \in Area1, b \in MacBlocks(Kind), job.file.gbe, ~misread, tool.had[b] # <<>>, buf[b].mac # <<>>
         PROVE  MacOf(buf[b].mac) = MacOf(tool.had[b])
    <3>1. CASE Kind = "EHL"
      <4>1. b = 4 /\ ~put BY <2>1, <2>12, <3>1 DEF put
      <4>2. buf[4] = tool.buf[4] /\ ~tool.misread BY <2>8, <2>12, <4>1 DEF misread
      <4> QED BY <1>1, <2>12, <3>1, <4>1, <4>2 DEF Image, Kept, Keeping
    <3>2. CASE Kind = "gbe"
      <4>1. b = 1 /\ tool.extd BY <2>1, <2>12, <3>2 DEF Area1
      <4>2. tool.had[1] = Here[1].mac BY <2>4
      <4>3. Sure(1) BY <2>1, <3>2 DEF Sure
      <4>4. Here[1].img # "none" /\ tool.buf[1].mac # <<>>
        BY <2>4, <2>12, <4>1, <4>2, <4>3 DEF Parts, FlashType, Here
      <4>5. put BY <2>12, <3>2, <4>1, <4>4 DEF put, misread, Places
      <4>6. Here[1].mac \in Addresses \X Addresses BY <2>6, <4>5
      <4>7. tool.buf[1].mac \in Addresses \X Addresses /\ tool.buf[1].mac[2] = "blank" BY <1>1, <2>6, <3>2, <4>5 DEF Image
      <4>8. buf[1].mac = <<old, "blank">>
        <5> HIDE DEF old
        <5> QED BY <2>8, <4>5, <4>7
      <4>9. Effective(buf[1].mac) = Effective(Here[1].mac) BY <4>6, <4>8, EffectivePair
      <4> QED BY <2>12, <3>2, <4>1, <4>2, <4>9 DEF MacOf, Kind
    <3>3. Kind # "none" BY <2>1, <2>12
    <3> QED BY <1>1, <2>5, <3>1, <3>2, <3>3
  <2>13. NewBuffer BY <2>10, <2>11 DEF NewBuffer
  <2>14. NewKept BY <2>10, <2>12 DEF NewKept
  <2> QED BY <1>1, <2>10, <2>13, <2>14, SaveStep DEF misread
<1> QED BY <1>2, <1>3 DEF Patch, Kind

LEMMA PatchDSAStep == ASSUME FlashInv, NEW lost \in {"nothing", "layout", "address"}, PatchDSA(lost) PROVE FlashInv'
<1> USE DEF FlashInv, FlashTypes
<1> DEFINE both == MacBlocks("DSA")
           kept == IF lost = "address" THEN IF Flag("KEEP_LANAREAS") THEN {1} ELSE {}
                   ELSE IF lost = "layout" \/ ~tool.extd \/ ~Places(1) THEN {} ELSE both
           buf == [b \in Blocks |-> IF b \in kept THEN [tool.buf[b] EXCEPT !.mac = Here[b].mac] ELSE tool.buf[b]]
           misread == tool.misread \/ lost # "nothing"
<1>1. Calm /\ tool.at = "patch" /\ flash' = flash /\ Kind = "DSA" /\ (lost = "address" => Places(1))
  <2>1. (lost = "nothing") \in BOOLEAN OBVIOUS
  <2>2. Works(lost = "nothing") => spent' \in SpentType /\ (spent'.faults = 0 => spent.faults = 0)
    BY <2>1, WorksFine
  <2> QED BY <2>2 DEF PatchDSA, Calm, At, Still, Fine, Kind
<1>2. both = {1, 2} BY DEF MacBlocks
<1>3. kept \subseteq {1, 2} /\ (1 \in kept => Places(1)) BY <1>1, <1>2
<1>4. tool' = [tool EXCEPT !.at = "save", !.misread = misread, !.buf = buf]
  BY DEF PatchDSA
<1>5. \A b \in Blocks : Here[b] \in BlockType /\ Here[b].mac \in Macs BY DEF Here, FlashType, BlockType
<1>6. tool.buf \in [Blocks -> BlockType] /\ tool.had \in [Blocks -> Macs] BY DEF ToolType
<1>7. \A b \in Blocks : /\ tool.buf[b].img = "new" /\ (b \notin MacBlocks(Kind) => tool.buf[b].mac = <<>>)
                        /\ Sure(b) => tool.buf[b].mac # <<>>
                        /\ tool.had[b] = Here[b].mac
  BY <1>1 DEF Image, Holding, Patching
<1>8. Sure(1) /\ (Here[1].img # "none" <=> Here[1].mac # <<>>)
  <2>1. Sure(1) BY <1>1, <1>2 DEF Sure
  <2> QED BY <2>1 DEF Parts, Here, FlashType
<1> HIDE DEF kept, both
<1>9. buf \in [Blocks -> BlockType]
  BY <1>5, <1>6 DEF BlockType
<1>10. \A b \in Blocks : /\ buf[b].img = "new"
                         /\ b \in kept => buf[b].mac = Here[b].mac
                         /\ b \notin kept => buf[b] = tool.buf[b]
  BY <1>6, <1>7 DEF BlockType
<1> HIDE DEF buf, misread
<1>11. misread \in BOOLEAN /\ "save" \in AllStages BY DEF misread, ToolType, AllStages, Judged, Holding, Patching
<1>12. /\ ToolType' /\ tool'.said = tool.said /\ tool'.ret = tool.ret /\ tool'.flags = tool.flags
       /\ tool'.extd = tool.extd /\ tool'.at = "save" /\ tool'.buf = buf /\ tool'.had = tool.had
       /\ tool'.misread = misread
  BY <1>4, <1>9, <1>11 DEF ToolType
<1>13. NewBuffer
  <2>1. ASSUME NEW b \in Blocks
        PROVE  /\ buf[b].img = "new" /\ (b \notin MacBlocks(Kind) => buf[b].mac = <<>>)
               /\ Sure(b) => buf[b].mac # <<>>
    <3>1. Sure(b) => b = 1 BY <1>1 DEF Sure
    <3>2. b \notin MacBlocks(Kind) => b \notin kept BY <1>1, <1>2, <1>3 DEF both
    <3>3. 1 \in kept => Here[1].mac # <<>> BY <1>3, <1>8 DEF Places
    <3> QED BY <1>7, <1>10, <3>1, <3>2, <3>3
  <2> QED BY <1>12, <2>1 DEF NewBuffer
<1>14. NewKept
  <2>1. ASSUME NEW b \in Area1, b \in MacBlocks(Kind), job.file.gbe, ~misread, tool.had[1] # <<>>
        PROVE  buf[b].mac = tool.had[b]
    <3>1. b \in both /\ b \in Blocks /\ tool.extd BY <1>1, <1>2, <2>1 DEF both, Area1
    <3>2. Places(1) BY <1>7, <1>8, <2>1 DEF Places
    <3>3. kept = both BY <2>1, <3>1, <3>2 DEF kept, misread
    <3> QED BY <1>7, <1>10, <3>1, <3>3
  <2> QED BY <1>1, <1>12, <2>1 DEF NewKept
<1> QED BY <1>1, <1>12, <1>13, <1>14, SaveStep DEF misread

LEMMA SaveSetupStep == ASSUME FlashInv, NEW ok \in BOOLEAN, SaveSetup(ok) PROVE FlashInv'
<1> USE DEF FlashInv, FlashTypes
<1>1. tool.at = "save" /\ job' = job BY DEF SaveSetup, At
<1>2. flash' \in FlashType /\ flash'.blocks = flash.blocks /\ flash'.part = flash.part /\ flash'.setup = flash.setup
  <2>1. (Flag("PRESERVE") /\ ok) \in BOOLEAN OBVIOUS
  <2> QED BY <2>1 DEF SaveSetup, FlashType
<1>3. Calm
  <2>1. Works(ok) => spent' \in SpentType /\ (spent'.faults = 0 => spent.faults = 0) BY WorksFine
  <2> QED BY <1>1, <1>2, <2>1 DEF SaveSetup, Calm, Fine
<1>4. Go("blocksize") /\ "blocksize" \in AllStages BY DEF SaveSetup, AllStages, Judged, Holding, Patching
<1>5. ToolType' /\ SameBut("blocksize") /\ tool'.ret = tool.ret BY <1>4, GoFacts
<1>6. Here' = Here /\ Kind' = Kind /\ Area1' = Area1 BY <1>1, <1>2, <1>5 DEF Here, Kind, Area1, SameBut
<1>7. Image'
  <2>1. (\A b \in Area1 : Kept(b))'
    BY <1>1, <1>5, <1>6 DEF Image, Kept, Keeping, MacOf, Kind, SameBut, Holding, Patching
  <2> QED BY <1>1, <1>5, <1>6, <2>1 DEF Image, Sure, SameBut, Holding, Patching
<1> QED BY <1>1, <1>2, <1>3, <1>5, <1>7, PatchStep DEF SameBut, Patching

LEMMA BlockSizeStep == ASSUME FlashInv, NEW ok \in BOOLEAN, BlockSize(ok) PROVE FlashInv'
<1> USE DEF FlashInv, FlashTypes
<1> DEFINE blk == IF tool.extd THEN 1 ELSE 3
           at == IF ok /\ job.board.large THEN "writeLarge" ELSE "erase"
<1>1. Calm /\ tool.at = "blocksize" /\ flash' = flash
  BY WorksFine DEF BlockSize, Calm, At, Still, Fine
<1>2. /\ ToolType' /\ tool'.said = tool.said /\ tool'.ret = tool.ret /\ tool'.flags = tool.flags
      /\ tool'.extd = tool.extd /\ tool'.at = at /\ tool'.buf = tool.buf /\ tool'.had = tool.had
      /\ tool'.misread = tool.misread /\ tool'.blk = blk
  <2>1. at \in AllStages /\ blk \in Blocks BY DEF AllStages, Judged, Holding, Writing
  <2>2. tool' = [tool EXCEPT !.blk = blk, !.try = 0, !.at = at] BY DEF BlockSize
  <2> HIDE DEF at, blk
  <2> QED BY <2>1, <2>2 DEF ToolType
<1>3. tool'.at \in {"erase", "writeLarge"} BY <1>2
<1>4. Here' = Here /\ Kind' = Kind /\ Area1' = Area1 /\ job' = job BY <1>1, <1>2 DEF Here, Kind, Area1, Calm
<1>5. tool.said = {} /\ tool.ret = "none" BY <1>1 DEF Talk, Judged, Holding, Patching
<1>6. \A b \in Area1 : ~(b < tool'.blk) BY <1>2 DEF Area1
<1>7. FlashTypes' BY <1>1, <1>2 DEF Calm
<1>8. Parts' /\ LastNew'
  <2>1. tool'.extd => Area1 = Blocks BY <1>2 DEF Area1
  <2> QED BY <1>1, <1>2, <1>4, <1>6, <2>1 DEF Parts, LastNew, Sure, Fine, Calm
<1>9. Talk' BY <1>2, <1>3, <1>5 DEF Talk, Asking
<1>10. Admission'
  BY <1>1, <1>2, <1>3, <1>4 DEF Admission, Flag, Judged, Holding, Patching, Writing, Unlocking, Calm
<1>11. Image'
  <2>1. (\A b \in Area1 : Kept(b))'
    BY <1>1, <1>2, <1>4 DEF Image, Kept, Keeping, MacOf, Kind, Holding, Patching
  <2> QED BY <1>1, <1>2, <1>3, <1>4, <2>1 DEF Image, Sure, Holding, Patching
<1>12. Progress'
  <2>1. \A b \in Blocks : Here[b].mac = tool.had[b] BY <1>1 DEF Image, Patching
  <2>2. tool'.blk \in Area1 /\ BiosBlocks \subseteq Area1 BY <1>2 DEF Area1
  <2> QED BY <1>2, <1>3, <1>4, <1>6, <2>1, <2>2 DEF Progress, Writing, Closing
<1>13. FlashTold' BY <1>2, <1>5 DEF FlashTold
<1> QED BY <1>7, <1>8, <1>9, <1>10, <1>11, <1>12, <1>13

\* What a try to write a block may do to the flash: the block is erased, or as
\* the buffer has it, and only if the flash is open.
OneBlock ==
    /\ flash' \in FlashType /\ flash'.part = flash.part /\ flash'.lock = flash.lock /\ flash'.bup = flash.bup
    /\ flash'.next = flash.next
    /\ flash'.blocks # flash.blocks => Open
    /\ \A part \in 1..2, b \in Blocks :
           \/ flash'.blocks[part][b] = flash.blocks[part][b]
           \/ part = flash.part /\ b = tool.blk /\ flash'.blocks[part][b] \in {Torn, tool.buf[b]}

LEMMA PutFacts ==
  ASSUME FlashTypes, NEW STATE v, v \in BlockType, v = Torn \/ v = tool.buf[tool.blk], Open, Put(v)
  PROVE  OneBlock /\ Here'[tool.blk] = v
<1> USE DEF FlashTypes
<1>1. tool.blk \in Blocks BY DEF ToolType
<1>2. flash.part \in 1..2 BY DEF FlashType
<1>3. flash' \in FlashType
  BY <1>1, <1>2 DEF Put, FlashType
<1>4. /\ flash'.part = flash.part /\ flash'.lock = flash.lock /\ flash'.bup = flash.bup /\ flash'.next = flash.next
  BY DEF Put, FlashType
<1>5. \A part \in 1..2, b \in Blocks :
          flash'.blocks[part][b] = IF part = flash.part /\ b = tool.blk THEN v ELSE flash.blocks[part][b]
  BY <1>1, <1>2 DEF Put, FlashType
<1>6. Here'[tool.blk] = v
  BY <1>1, <1>2, <1>4, <1>5 DEF Here
<1> QED BY <1>3, <1>4, <1>5, <1>6 DEF OneBlock

\* How the tool goes on: the same block again, the next one, or what comes after
\* the last; and it ends, but not by success.
OneTry ==
    /\ ToolType' /\ tool'.said = tool.said /\ tool'.flags = tool.flags /\ tool'.extd = tool.extd
    /\ tool'.buf = tool.buf /\ tool'.had = tool.had /\ tool'.misread = tool.misread
    /\ tool'.at \in Writing \cup {"verify", "restore", "end"}
    /\ IF tool'.at = "end" THEN tool'.ret # "ok" ELSE tool'.ret = tool.ret
    /\ tool'.blk = tool.blk \/ (tool'.blk = tool.blk + 1 /\ (Open /\ Fine' => Here'[tool.blk].img # "old"))
    /\ tool'.at = "writeLarge" =>
           tool.at = "writeLarge" /\ (tool'.blk = tool.blk \/ Here'[tool.blk] = tool.buf[tool.blk])
    /\ tool'.at = "restore" => tool.at = "writeLarge" /\ tool.blk = 4 /\ Here'[4] = tool.buf[4]

LEMMA WriteStep ==
  ASSUME FlashInv, tool.at \in Writing, job' = job, spent' \in SpentType, Fine' => Fine, OneBlock, OneTry
  PROVE  FlashInv'
<1> USE DEF FlashInv, FlashTypes
<1>1. /\ tool.said = {} /\ tool.ret = "none" BY DEF Talk, Judged, Holding, Writing
<1>2. flash.part \in 1..2 /\ flash'.part = flash.part BY DEF OneBlock, FlashType
<1>3. \A b \in Blocks : Here'[b] = Here[b] \/ (b = tool.blk /\ Here'[b] \in {Torn, tool.buf[b]})
  BY <1>2 DEF OneBlock, Here
<1>4. Kind' = Kind /\ Area1' = Area1 /\ tool.blk \in Area1 /\ BiosBlocks \subseteq Area1 /\ Area1 \subseteq Blocks
  BY DEF Kind, Area1, OneTry, Progress
<1>5. \A b \in Blocks : /\ tool.buf[b].img = "new" /\ (b \notin MacBlocks(Kind) => tool.buf[b].mac = <<>>)
                        /\ Sure(b) => tool.buf[b].mac # <<>>
  BY DEF Image, Holding
<1>6. Torn.img = "none" /\ Torn.mac = <<>> BY DEF Torn
<1>7. FlashTypes' BY DEF OneBlock, OneTry
<1>8. Parts'
  <2>1. ASSUME NEW part \in 1..2, NEW b \in Blocks
        PROVE  /\ flash'.blocks[part][b].img = "none" \/ b \notin MacBlocks(Kind) => flash'.blocks[part][b].mac = <<>>
               /\ flash'.blocks[part][b].img # "none" /\ Sure(b) => flash'.blocks[part][b].mac # <<>>
    <3>1. \/ flash'.blocks[part][b] = flash.blocks[part][b]
          \/ flash'.blocks[part][b] = Torn
          \/ flash'.blocks[part][b] = tool.buf[b]
      BY DEF OneBlock
    <3>2. /\ flash.blocks[part][b].img = "none" \/ b \notin MacBlocks(Kind) => flash.blocks[part][b].mac = <<>>
          /\ flash.blocks[part][b].img # "none" /\ Sure(b) => flash.blocks[part][b].mac # <<>>
      BY DEF Parts
    <3> QED BY <1>5, <1>6, <3>1, <3>2
  <2> QED BY <1>4, <2>1 DEF Parts, Sure
<1>9. Talk' BY <1>1 DEF Talk, Asking, Writing, OneTry
<1>10. Admission'
  <2>1. \A b \in {1, 2} : ~tool.extd => Here'[b] = Here[b] BY <1>3, <1>4 DEF Area1
  <2> QED BY <2>1 DEF Admission, Flag, Judged, Holding, Writing, Unlocking, OneTry, Fine, Closing
<1>11. Image'
  <2>1. tool'.at \notin Patching BY DEF OneTry, Patching, Writing
  <2>2. (\A b \in Area1 : Kept(b))'
    BY <1>4 DEF Image, Kept, Keeping, MacOf, Kind, Holding, Writing, OneTry
  <2> QED BY <1>4, <1>5, <2>1, <2>2 DEF Image, Sure, OneTry, Patching
<1>12. Progress'
  <2>1. \A b \in Blocks : \/ Here'[b].mac \in {<<>>, tool.had[b]}
                          \/ b \in Area1 /\ Here'[b].mac = tool.buf[b].mac
    BY <1>3, <1>4, <1>6 DEF Progress, Writing
  <2>2. tool'.blk \in Area1 BY <1>4 DEF OneTry, ToolType, Area1
  <2>3. ASSUME tool.at = "writeLarge", NEW b \in BiosBlocks, b < tool.blk PROVE Here'[b] = tool.buf[b]
    BY <1>3, <2>3 DEF Progress
  <2>4. tool'.at = "writeLarge" => \A b \in BiosBlocks : b < tool'.blk => Here'[b] = tool.buf[b]
    BY <1>4, <2>3 DEF OneTry, ToolType, Area1
  <2>5. tool'.at = "restore" => \A b \in BiosBlocks : Here'[b] = tool.buf[b]
    BY <2>3 DEF OneTry
  <2> QED BY <1>4, <2>1, <2>2, <2>4, <2>5 DEF Progress, OneTry, Writing
<1>13. LastNew'
  <2>1. Open' = Open BY DEF Open, OneBlock, OneTry
  <2>2. Fine' /\ tool'.at \in Writing /\ tool'.extd /\ Open' => \A b \in Blocks : b < tool'.blk => Here'[b].img # "old"
    BY <1>3, <1>5, <1>6, <2>1 DEF LastNew, OneTry, ToolType
  <2>3. ASSUME NEW part \in 1..2, Fine', flash'.blocks[part][3].img = "new", ~job.file.compat, NEW b \in {1, 2}
        PROVE  flash'.blocks[part][b].img # "old"
    <3>1. CASE flash'.blocks[part][3] = flash.blocks[part][3]
      BY <1>5, <1>6, <2>3, <3>1 DEF LastNew, OneBlock
    <3>2. CASE flash'.blocks[part][3] # flash.blocks[part][3]
      <4>1. part = flash.part /\ tool.blk = 3 /\ Open BY <3>2 DEF OneBlock
      <4>2. Here[b].img # "old"
        BY <2>3, <4>1 DEF LastNew, Admission, Judged, Holding
      <4> QED BY <1>3, <4>1, <4>2, <1>2 DEF Here
    <3> QED BY <3>1, <3>2
  <2> QED BY <2>2, <2>3 DEF LastNew
<1>14. FlashTold' BY <1>1 DEF FlashTold, OneTry
<1> QED BY <1>7, <1>8, <1>9, <1>10, <1>11, <1>12, <1>13, <1>14

LEMMA TornType == Torn \in BlockType /\ Torn.img = "none"
BY DEF Torn, BlockType, Macs

LEMMA UnwrittenFacts == ASSUME FlashInv, flash' = flash PROVE OneBlock
BY DEF FlashInv, FlashTypes, OneBlock

LEMMA SpoiltFacts == ASSUME FlashInv, Spoilt PROVE OneBlock
<1>1. CASE Open /\ Put(Torn)
  BY <1>1, TornType, PutFacts DEF FlashInv
<1>2. CASE flash' = flash
  BY <1>2, UnwrittenFacts
<1> QED BY <1>1, <1>2 DEF Spoilt

LEMMA TriedFacts == ASSUME spent \in SpentType, NEW ok \in BOOLEAN, Tried(ok)
                    PROVE  /\ spent' \in SpentType /\ (spent'.faults = 0 => spent.faults = 0)
                           /\ ok => Open
                           /\ Open /\ spent'.faults = 0 => ok
<1>1. CASE Open BY <1>1, WorksFine DEF Tried
<1>2. CASE ~Open BY <1>2 DEF Tried
<1> QED BY <1>1, <1>2

\* Going on, in the terms of OneTry.
LEMMA NextBlockFacts ==
  ASSUME FlashInv, tool.at \in Writing, NEW again \in {"erase", "writeLarge"}, NEW after \in {"verify", "restore"},
         NextBlock(again, after), Open /\ Fine' => Here'[tool.blk].img # "old",
         again = "writeLarge" => tool.at = "writeLarge" /\ Here'[tool.blk] = tool.buf[tool.blk],
         after = "restore" => tool.at = "writeLarge" /\ Here'[tool.blk] = tool.buf[tool.blk]
  PROVE  OneTry
<1> USE DEF FlashInv, FlashTypes
<1>1. {again, after} \subseteq AllStages BY DEF AllStages, Judged, Holding, Writing, Closing
<1>2. CASE tool.blk = 4
  BY <1>1, <1>2 DEF NextBlock, OneTry, ToolType, Writing
<1>3. CASE tool.blk # 4
  <2>1. tool' = [tool EXCEPT !.at = again, !.blk = @ + 1, !.try = 0] BY <1>3 DEF NextBlock
  <2>2. tool.blk + 1 \in Blocks BY <1>3 DEF ToolType
  <2>3. /\ ToolType' /\ tool'.said = tool.said /\ tool'.flags = tool.flags /\ tool'.extd = tool.extd
        /\ tool'.buf = tool.buf /\ tool'.had = tool.had /\ tool'.misread = tool.misread
        /\ tool'.at = again /\ tool'.ret = tool.ret /\ tool'.blk = tool.blk + 1
    BY <1>1, <2>1, <2>2 DEF ToolType
  <2>4. again \in Writing /\ again \notin {"end", "restore"} BY DEF Writing
  <2> QED BY <2>3, <2>4 DEF OneTry
<1> QED BY <1>2, <1>3

LEMMA RetryFacts ==
  ASSUME FlashInv, tool.at \in Writing, NEW again \in {"erase", "writeLarge"}, Retry(again),
         again = "writeLarge" => tool.at = "writeLarge"
  PROVE  OneTry
<1> USE DEF FlashInv, FlashTypes
<1>1. again \in AllStages BY DEF AllStages, Judged, Holding, Writing
<1>2. CASE End("interface")
  <2>1. ToolType' /\ SameBut("end") /\ tool'.ret = "interface" BY <1>2, EndFacts
  <2> QED BY <2>1 DEF OneTry, SameBut
<1>3. CASE tool' = [tool EXCEPT !.at = again, !.try = @ + 1]
  BY <1>1, <1>3 DEF OneTry, ToolType, Writing
<1> QED BY <1>2, <1>3 DEF Retry

LEMMA EraseStep == ASSUME FlashInv, NEW ok \in BOOLEAN, EraseBlock(ok) PROVE FlashInv'
<1> USE DEF FlashInv, FlashTypes
<1>1. tool.at = "erase" /\ tool.at \in Writing /\ job' = job /\ Tried(ok) BY DEF EraseBlock, At, Writing
<1>2. spent' \in SpentType /\ (Fine' => Fine) BY <1>1, TriedFacts DEF Fine
<1>3. ok => Open BY <1>1, TriedFacts
<1>4. Open /\ Fine' => ok BY <1>1, TriedFacts DEF Fine
<1>5. CASE ok
  <2>1. Put(Torn) /\ Go("write") BY <1>5 DEF EraseBlock
  <2>2. OneBlock BY <1>3, <1>5, <2>1, TornType, PutFacts
  <2>3. "write" \in AllStages BY DEF AllStages, Judged, Holding, Writing
  <2>4. ToolType' /\ SameBut("write") /\ tool'.ret = tool.ret BY <2>1, <2>3, GoFacts
  <2>5. OneTry BY <2>4 DEF OneTry, SameBut, Writing
  <2> QED BY <1>1, <1>2, <2>2, <2>5, WriteStep
<1>6. CASE ~ok
  <2>1. OneBlock BY <1>6, SpoiltFacts DEF EraseBlock
  <2>2. OneTry
    <3>1. CASE End("interface")
      <4>1. ToolType' /\ SameBut("end") /\ tool'.ret = "interface" BY <3>1, EndFacts
      <4> QED BY <4>1 DEF OneTry, SameBut
    <3>2. CASE NextBlock("erase", "verify")
      BY <1>1, <1>4, <1>6, <3>2, NextBlockFacts
    <3> QED BY <1>6, <3>1, <3>2 DEF EraseBlock
  <2> QED BY <1>1, <1>2, <2>1, <2>2, WriteStep
<1> QED BY <1>5, <1>6

LEMMA WriteBlockStep == ASSUME FlashInv, NEW ok \in BOOLEAN, WriteBlock(ok) PROVE FlashInv'
<1> USE DEF FlashInv, FlashTypes
<1>1. tool.at = "write" /\ tool.at \in Writing /\ job' = job /\ Tried(ok) BY DEF WriteBlock, At, Writing
<1>2. spent' \in SpentType /\ (Fine' => Fine) BY <1>1, TriedFacts DEF Fine
<1>3. ok => Open BY <1>1, TriedFacts
<1>4. tool.blk \in Blocks /\ tool.buf[tool.blk] \in BlockType /\ tool.buf[tool.blk].img = "new"
  BY <1>1 DEF ToolType, Image, Holding
<1>5. CASE ok
  <2>1. Put(tool.buf[tool.blk]) /\ NextBlock("erase", "verify") BY <1>5 DEF WriteBlock
  <2>2. OneBlock /\ Here'[tool.blk] = tool.buf[tool.blk] BY <1>3, <1>4, <1>5, <2>1, PutFacts
  <2>3. OneTry BY <1>1, <1>4, <2>1, <2>2, NextBlockFacts
  <2> QED BY <1>1, <1>2, <2>2, <2>3, WriteStep
<1>6. CASE ~ok
  <2>1. Spoilt /\ Retry("erase") BY <1>6 DEF WriteBlock
  <2>2. OneBlock BY <2>1, SpoiltFacts
  <2>3. OneTry BY <1>1, <2>1, RetryFacts
  <2> QED BY <1>1, <1>2, <2>2, <2>3, WriteStep
<1> QED BY <1>5, <1>6

LEMMA WriteLargeStep == ASSUME FlashInv, NEW ok \in BOOLEAN, WriteLarge(ok) PROVE FlashInv'
<1> USE DEF FlashInv, FlashTypes
<1>1. tool.at = "writeLarge" /\ tool.at \in Writing /\ job' = job /\ Tried(ok) BY DEF WriteLarge, At, Writing
<1>2. spent' \in SpentType /\ (Fine' => Fine) BY <1>1, TriedFacts DEF Fine
<1>3. ok => Open BY <1>1, TriedFacts
<1>4. tool.blk \in Blocks /\ tool.buf[tool.blk] \in BlockType /\ tool.buf[tool.blk].img = "new"
  BY <1>1 DEF ToolType, Image, Holding
<1>5. CASE ok
  <2>1. Put(tool.buf[tool.blk]) /\ NextBlock("writeLarge", "restore") BY <1>5 DEF WriteLarge
  <2>2. OneBlock /\ Here'[tool.blk] = tool.buf[tool.blk] BY <1>3, <1>4, <1>5, <2>1, PutFacts
  <2>3. OneTry BY <1>1, <1>4, <2>1, <2>2, NextBlockFacts
  <2> QED BY <1>1, <1>2, <2>2, <2>3, WriteStep
<1>6. CASE ~ok
  <2>1. Spoilt /\ Retry("writeLarge") BY <1>6 DEF WriteLarge
  <2>2. OneBlock BY <2>1, SpoiltFacts
  <2>3. OneTry BY <1>1, <2>1, RetryFacts
  <2> QED BY <1>1, <1>2, <2>2, <2>3, WriteStep
<1> QED BY <1>5, <1>6

\* A step of the tool after the flash was written: told is what it says now.
LEMMA ClosingStep ==
  ASSUME FlashInv, Calm, flash'.part = flash.part, tool.at \in {"verify", "restore", "cmos"},
         tool'.at \in {"restore", "cmos", "relock", "end"}, ToolType',
         tool'.flags = tool.flags, tool'.extd = tool.extd, tool'.buf = tool.buf, tool'.had = tool.had,
         tool'.misread = tool.misread, \A b \in BiosBlocks : Here[b] = tool.buf[b],
         "kept" \in tool'.said => flash'.setup = "own",
         "updated" \in tool'.said => tool'.at \in {"relock", "end"},
         tool'.at = "restore" => tool'.said = {},
         IF tool'.at = "end" THEN ~tool.extd ELSE tool'.ret = "none"
  PROVE  FlashInv'
<1> USE DEF FlashInv, FlashTypes, Calm
<1>1. Here' = Here /\ Kind' = Kind /\ Area1' = Area1 BY DEF Here, Kind, Area1
<1>2. FlashTypes' OBVIOUS
<1>3. Parts' BY <1>1 DEF Parts, Sure
<1>4. LastNew' BY DEF LastNew, Writing
<1>5. Talk' BY DEF Talk, Asking, Judged, Holding, Patching, Unlocking, Closing, Writing
<1>6. Admission' BY <1>1 DEF Admission, Flag, Judged, Holding, Closing, Unlocking, Fine
<1>7. Image'
  <2>1. tool'.at \notin Patching BY DEF Patching
  <2>2. (\A b \in Area1 : Kept(b))'
    BY <1>1 DEF Image, Kept, Keeping, MacOf, Kind, Holding, Closing, Patching
  <2> QED BY <1>1, <2>1, <2>2 DEF Image, Sure, Holding, Closing, Patching
<1>8. Progress' BY <1>1 DEF Progress, Writing, Closing
<1>9. \A b \in BiosBlocks : Here[b].img = FileBlock(job.board, b).img
  BY DEF Image, Holding, Closing, FileBlock, Block
<1>10. ASSUME job.file.gbe, ~tool.misread, Kind = "DSA" => tool.had[1] # <<>>, NEW b \in Blocks,
              tool.had[b] # <<>>, Here[b].mac # <<>>
       PROVE  MacOf(Here[b].mac) = MacOf(tool.had[b])
  <2>1. Here[b].mac = tool.had[b] \/ (b \in Area1 /\ Here[b].mac = tool.buf[b].mac)
    BY <1>10 DEF Progress, Closing
  <2> QED BY <1>10, <2>1 DEF Image, Kept, Keeping, Holding, Closing, Patching
<1>11. FlashTold'
  BY <1>1, <1>9, <1>10 DEF FlashTold, MacOf, Kind
<1> QED BY <1>2, <1>3, <1>4, <1>5, <1>6, <1>7, <1>8, <1>11

LEMMA VerifyStep == ASSUME FlashInv, NEW ok \in BOOLEAN, Verify(ok) PROVE FlashInv'
<1> USE DEF FlashInv, FlashTypes
<1>1. Calm /\ tool.at = "verify" /\ flash' = flash
  BY WorksFine DEF Verify, Calm, At, Still, Fine
<1>2. CASE \E r \in {"interface", "error"} : End(r)
  <2>1. PICK r \in {"interface", "error"} : End(r) BY <1>2
  <2> QED BY <1>1, <2>1, EndStep DEF End
<1>3. CASE Go("restore") /\ \A b \in BiosBlocks : Here[b] = tool.buf[b]
  <2>1. "restore" \in AllStages BY DEF AllStages, Judged, Holding, Closing
  <2>2. ToolType' /\ SameBut("restore") /\ tool'.ret = tool.ret BY <1>3, <2>1, GoFacts
  <2>3. tool.said = {} /\ tool.ret = "none" BY <1>1 DEF Talk, Judged, Holding, Closing
  <2> QED BY <1>1, <1>3, <2>2, <2>3, ClosingStep DEF SameBut
<1> QED BY <1>2, <1>3 DEF Verify

LEMMA RestoreStep == ASSUME FlashInv, NEW ok \in BOOLEAN, Restore(ok) PROVE FlashInv'
<1> USE DEF FlashInv, FlashTypes
<1> DEFINE kept == Flag("PRESERVE") /\ ok /\ flash.saved
           said == IF kept THEN {"kept"} ELSE {}
           setup == IF kept THEN "own" ELSE flash.setup
<1> HIDE DEF kept, said, setup
<1>1. /\ tool.at = "restore" /\ job' = job /\ flash' = [flash EXCEPT !.setup = setup]
      /\ tool' = [tool EXCEPT !.at = "cmos", !.said = tool.said \cup said]
  BY DEF Restore, At, kept, said, setup
<1>2. spent' \in SpentType /\ (Fine' => Fine) BY WorksFine, <1>1 DEF Restore, Fine
<1>3. tool.said = {} /\ tool.ret = "none" BY <1>1 DEF Talk, Judged, Holding, Closing
<1>4. said \in SUBSET {"kept", "updated"} /\ setup \in {"own", "reset"} /\ "updated" \notin said
      /\ ("kept" \in said => setup = "own")
  BY DEF said, setup, FlashType
<1>5. flash' \in FlashType /\ flash'.blocks = flash.blocks /\ flash'.part = flash.part /\ flash'.setup = setup
  BY <1>1, <1>4 DEF FlashType
<1>6. ToolType' BY <1>1, <1>4 DEF ToolType, AllStages, Judged, Holding, Closing
<1>7. /\ tool'.at = "cmos" /\ tool'.said = said /\ tool'.flags = tool.flags /\ tool'.extd = tool.extd
      /\ tool'.buf = tool.buf /\ tool'.had = tool.had /\ tool'.misread = tool.misread /\ tool'.ret = "none"
  BY <1>1, <1>3 DEF ToolType
<1>8. \A b \in BiosBlocks : Here[b] = tool.buf[b] BY <1>1 DEF Progress
<1> QED BY <1>1, <1>2, <1>4, <1>5, <1>6, <1>7, <1>8, ClosingStep DEF Calm

LEMMA CmosStep == ASSUME FlashInv, NEW calls \in 0..3, Cmos(calls) PROVE FlashInv'
<1> USE DEF FlashInv, FlashTypes
<1> DEFINE cmos == IF calls > 0 THEN "invalid" ELSE flash.cmos
           at == IF tool.extd THEN "relock" ELSE "end"
           ret == IF tool.extd THEN tool.ret ELSE "ok"
<1> HIDE DEF cmos, at, ret
<1>1. /\ tool.at = "cmos" /\ job' = job /\ flash' = [flash EXCEPT !.cmos = cmos]
      /\ tool' = [tool EXCEPT !.said = tool.said \cup {"updated"}, !.at = at, !.ret = ret]
  BY DEF Cmos, At, cmos, at, ret
<1>2. spent' \in SpentType /\ (Fine' => Fine)
  <2>1. (calls = 3) \in BOOLEAN OBVIOUS
  <2>2. Works(calls = 3) \/ UNCHANGED spent BY DEF Cmos
  <2> QED BY <1>1, <2>2 DEF Works, Fine, SpentType
<1>3. tool.ret = "none" /\ ("kept" \in tool.said => flash.setup = "own") BY <1>1 DEF Talk
<1>4. cmos \in {"good", "invalid"} BY DEF cmos, FlashType
<1>5. flash' \in FlashType /\ flash'.blocks = flash.blocks /\ flash'.part = flash.part /\ flash'.setup = flash.setup
  BY <1>1, <1>4 DEF FlashType
<1>6. at \in {"relock", "end"} /\ (at = "end" => ~tool.extd) /\ (at = "relock" => ret = "none") BY <1>3 DEF at, ret
<1>7. at \in AllStages BY <1>6 DEF AllStages, Judged, Holding, Closing
<1>8. ToolType' BY <1>1, <1>7 DEF ToolType
<1>9. /\ tool'.at = at /\ tool'.said = tool.said \cup {"updated"} /\ tool'.flags = tool.flags
      /\ tool'.extd = tool.extd /\ tool'.buf = tool.buf /\ tool'.had = tool.had
      /\ tool'.misread = tool.misread /\ tool'.ret = ret
  BY <1>1 DEF ToolType
<1>10. \A b \in BiosBlocks : Here[b] = tool.buf[b] BY <1>1 DEF Progress
<1> QED BY <1>1, <1>2, <1>3, <1>5, <1>6, <1>8, <1>9, <1>10, ClosingStep DEF Calm

\* A step after which the tool is at its end and nothing more is said: the lock
\* and the power may change.
LEMMA ClosedStep ==
  ASSUME FlashInv, job' = job, spent' \in SpentType, Fine' => Fine, flash' \in FlashType,
         flash'.blocks = flash.blocks, flash'.part = flash.part, flash'.setup = flash.setup,
         ToolType', SameBut("end"), tool'.ret = "ok" /\ tool.extd => flash'.next = "locked"
  PROVE  FlashInv'
<1> USE DEF SameBut
<1>1. FlashTypes' BY DEF FlashInv, FlashTypes
<1>2. Parts' /\ LastNew'
  BY DEF FlashInv, Parts, LastNew, Kind, Sure, Fine, Here, Writing
<1>3. Talk'
  BY DEF FlashInv, Talk, AllStages, Asking, Unlocking, Patching, Writing, Closing, Holding, Judged
<1>4. Admission' /\ Image' /\ Progress'
  BY DEF Admission, Image, Progress, Asking, Unlocking, Patching, Writing, Closing, Holding, Judged
<1>5. FlashTold'
  BY DEF FlashInv, FlashTold, Talk, Here, MacOf
<1> QED BY <1>1, <1>2, <1>3, <1>4, <1>5 DEF FlashInv

LEMMA RelockStep == ASSUME FlashInv, NEW ok \in BOOLEAN, Relock(ok) PROVE FlashInv'
<1> USE DEF FlashInv, FlashTypes
<1>1. /\ tool.at = "relock" /\ job' = job /\ spent' \in SpentType /\ (Fine' => Fine)
  BY WorksFine DEF Relock, At, Fine
<1>2. CASE ~ok
  <2>1. End("lock") /\ flash' = flash BY <1>2 DEF Relock
  <2> QED BY <1>1, <2>1, EndStep DEF End, Calm
<1>3. CASE ok
  <2> DEFINE power == IF Flag("AUTO_OFFON") /\ ~Flag("MANUF") THEN "cycling" ELSE flash.power
  <2> HIDE DEF power
  <2>1. End("ok") /\ flash' = [flash EXCEPT !.next = "locked", !.power = power]
    BY <1>3 DEF Relock, Locked, power
  <2>2. power \in {"on", "cycling", "off"} BY DEF power, FlashType
  <2>3. /\ flash' \in FlashType /\ flash'.blocks = flash.blocks /\ flash'.part = flash.part
        /\ flash'.setup = flash.setup /\ flash'.next = "locked"
    BY <2>1, <2>2 DEF FlashType, Locks
  <2>4. ToolType' /\ SameBut("end") /\ tool'.ret = "ok" BY <2>1, EndFacts
  <2> QED BY <1>1, <2>3, <2>4, ClosedStep
<1> QED BY <1>2, <1>3

LEMMA KillStep == ASSUME FlashInv, Kill PROVE FlashInv'
<1>1. Calm /\ tool.at # "end" /\ flash' = flash BY DEF Kill, Still, Calm, Fine, FlashInv, FlashTypes
<1> QED BY <1>1, EndStep DEF Kill, End

LEMMA PowerCycleStep == ASSUME FlashInv, PowerCycle PROVE FlashInv'
<1> DEFINE power == IF \A b \in BiosBlocks : Here[b].img # "none" THEN "on" ELSE "off"
<1> HIDE DEF power
<1>1. flash' = [flash EXCEPT !.lock = flash.next, !.bup = job.board.bup, !.power = power]
      /\ job' = job /\ spent' = spent
  BY DEF PowerCycle, power
<1>2. power \in {"on", "cycling", "off"} BY DEF power
<1>3. job.board.bup \in BOOLEAN BY FlashAssumption DEF FlashInv, FlashTypes
<1>4. /\ flash' \in FlashType /\ flash'.blocks = flash.blocks /\ flash'.part = flash.part
      /\ flash'.setup = flash.setup /\ flash'.next = flash.next
  BY <1>1, <1>2, <1>3 DEF FlashType, FlashInv, FlashTypes
<1>5. Calm BY <1>1, <1>4 DEF Calm, Fine, FlashInv, FlashTypes
<1>6. CASE tool.at # "end"
  BY <1>4, <1>5, <1>6, EndStep DEF PowerCycle, End
<1>7. CASE tool.at = "end"
  <2>1. tool' = tool BY <1>7 DEF PowerCycle
  <2>2. ToolType' /\ SameBut("end") /\ tool'.ret = tool.ret BY <1>7, <2>1 DEF SameBut, FlashInv, FlashTypes, ToolType
  <2>3. tool.ret = "ok" /\ tool.extd => flash'.next = "locked" BY <1>4 DEF FlashInv, Talk
  <2> QED BY <1>4, <1>5, <1>7, <2>2, <2>3, ClosedStep DEF Calm
<1> QED BY <1>6, <1>7

LEMMA RerunStep == ASSUME FlashInv, Rerun PROVE FlashInv'
<1>1. job' = job /\ flash' = flash /\ tool' = Idle /\ spent' = [spent EXCEPT !.runs = spent.runs + 1]
  BY DEF Rerun, Still
<1> DEFINE runs == spent.runs + 1
<1>2. runs \in Nat BY DEF FlashInv, FlashTypes, SpentType
<1>3. spent' \in SpentType /\ spent'.faults = spent.faults
  <2> HIDE DEF runs
  <2>1. spent' = [spent EXCEPT !.runs = runs] BY <1>1 DEF runs
  <2> QED BY <1>2, <2>1 DEF FlashInv, FlashTypes, SpentType
<1>4. FlashTypes'
  BY <1>1, <1>3 DEF FlashInv, FlashTypes, ToolType, Idle, Torn, BlockType, Macs, AllStages, Asking
<1>5. Parts' /\ LastNew'
  BY <1>1, <1>3 DEF FlashInv, Parts, LastNew, Kind, Sure, Fine, Idle, Writing
<1>6. Talk' /\ Admission' /\ Image' /\ Progress' /\ FlashTold'
  BY <1>1 DEF Talk, Admission, Image, Progress, FlashTold, Idle, AllStages, Asking, Unlocking, Patching, Writing, Closing, Holding, Judged
<1> QED BY <1>4, <1>5, <1>6 DEF FlashInv

LEMMA FlashStep == ASSUME FlashInv, [FlashNext]_flashVars PROVE FlashInv'
<1>1. ASSUME NEW ok \in BOOLEAN, Update(ok) PROVE FlashInv'
  BY <1>1, CompatibleStep, UnlockStep, ReadStep, PatchEHLStep, SaveSetupStep, BlockSizeStep, EraseStep,
     WriteBlockStep, WriteLargeStep, VerifyStep, RestoreStep, RelockStep DEF Update
<1>2. ASSUME NEW lost \in {"nothing", "layout", "address"}, Patch(lost) \/ PatchDSA(lost) PROVE FlashInv'
  BY <1>2, PlainPatchStep, PatchDSAStep
<1>3. CASE UNCHANGED flashVars
  <2>1. job' = job /\ tool' = tool /\ flash' = flash /\ spent' = spent BY <1>3 DEF flashVars
  <2>2. FlashTypes' /\ Parts' BY <2>1 DEF FlashInv, FlashTypes, ToolType, Parts, Sure, Kind
  <2>3. Talk' /\ Admission' BY <2>1 DEF FlashInv, Talk, Admission, Flag, Fine, Here
  <2>4. (\A b \in Blocks : Kept(b))' = (\A b \in Blocks : Kept(b)) /\ (\A b \in Area1 : Kept(b))' = (\A b \in Area1 : Kept(b))
    BY <2>1 DEF Kept, Keeping, MacOf, Kind, Area1
  <2>5. Kept(4)' = Kept(4) BY <2>1 DEF Kept, Keeping, MacOf, Kind
  <2>6. Image' BY <2>1, <2>4, <2>5 DEF FlashInv, Image, Sure, Kind, Here
  <2>7. Progress' /\ LastNew' BY <2>1 DEF FlashInv, Progress, LastNew, Area1, Here, Fine, Open
  <2>8. FlashTold' BY <2>1 DEF FlashInv, FlashTold, Here, MacOf
  <2> QED BY <2>2, <2>3, <2>6, <2>7, <2>8 DEF FlashInv
<1> QED BY <1>1, <1>2, <1>3, PrepareStep, CheckStep, CmosStep, KillStep, PowerCycleStep, RerunStep DEF FlashNext

\* In every state the update's types hold, the buffer is of the file and keeps
\* the addresses of the flash, and what was told is so.  (CG_BiosFlash)
THEOREM FlashInvariant == FlashSpec => []FlashInv
BY FlashInitial, FlashStep, PTL DEF FlashSpec

\* An update that is told to be done is: the BIOS is the file's, the board has
\* kept its addresses and the settings it was to keep, and a complete update has
\* the flash locked from the next start on, whatever call failed, whoever killed
\* the tool and whenever the power went.  (CG_BiosFlash)
THEOREM UpdateTold == FlashSpec => []FlashTold
BY FlashInvariant, PTL DEF FlashInv

\* Only writing touches the blocks of the flash, one at a time.
LEMMA WritesOne ==
  ASSUME FlashInv, FlashNext, flash'.blocks # flash.blocks PROVE tool.at \in Writing /\ OneBlock
<1> USE DEF FlashInv, FlashTypes
<1>1. ASSUME NEW ok \in BOOLEAN, EraseBlock(ok) PROVE tool.at \in Writing /\ OneBlock
  <2>1. tool.at \in Writing /\ Tried(ok) BY <1>1 DEF EraseBlock, At, Writing
  <2>2. CASE ok
    BY <1>1, <2>1, <2>2, TriedFacts, TornType, PutFacts DEF EraseBlock
  <2>3. CASE ~ok
    BY <1>1, <2>1, <2>3, SpoiltFacts DEF EraseBlock
  <2> QED BY <2>2, <2>3
<1>2. ASSUME NEW ok \in BOOLEAN, WriteBlock(ok) \/ WriteLarge(ok) PROVE tool.at \in Writing /\ OneBlock
  <2>1. tool.at \in Writing /\ Tried(ok) BY <1>2 DEF WriteBlock, WriteLarge, At, Writing
  <2>2. tool.buf[tool.blk] \in BlockType BY DEF ToolType
  <2>3. CASE ok
    <3>1. Put(tool.buf[tool.blk]) /\ Open BY <1>2, <2>1, <2>3, TriedFacts DEF WriteBlock, WriteLarge
    <3> QED BY <2>1, <2>2, <3>1, PutFacts
  <2>4. CASE ~ok
    BY <1>2, <2>1, <2>4, SpoiltFacts DEF WriteBlock, WriteLarge
  <2> QED BY <2>3, <2>4
<1>3. ASSUME NEW ok \in BOOLEAN, Prepare(ok) PROVE flash'.blocks = flash.blocks
  BY <1>3 DEF Prepare, Start, AskProtection, Password, Protected, FlashSize, ExtdSize, BoardName, IsLocked,
              LockCommand, AskOperator, Unlocked, Locked, Still, FlashType
<1>4. ASSUME NEW ok \in BOOLEAN, Compatible(ok) \/ LockState(ok) \/ Unlock(ok) \/ UnlockCycle(ok) \/ ReadFile(ok)
                                  \/ PatchEHL(ok) \/ SaveSetup(ok) \/ BlockSize(ok) \/ Verify(ok)
                                  \/ Restore(ok) \/ Relock(ok)
      PROVE  flash'.blocks = flash.blocks
  BY <1>4 DEF Compatible, LockState, Unlock, UnlockCycle, ReadFile, PatchEHL, SaveSetup, BlockSize, Verify,
              Restore, Relock, Unlocked, Locked, Still, FlashType
<1>5. CheckFile \/ Kill \/ PowerCycle \/ Rerun => flash'.blocks = flash.blocks
  BY DEF CheckFile, Kill, PowerCycle, Rerun, Still, FlashType
<1>6. ASSUME NEW lost \in {"nothing", "layout", "address"}, Patch(lost) \/ PatchDSA(lost)
      PROVE  flash'.blocks = flash.blocks
  BY <1>6 DEF Patch, PatchDSA, Still
<1>7. ASSUME NEW calls \in 0..3, Cmos(calls) PROVE flash'.blocks = flash.blocks
  BY <1>7 DEF Cmos, FlashType
<1> QED BY <1>1, <1>2, <1>3, <1>4, <1>5, <1>6, <1>7 DEF FlashNext, Update

\* Nothing is written but by an update of a BIOS for this board, or a forced one;
\* beyond the BIOS only if that was asked for; and, if no call failed, the BIOS
\* alone only if it goes with what else is in the flash.  (CG_BiosFlash)
THEOREM UpdateTouches == FlashSpec => FlashTouched
<1>1. ASSUME FlashInv, [FlashNext]_flashVars
      PROVE  [flash'.blocks # flash.blocks =>
                /\ job.file.bios /\ (job.file.fits \/ Flag("FORCE"))
                /\ tool.flags \cap {"ISLOCKED", "UNLOCK", "LOCK"} = {}
                /\ \A part \in 1..2, b \in Blocks : flash'.blocks[part][b] # flash.blocks[part][b] =>
                       part = flash.part /\ (b \in BiosBlocks \/ Flag("EXTD"))
                /\ spent.faults = 0 /\ job.board.extd /\ ~tool.extd =>
                       job.file.compat \/ \A b \in Blocks \ BiosBlocks : Here[b].img # "old"]_flashVars
  <2> SUFFICES ASSUME FlashNext, flash'.blocks # flash.blocks
               PROVE  /\ job.file.bios /\ (job.file.fits \/ Flag("FORCE"))
                      /\ tool.flags \cap {"ISLOCKED", "UNLOCK", "LOCK"} = {}
                      /\ \A part \in 1..2, b \in Blocks : flash'.blocks[part][b] # flash.blocks[part][b] =>
                             part = flash.part /\ (b \in BiosBlocks \/ Flag("EXTD"))
                      /\ spent.faults = 0 /\ job.board.extd /\ ~tool.extd =>
                             job.file.compat \/ \A b \in Blocks \ BiosBlocks : Here[b].img # "old"
    BY <1>1
  <2>1. tool.at \in Writing /\ OneBlock BY <1>1, WritesOne
  <2>2. tool.at \in Judged BY <2>1 DEF Judged, Holding
  <2>3. tool.blk \in Area1 BY <1>1, <2>1 DEF FlashInv, Progress
  <2>4. /\ job.file.bios /\ (job.file.fits \/ Flag("FORCE")) /\ (tool.extd => Flag("EXTD"))
        /\ tool.flags \cap {"ISLOCKED", "UNLOCK", "LOCK"} = {}
        /\ Fine /\ ~tool.extd => job.file.compat \/ \A b \in {1, 2} : Here[b].img # "old"
    BY <1>1, <2>2 DEF FlashInv, Admission
  <2>5. \A part \in 1..2, b \in Blocks : flash'.blocks[part][b] # flash.blocks[part][b] =>
            part = flash.part /\ (b \in BiosBlocks \/ Flag("EXTD"))
    BY <2>1, <2>3, <2>4 DEF OneBlock, Area1
  <2>6. Blocks \ BiosBlocks = {1, 2} OBVIOUS
  <2> QED BY <2>4, <2>5, <2>6 DEF Fine
<1> QED BY <1>1, FlashInvariant, PTL DEF FlashSpec, FlashTouched

-----------------------------------------------------------------------------
(* The module command: what it leaves alone on a board.                    *)

KeptAreas == MpfaAreas \cup {"user"}
Applying == {"scan", "erase", "fill", "verify"}
UtilType == util \in [at : {util.at}, n : {util.n}, buf : {util.buf}, old : {util.old}, area : {util.area},
    blk : {util.blk}, first : {util.first}, last : {util.last}, force : BOOLEAN, inner : {util.inner},
    outer : {util.outer}, out : {util.out}, spilt : {util.spilt}, said : {util.said}]

\* A board is written only while changes are applied to it.  Until then its areas
\* are as they were read; from then on those are whose buffer is as it was read,
\* and an area that is being erased, or in which something to write was found or
\* failed to be written, has another buffer than what was read.
OnBoard ==
    /\ DOMAIN store = AreaSet
    /\ util.at \notin {"trunc", "fwrite"}
    /\ util.at \in {"edit", "ask"} => store = util.old
    /\ util.at \in Applying =>
           /\ util.area \in 1..3
           /\ \A s \in KeptAreas : util.buf[s] = util.old[s] => store[s] = util.old[s]
    /\ util.at \in {"erase", "fill"} \/ (util.at = "scan" /\ (util.force \/ util.first # 0)) =>
           Buf # util.old[Here1]
ModulesInv == UtilType /\ (order.target = "board" => OnBoard)

\* The area at hand of a board is one that the property is about.
LEMMA HereFacts == ASSUME order.target = "board", util.area \in 1..3
                   PROVE  Here1 \in KeptAreas /\ Len(AreaList) = 3
BY DEF Here1, AreaList, KeptAreas, MpfaAreas

LEMMA ModulesInitial == ASSUME ModulesInit PROVE ModulesInv
BY ModulesAssumption DEF ModulesInit, ModulesInv, UtilType, OnBoard, IdleUtil, Applying

\* A step that writes nothing and leaves nothing to be written.
LEMMA RestStep ==
  ASSUME ModulesInv, order' = order, store' = store, UtilType',
         util'.at \in {"start", "end"} \/ order.target # "board"
  PROVE  ModulesInv'
BY DEF ModulesInv, OnBoard, Applying

LEMMA SayFacts ==
  ASSUME UtilType, NEW STATE said, util' = Say(util, said) PROVE UtilType' /\ util'.at = "end"
BY DEF Say, UtilType

LEMMA SayStep ==
  ASSUME ModulesInv, order' = order, store' = store, NEW STATE said, util' = Say(util, said)
  PROVE  ModulesInv'
BY SayFacts, RestStep DEF ModulesInv

LEMMA SayOutStep ==
  ASSUME ModulesInv, order' = order, store' = store, NEW STATE out, NEW STATE said,
         util' = Say([util EXCEPT !.out = out], said)
  PROVE  ModulesInv'
<1>1. UtilType' /\ util'.at = "end" BY DEF ModulesInv, Say, UtilType
<1> QED BY <1>1, RestStep

\* What ends a command, or begins the next, without a write.
LEMMA QuietStep ==
  ASSUME ModulesInv, \/ LoadFails \/ InputFails \/ CmpModule \/ ListModules \/ KillUtil \/ NextCommand
                     \/ \E ok \in BOOLEAN : SaveModule(ok) \/ CreateModule(ok)
  PROVE  ModulesInv'
<1>1. CASE LoadFails BY <1>1, SayStep DEF LoadFails
<1>2. CASE InputFails BY <1>2, SayStep DEF InputFails
<1>3. CASE CmpModule BY <1>3, SayStep DEF CmpModule
<1>4. CASE ListModules BY <1>4, SayStep DEF ListModules
<1>5. CASE KillUtil BY <1>5, SayStep DEF KillUtil
<1>6. CASE NextCommand
  <2>1. UtilType' /\ util'.at = "start" BY <1>6 DEF NextCommand, UtilType, IdleUtil
  <2> QED BY <1>6, <2>1, RestStep DEF NextCommand
<1>7. ASSUME NEW ok \in BOOLEAN, SaveModule(ok) PROVE ModulesInv'
  BY <1>7, SayStep, SayOutStep DEF SaveModule
<1>8. ASSUME NEW ok \in BOOLEAN, CreateModule(ok) PROVE ModulesInv'
  BY <1>8, SayStep, SayOutStep DEF CreateModule
<1> QED BY <1>1, <1>2, <1>3, <1>4, <1>5, <1>6, <1>7, <1>8

\* A step before changes are applied: what was read is what there is.
LEMMA EarlyStep ==
  ASSUME ModulesInv, order' = order, store' = store, UtilType', util'.at \in {"edit", "ask"},
         order.target = "board" => util'.old = store
  PROVE  ModulesInv'
BY DEF ModulesInv, OnBoard, Applying

LEMMA LoadStep == ASSUME ModulesInv, LoadAreas PROVE ModulesInv'
<1> DEFINE tidy == [s \in MpfaAreas |-> Rebuild(store[s])]
           buf == [s \in AreaSet |-> IF s \in MpfaAreas THEN tidy[s].w ELSE store[s]]
           spilt == util.spilt \/ \E s \in MpfaAreas : tidy[s].ret = "spilt"
<1> HIDE DEF tidy, buf, spilt
<1>1. order' = order /\ store' = store BY DEF LoadAreas
<1>2. CASE \E said \in {"refused", "crashed"} : util' = Say(util, said)
  BY <1>1, <1>2, SayStep
<1>3. CASE util' = [util EXCEPT !.at = "edit"] /\ order.target # "board"
  <2>1. UtilType' BY <1>3 DEF ModulesInv, UtilType
  <2> QED BY <1>1, <1>3, <2>1, RestStep
<1>4. CASE util' = [util EXCEPT !.old = store, !.at = "edit", !.buf = buf, !.spilt = spilt]
  <2>1. UtilType' /\ util'.old = store /\ util'.at = "edit" BY <1>4 DEF ModulesInv, UtilType
  <2> QED BY <1>1, <2>1, EarlyStep
<1> QED BY <1>2, <1>3, <1>4 DEF LoadAreas, tidy, buf, spilt

LEMMA EditedStep ==
  ASSUME ModulesInv, UtilAt("edit"), order' = order, store' = store, NEW STATE s, NEW STATE r, Edited(s, r)
  PROVE  ModulesInv'
<1> DEFINE buf == [util.buf EXCEPT ![s] = r.w]
           spilt == util.spilt \/ r.ret = "spilt"
<1> HIDE DEF buf, spilt
<1>1. CASE util' = Say(util, "crashed") BY <1>1, SayStep
<1>2. CASE util' = Say(util, r.ret) BY <1>2, SayStep
<1>3. CASE util' = [util EXCEPT !.buf = buf, !.at = "ask", !.spilt = spilt]
  <2>1. UtilType' /\ util'.old = util.old /\ util'.at = "ask" BY <1>3 DEF ModulesInv, UtilType
  <2> QED BY <2>1, EarlyStep DEF ModulesInv, OnBoard, UtilAt
<1>4. [util EXCEPT !.buf[s] = r.w, !.at = "ask", !.spilt = @ \/ r.ret = "spilt"]
          = [util EXCEPT !.buf = buf, !.at = "ask", !.spilt = spilt]
  BY DEF buf, spilt, ModulesInv, UtilType
<1> QED BY <1>1, <1>2, <1>3, <1>4 DEF Edited

LEMMA EditStep == ASSUME ModulesInv, AddModule \/ DelModule \/ SetOem PROVE ModulesInv'
<1>1. CASE AddModule
  <2> DEFINE m == InputOf(Cmd)
             no == AddRefused(m, order.access)
  <2>1. CASE util' = Say(util, no) BY <1>1, <2>1, SayStep DEF AddModule
  <2>2. ASSUME NEW s \in AreaOf(m.kind), Edited(s, Added(util.buf[s], AddAt(s), m)) PROVE ModulesInv'
    BY <1>1, <2>2, EditedStep DEF AddModule
  <2> QED BY <1>1, <2>1, <2>2 DEF AddModule
<1>2. CASE DelModule
  <2>1. CASE util' = Say(util, "notfound") BY <1>2, <2>1, SayStep DEF DelModule
  <2>2. ASSUME NEW s \in AreaOf(Cmd.m.kind),
               Edited(s, Deleted(util.buf[s], AddAt(s), Cmd.m, Cmd.by, order.access))
        PROVE  ModulesInv'
    BY <1>2, <2>2, EditedStep DEF DelModule
  <2> QED BY <1>2, <2>1, <2>2 DEF DelModule
<1>3. CASE SetOem
  BY <1>3, EditedStep DEF SetOem
<1> QED BY <1>1, <1>2, <1>3

\* What a step may write on a board: nothing in an area whose buffer is as it was read.
KeptStep == \A s \in KeptAreas : store'[s] # store[s] => util.buf[s] # util.old[s]

LEMMA PutWords ==
  ASSUME ModulesInv, order.target = "board", util.area \in 1..3, Buf # util.old[Here1],
         NEW STATE ws, store' = [store EXCEPT ![Here1] = ws]
  PROVE  DOMAIN store' = AreaSet /\ KeptStep
<1>1. Here1 \in KeptAreas /\ KeptAreas \subseteq AreaSet BY HereFacts DEF KeptAreas, AreaSet
<1>2. DOMAIN store = AreaSet BY DEF ModulesInv, OnBoard
<1>3. DOMAIN store' = AreaSet BY <1>2
<1>4. \A s \in KeptAreas : s # Here1 => store'[s] = store[s] BY <1>1, <1>2
<1> QED BY <1>3, <1>4 DEF KeptStep, Buf

\* A step of applying the changes to a board.
LEMMA ApplyStep ==
  ASSUME ModulesInv, order' = order, util.at \in Applying \cup {"ask"},
         order.target = "board" => /\ DOMAIN store' = AreaSet /\ KeptStep
                                   /\ util'.area \in 1..3
                                   /\ \/ util'.at \in {"erase", "fill"}
                                      \/ util'.at = "scan" /\ (util'.force \/ util'.first # 0)
                                      => util'.area = util.area /\ Buf # util.old[Here1],
         UtilType', util'.buf = util.buf, util'.old = util.old, util'.at \in Applying \cup {"end"}
  PROVE  ModulesInv'
<1>1. CASE order.target # "board" BY <1>1 DEF ModulesInv
<1>2. CASE order.target = "board"
  <2>1. \A s \in KeptAreas : util.buf[s] = util.old[s] => store'[s] = util.old[s]
    BY <1>2 DEF ModulesInv, OnBoard, KeptStep, Applying
  <2>2. util'.area = util.area => Here1' = Here1 BY DEF Here1, AreaList
  <2>3. OnBoard' BY <1>2, <2>1, <2>2 DEF OnBoard, Buf, Applying
  <2> QED BY <1>2, <2>3 DEF ModulesInv
<1> QED BY <1>1, <1>2

LEMMA TryAgainStep ==
  ASSUME ModulesInv, order' = order, util.at \in Applying, TryAgain,
         order.target = "board" => DOMAIN store' = AreaSet /\ KeptStep
  PROVE  ModulesInv'
<1>1. CASE util' = [Afresh(util) EXCEPT !.outer = util.outer + 1]
  <2> DEFINE outer == util.outer + 1
  <2> HIDE DEF outer
  <2>1. util' = [Afresh(util) EXCEPT !.outer = outer] BY <1>1 DEF outer
  <2>2. /\ UtilType' /\ util'.buf = util.buf /\ util'.old = util.old /\ util'.at = "scan"
        /\ util'.area = 1 /\ ~util'.force /\ util'.first = 0
    BY <2>1 DEF Afresh, ModulesInv, UtilType
  <2> QED BY <2>2, ApplyStep DEF Applying
<1>2. CASE util' = Say(util, "failed")
  <2>1. UtilType' /\ util'.buf = util.buf /\ util'.old = util.old /\ util'.at = "end" /\ util'.area = util.area
    BY <1>2 DEF Say, ModulesInv, UtilType
  <2> QED BY <2>1, ApplyStep DEF ModulesInv, OnBoard, Applying
<1>3. [Afresh(util) EXCEPT !.outer = @ + 1] = [Afresh(util) EXCEPT !.outer = util.outer + 1]
  BY DEF Afresh, ModulesInv, UtilType
<1> QED BY <1>1, <1>2, <1>3 DEF TryAgain

LEMMA UnwrittenStep == ASSUME ModulesInv, store' = store
                       PROVE  order.target = "board" => DOMAIN store' = AreaSet /\ KeptStep
BY DEF ModulesInv, OnBoard, KeptStep

LEMMA AskProtectedStep == ASSUME ModulesInv, NEW ok \in BOOLEAN, AskProtected(ok) PROVE ModulesInv'
<1>1. util.at = "ask" /\ order' = order /\ store' = store BY DEF AskProtected, UtilAt
<1>2. CASE util' = Say(util, "protected") BY <1>1, <1>2, SayStep
<1>3. CASE order.target = "board" /\ util' = [Afresh(util) EXCEPT !.outer = 0]
  <2>1. /\ UtilType' /\ util'.buf = util.buf /\ util'.old = util.old /\ util'.at = "scan"
        /\ util'.area = 1 /\ ~util'.force /\ util'.first = 0
    BY <1>3 DEF Afresh, ModulesInv, UtilType
  <2> QED BY <1>1, <2>1, UnwrittenStep, ApplyStep DEF Applying
<1>4. CASE order.target # "board" /\ util' = [util EXCEPT !.at = "trunc", !.outer = 0]
  <2>1. UtilType' BY <1>4 DEF ModulesInv, UtilType
  <2> QED BY <1>1, <1>4, <2>1, RestStep
<1> QED BY <1>2, <1>3, <1>4 DEF AskProtected

LEMMA ReadFailsStep == ASSUME ModulesInv, ReadFails PROVE ModulesInv'
BY UnwrittenStep, TryAgainStep DEF ReadFails, UtilAt, Applying

\* What differs, or asks for an erase, has another buffer than what was read.
LEMMA DiffersFacts ==
  ASSUME ModulesInv, order.target = "board", util.at = "scan", Differs(util.blk) # {} \/ MustErase(util.blk)
  PROVE  Buf # util.old[Here1]
<1>1. CASE util.force BY <1>1 DEF ModulesInv, OnBoard
<1>2. CASE ~util.force
  <2>1. PICK w : Buf[w] # Img[w]
    <3>1. CASE Differs(util.blk) # {} BY <3>1 DEF Differs
    <3>2. CASE MustErase(util.blk)
      <4>1. PICK w \in Looked(util.blk) : ~Falls(Img[w], Buf[w]) BY <1>2, <3>2 DEF MustErase
      <4> QED BY <4>1 DEF Falls
    <3> QED BY <3>1, <3>2
  <2>2. Buf # Img BY <2>1
  <2>3. Here1 \in KeptAreas BY HereFacts DEF ModulesInv, OnBoard, Applying
  <2> QED BY <2>2, <2>3 DEF ModulesInv, OnBoard, Applying, Buf, Img
<1> QED BY <1>1, <1>2

LEMMA ScanStep == ASSUME ModulesInv, Scan PROVE ModulesInv'
<1> DEFINE next == util.blk + 1
           last == Max(Differs(util.blk))
           first == IF util.first = 0 THEN Min(Differs(util.blk)) ELSE util.first
<1> HIDE DEF next, last, first
<1>1. util.at = "scan" /\ order' = order /\ store' = store BY DEF Scan, UtilAt
<1>2. order.target = "board" => util.area \in 1..3 BY <1>1 DEF ModulesInv, OnBoard, Applying
<1>3. CASE MustErase(util.blk) /\ util' = [util EXCEPT !.at = "erase", !.first = 0, !.last = 0, !.inner = 0]
  <2>1. /\ UtilType' /\ util'.buf = util.buf /\ util'.old = util.old /\ util'.at = "erase" /\ util'.area = util.area
    BY <1>3 DEF ModulesInv, UtilType
  <2> QED BY <1>1, <1>2, <1>3, <2>1, DiffersFacts, UnwrittenStep, ApplyStep DEF Applying
<1>4. CASE util' = [util EXCEPT !.blk = next]
  <2>1. /\ UtilType' /\ util'.buf = util.buf /\ util'.old = util.old /\ util'.at = "scan" /\ util'.area = util.area
        /\ util'.force = util.force /\ util'.first = util.first
    BY <1>1, <1>4 DEF ModulesInv, UtilType
  <2> QED BY <1>1, <1>2, <2>1, UnwrittenStep, ApplyStep DEF Applying, ModulesInv, OnBoard
<1>5. CASE Differs(util.blk) # {} /\ util' = [util EXCEPT !.blk = next, !.last = last, !.first = first]
  <2>1. /\ UtilType' /\ util'.buf = util.buf /\ util'.old = util.old /\ util'.at = "scan" /\ util'.area = util.area
    BY <1>1, <1>5 DEF ModulesInv, UtilType
  <2> QED BY <1>1, <1>2, <1>5, <2>1, DiffersFacts, UnwrittenStep, ApplyStep DEF Applying
<1>6. /\ [util EXCEPT !.blk = @ + 1] = [util EXCEPT !.blk = next]
      /\ [util EXCEPT !.blk = @ + 1, !.last = Max(Differs(util.blk)),
                      !.first = IF @ = 0 THEN Min(Differs(util.blk)) ELSE @]
             = [util EXCEPT !.blk = next, !.last = last, !.first = first]
  BY DEF next, last, first, ModulesInv, UtilType
<1> QED BY <1>3, <1>4, <1>5, <1>6 DEF Scan

\* After a failed erase or write.
LEMMA Failed1Step ==
  ASSUME ModulesInv, order' = order, util.at \in {"erase", "fill"}, Failed1,
         order.target = "board" => DOMAIN store' = AreaSet /\ KeptStep
  PROVE  ModulesInv'
<1> DEFINE inner == util.inner + 1
<1> HIDE DEF inner
<1>1. CASE TryAgain BY <1>1, TryAgainStep DEF Applying
<1>2. CASE util' = [util EXCEPT !.at = "erase", !.inner = inner]
  <2>1. /\ UtilType' /\ util'.buf = util.buf /\ util'.old = util.old /\ util'.at = "erase" /\ util'.area = util.area
    BY <1>2 DEF ModulesInv, UtilType
  <2> QED BY <2>1, ApplyStep DEF Applying, ModulesInv, OnBoard
<1>3. [util EXCEPT !.at = "erase", !.inner = @ + 1] = [util EXCEPT !.at = "erase", !.inner = inner]
  BY DEF inner, ModulesInv, UtilType
<1> QED BY <1>1, <1>2, <1>3 DEF Failed1

\* What writes an area at hand that differs from what was read keeps the others.
LEMMA WrittenFacts ==
  ASSUME ModulesInv, util.at \in Applying, Buf # util.old[Here1] \/ order.target # "board",
         store' = store \/ \E ws : store' = [store EXCEPT ![Here1] = ws]
  PROVE  order.target = "board" => DOMAIN store' = AreaSet /\ KeptStep
<1> SUFFICES ASSUME order.target = "board" PROVE DOMAIN store' = AreaSet /\ KeptStep OBVIOUS
<1>1. util.area \in 1..3 BY DEF ModulesInv, OnBoard
<1> QED BY <1>1, UnwrittenStep, PutWords

LEMMA EraseAreaStep ==
  ASSUME ModulesInv, NEW ok \in BOOLEAN, EraseAreaBlock(ok)
  PROVE  ModulesInv' /\ (order.target = "board" => KeptStep)
<1>1. util.at = "erase" /\ order' = order BY DEF EraseAreaBlock, UtilAt
<1>2. order.target = "board" => Buf # util.old[Here1] /\ util.area \in 1..3
  BY <1>1 DEF ModulesInv, OnBoard, Applying
<1>3. CASE ok /\ CanWrite
  <2>1. store' = [store EXCEPT ![Here1] = [w \in DOMAIN store[Here1] |->
                      IF w \in WordsIn(util.blk) THEN BlankWord ELSE store[Here1][w]]]
    BY <1>3 DEF EraseAreaBlock
  <2>2. order.target = "board" => DOMAIN store' = AreaSet /\ KeptStep
    BY <1>1, <1>2, <2>1, WrittenFacts DEF Applying
  <2>3. util' = [util EXCEPT !.at = "fill"] BY <1>3 DEF EraseAreaBlock
  <2>4. /\ UtilType' /\ util'.buf = util.buf /\ util'.old = util.old /\ util'.at = "fill" /\ util'.area = util.area
    BY <2>3 DEF ModulesInv, UtilType
  <2> QED BY <1>1, <1>2, <2>2, <2>4, ApplyStep DEF Applying
<1>4. CASE ~(ok /\ CanWrite)
  BY <1>1, <1>4, UnwrittenStep, Failed1Step DEF EraseAreaBlock
<1> QED BY <1>3, <1>4

LEMMA WrittenForm == ASSUME NEW STATE ws, Written(ws) PROVE \E w : store' = [store EXCEPT ![Here1] = w]
BY DEF Written

LEMMA FillStep ==
  ASSUME ModulesInv, NEW ok \in BOOLEAN, FillBlock(ok)
  PROVE  ModulesInv' /\ (order.target = "board" => KeptStep)
<1>1. util.at = "fill" /\ order' = order BY DEF FillBlock, UtilAt
<1>2. order.target = "board" => Buf # util.old[Here1] /\ util.area \in 1..3
  BY <1>1 DEF ModulesInv, OnBoard, Applying
<1>3. \E ws : Written(ws)
  <2> DEFINE begun(n) == {w \in WordsIn(util.blk) : w <= (util.blk - 1) * BlockWords + n}
  <2> HIDE DEF begun
  <2>1. Written(WordsIn(util.blk)) \/ \E n \in Cuts(BlockWords) : Written(begun(n)) BY DEF FillBlock, begun
  <2> QED BY <2>1
<1>4. \E ws : store' = [store EXCEPT ![Here1] = ws] BY <1>3, WrittenForm
<1>5. order.target = "board" => DOMAIN store' = AreaSet /\ KeptStep
  BY <1>1, <1>2, <1>4, WrittenFacts DEF Applying
<1>6. CASE ok
  <2> DEFINE next == util.blk + 1
  <2> HIDE DEF next
  <2>1. util' = [util EXCEPT !.at = "scan", !.blk = next] BY <1>6 DEF FillBlock, next, ModulesInv, UtilType
  <2>2. /\ UtilType' /\ util'.buf = util.buf /\ util'.old = util.old /\ util'.at = "scan" /\ util'.area = util.area
    BY <2>1 DEF ModulesInv, UtilType
  <2> QED BY <1>1, <1>2, <1>5, <2>2, ApplyStep DEF Applying
<1>7. CASE ~ok
  BY <1>1, <1>5, <1>7, Failed1Step DEF FillBlock
<1> QED BY <1>5, <1>6, <1>7

LEMMA GatheredStep ==
  ASSUME ModulesInv, NEW ok \in BOOLEAN, WriteGathered(ok)
  PROVE  ModulesInv' /\ (order.target = "board" => KeptStep)
<1>1. util.at = "scan" /\ order' = order /\ util.first # 0 BY DEF WriteGathered, UtilAt
<1>2. order.target = "board" => Buf # util.old[Here1] /\ util.area \in 1..3
  BY <1>1 DEF ModulesInv, OnBoard, Applying
<1>3. store' = store \/ \E ws : Written(ws)
  BY DEF WriteGathered
<1>4. store' = store \/ \E ws : store' = [store EXCEPT ![Here1] = ws] BY <1>3, WrittenForm
<1>5. order.target = "board" => DOMAIN store' = AreaSet /\ KeptStep
  BY <1>1, <1>2, <1>4, WrittenFacts DEF Applying
<1>6. util' \in {[util EXCEPT !.first = 0, !.last = 0],
                 [util EXCEPT !.blk = 1, !.first = 0, !.last = 0, !.force = TRUE]}
  BY DEF WriteGathered
<1>7. /\ UtilType' /\ util'.buf = util.buf /\ util'.old = util.old /\ util'.at = "scan" /\ util'.area = util.area
  BY <1>1, <1>6 DEF ModulesInv, UtilType
<1> QED BY <1>1, <1>2, <1>5, <1>7, ApplyStep DEF Applying

LEMMA NextAreaStep == ASSUME ModulesInv, NextArea PROVE ModulesInv'
<1> DEFINE next == util.area + 1
<1> HIDE DEF next
<1>1. util.at = "scan" /\ order' = order /\ store' = store /\ util.first = 0 BY DEF NextArea, UtilAt
<1>2. CASE util' = [util EXCEPT !.at = "verify"]
  <2>1. /\ UtilType' /\ util'.buf = util.buf /\ util'.old = util.old /\ util'.at = "verify" /\ util'.area = util.area
    BY <1>2 DEF ModulesInv, UtilType
  <2> QED BY <1>1, <2>1, UnwrittenStep, ApplyStep DEF Applying, ModulesInv, OnBoard
<1>3. CASE /\ util.area # Len(AreaList)
           /\ util' = [util EXCEPT !.area = next, !.blk = 1, !.force = FALSE]
  <2>1. /\ UtilType' /\ util'.buf = util.buf /\ util'.old = util.old /\ util'.at = "scan" /\ util'.area = next
        /\ ~util'.force /\ util'.first = 0
    BY <1>1, <1>3 DEF ModulesInv, UtilType
  <2>2. order.target = "board" => next \in 1..3
    <3> SUFFICES ASSUME order.target = "board" PROVE next \in 1..3 OBVIOUS
    <3>1. util.area \in 1..3 BY <1>1 DEF ModulesInv, OnBoard, Applying
    <3>2. util.area # 3 BY <1>3, <3>1, HereFacts
    <3> QED BY <3>1, <3>2 DEF next
  <2> QED BY <1>1, <2>1, <2>2, UnwrittenStep, ApplyStep DEF Applying
<1>4. [util EXCEPT !.area = @ + 1, !.blk = 1, !.force = FALSE] = [util EXCEPT !.area = next, !.blk = 1, !.force = FALSE]
  BY DEF next, ModulesInv, UtilType
<1> QED BY <1>2, <1>3, <1>4 DEF NextArea

LEMMA VerifyAreasStep == ASSUME ModulesInv, VerifyAreas PROVE ModulesInv'
<1>1. util.at = "verify" /\ order' = order /\ store' = store BY DEF VerifyAreas, UtilAt
<1>2. CASE util' = Say(util, "done") BY <1>1, <1>2, SayStep
<1>3. CASE TryAgain BY <1>1, <1>3, UnwrittenStep, TryAgainStep DEF Applying
<1> QED BY <1>2, <1>3 DEF VerifyAreas

\* A file that is written over is not a board.
LEMMA FileStep ==
  ASSUME ModulesInv, NEW ok \in BOOLEAN, Truncate(ok) \/ WriteArea(ok)
  PROVE  ModulesInv' /\ order.target # "board"
<1>1. order.target # "board" /\ order' = order BY DEF Truncate, WriteArea, UtilAt, ModulesInv, OnBoard
<1>2. UtilType'
  <2> DEFINE area == util.area + 1
             outer == util.outer + 1
  <2>1. \/ \E said \in {"failed", "done"} : util' = Say(util, said)
        \/ util' = [util EXCEPT !.at = "fwrite", !.area = 1]
        \/ util' = [util EXCEPT !.area = area]
        \/ util' = [util EXCEPT !.at = "trunc", !.outer = outer]
    BY DEF Truncate, WriteArea, ModulesInv, UtilType
  <2> HIDE DEF area, outer
  <2> QED BY <2>1 DEF Say, ModulesInv, UtilType
<1> QED BY <1>1, <1>2 DEF ModulesInv

LEMMA ModulesStep ==
  ASSUME ModulesInv, [ModulesNext]_moduleVars
  PROVE  ModulesInv' /\ (order.target = "board" => KeptStep)
<1>1. CASE \/ LoadFails \/ InputFails \/ CmpModule \/ ListModules \/ KillUtil \/ NextCommand
           \/ \E ok \in BOOLEAN : SaveModule(ok) \/ CreateModule(ok)
  <2>1. store' = store
    BY <1>1 DEF LoadFails, InputFails, CmpModule, ListModules, KillUtil, NextCommand, SaveModule, CreateModule
  <2> QED BY <1>1, <2>1, QuietStep, UnwrittenStep
<1>2. CASE LoadAreas \/ AddModule \/ DelModule \/ SetOem
  BY <1>2, LoadStep, EditStep, UnwrittenStep DEF LoadAreas, AddModule, DelModule, SetOem
<1>3. CASE ReadFails \/ Scan \/ NextArea \/ VerifyAreas
  BY <1>3, ReadFailsStep, ScanStep, NextAreaStep, VerifyAreasStep, UnwrittenStep
  DEF ReadFails, Scan, NextArea, VerifyAreas
<1>4. ASSUME NEW ok \in BOOLEAN, AskProtected(ok) PROVE ModulesInv' /\ (order.target = "board" => KeptStep)
  BY <1>4, AskProtectedStep, UnwrittenStep DEF AskProtected
<1>5. ASSUME NEW ok \in BOOLEAN, EraseAreaBlock(ok) \/ FillBlock(ok) \/ WriteGathered(ok) \/ Truncate(ok) \/ WriteArea(ok)
      PROVE  ModulesInv' /\ (order.target = "board" => KeptStep)
  BY <1>5, EraseAreaStep, FillStep, GatheredStep, FileStep
<1>6. CASE UNCHANGED moduleVars
  <2>1. order' = order /\ store' = store /\ util' = util BY <1>6 DEF moduleVars
  <2>2. ModulesInv' BY <2>1 DEF ModulesInv, UtilType, OnBoard, Buf, Here1, AreaList
  <2> QED BY <2>1, <2>2, UnwrittenStep
<1> QED BY <1>1, <1>2, <1>3, <1>4, <1>5, <1>6 DEF ModulesNext

\* While changes are applied to a board, an area whose buffer is as it was read
\* is as it was read, and no other is being erased or written.
\* (CgMpfaApplyChanges, ApplyChangesToCgos)
THEOREM ModulesInvariant == ModulesSpec => []ModulesInv
BY ModulesInitial, ModulesStep, PTL DEF ModulesSpec

\* On a board nothing is erased or written in an area whose buffer is as it was
\* read, whatever fails and is tried again elsewhere.
\* (CgMpfaApplyChanges, ApplyChangesToCgos)
THEOREM ModulesLeftAlone == ModulesSpec => ModulesKept
<1>1. ModulesInv /\ [ModulesNext]_moduleVars =>
          [order.target = "board" =>
              \A s \in MpfaAreas \cup {"user"} : store'[s] # store[s] => util.buf[s] # util.old[s]]_moduleVars
  BY ModulesStep DEF KeptStep, KeptAreas
<1> QED BY <1>1, ModulesInvariant, PTL DEF ModulesSpec, ModulesKept
============================================================================
