# pyPackage: a verification development

TLA+ models of the production-test software in this repository, the TLC runs
that check them, and the theorems about them that TLAPS proves. The code is the
reference: every definition is translated from it, and `PROJECT.json` names the
lines each definition stands for.

## The system

pyPackage runs on test stations of a computer factory. An operator boots a unit
from the station's disk, `pyMenu.py` comes up, a part number is set, a test is
started, the operator types the unit's serial number, the checks run, and the
log is filed as passed or the operator is prompted. The hardware the tests look
at is reached through command line tools, some of which are built in this
repository (`tools/`).

### Inventory

| Component | State it keeps | Operations | Interacts with |
|---|---|---|---|
| Operator menu, `pyMenu.py` | none in memory but `pn`; writes `dataBase` and `t.sh` | part number, start a test program, OS restore dialogue, updates (`copyLog`, `gitPull`, `pcloudPull`), power off | starts everything else with a blocking `sh t.sh` |
| Assembly tests, `testAssy.py` | `pn`, `funcSelect`, `sn` | one function per board: a fixed list of checks; `default`; `passGreen` | library below |
| PCBA tests, `testPcba.py` | as above, without `funcSelect` | as above | library below |
| Burn-in, `testBi.py` | `biTotal`, `stressTime`, the round's clock | `biMenu`, `biStress` | `stress-ng` in the background, `failRed` |
| OS restore, `osClone.py` | flag `osFlagSave` of the database | `osClone`, `osCloneFix` | Clonezilla |
| Other menu, `testOther.py` | none | folder updates, MBR repair, back to the menu | external tools |
| Test library, `moduleSys.py` | `log`, `logPass`, `sn`; the shelve `dataBase` (`pnSave`, `osFlagSave`, `logPass`); `t.sh`; the log folder | `snGet`, the checks, `failRed`, `passGreen`, `funcMenu`, `pnInput`, `uartLoop`, log copies | every test script |
| AIC checks, `moduleEbk.py` | last line parsed of each answer | `aicVersion`, `aicPoe`, `aicFan`, `aicIdioConfig`, `aicDio` | EKit_L tools over a pipe |
| Master station, `master.py`, `lmde5-mm.py` | chosen disk | build images, sync folders | `dd`, `rclone`, `git` |
| EKit_L library, `tools/EKit_L/DMCI.c` | the chipset's SMBus host controller; for each program the static variables that cache the AIC's identity, counts, descriptions and cursors; the pins of the Super I/O chip | SMBus transactions; some two hundred calls on the AIC's counts, PoE, ports, fans, watchdogs, monitors, and on the terminals | every program linked with it, through the controller and the AIC's registers |
| Display library, `tools/EKit_L/DDMI.c` | static variables for the panel's pages, versions, size | pages, sequences, descriptions, rows of text, saving | as DMCI |
| EKit_L tools, `DMCT*.c` | the answers last read, kept to be printed again | menus and pages; the checks of `moduleEbk.py` type to them | DMCI, DDMI; a pipe |
| congatec CGOS driver and library, `tools/cgoslx*` | the driver's board, one request at a time; for each program its use count and handle | load, open, about a hundred functions through one ioctl, unload | the BIOS's CGEB entry |
| Carrier check, `cgosi2c_gpio`, `moduleCg.py` | none | drives outputs of a port expander, prints its inputs; the check reads the last line | CGOS library |
| congatec BIOS utility, `tools/cgutillx` | the flash: blocks, lock, protection, modules; a BIOS file | update the BIOS, lock and unlock; add, delete, compare, save, create modules | CGOS library |
| Intel NIC driver, modpoll, diagslave, UEFI tools, CgosPy, reports | - | - | vendored binaries and assets |

### What is hard in it

* **A stack of processes over shared files.** Every script starts the next with
  `subprocess.call("sh t.sh")`, which blocks, and *continues afterwards*. A
  failed check re-tests by starting `t.sh` again; when the nested test is done
  the failed run goes on where it was. All these processes write one
  `dataBase`, one `t.sh`, and log names that collide for retests of one unit.
* **Shutdown is a request.** `systemctl poweroff` returns; the script runs on
  until it is stopped, anywhere.
* **Checked state is elsewhere when used.** `passGreen` reads its target name
  from the shared database; `osCloneFix` reads a flag another process may have
  set or cleared.
* **A lock that is one bit of a device.** On Linux the SMBus mutex is compiled
  out; programs keep apart only by the INUSE bit of the host status register,
  which three different writes clear, two of them without knowing whose it is.
* **Words that are shared bit by bit.** The AIC's DEVCTRL, its port registers and
  AICCFG hold bits of several devices. Every call reads a word, changes its own
  bits and writes all of it, in two transfers of which either may fail; the mutex
  that would keep another program from coming between them is commented out.
* **Caches without an owner.** What a program learnt of the AIC stays in static
  variables, filled in several transfers; a second program has its own.
* **A flash that is written piece by piece.** The BIOS update and the module
  command erase and write blocks with retries; the tool may be killed and the
  power may go between any two, and then the tool is run again.
* **Time that passes elsewhere.** A burn-in's round measures wall-clock time,
  the prompt of a failure included, and its stress load runs on a clock of its
  own.

`PROJECT.json` lists the hazards at their lines, each with the properties that
would catch it.

### What makes each component correct

* Session: a unit's log contains only this unit, is filed under its name when
  and only when it passed; the restore flag is this unit's; a retest runs the
  test that failed.
* SMBus: one program at a time drives the controller; what a call reads answers
  its own command; every call returns; a bus somebody died on is recovered.
* Burn-in: takes the time the menu names, watched and loaded all along.
* AIC: a bound is the board's number; what a call tells is what the board has;
  what a call sets is set; what it does not name stays as it was.
* Terminals: a group set up stays set up whatever is called on the other one.
* Tool and its checks: a row printed is what the AIC answered; a check that
  passes has seen what it asks about.
* Display: what a program is told of the pages is so, what it sets is set.
* CGOS: an answer is that of the thing asked for; the driver holds exactly what
  it needs.
* BIOS utility: an update that is told to be done is done, keeps the board's own
  data and never writes more than was asked for; modules that no command names
  stay.

## Modules

| Module | Models | Proofs |
|---|---|---|
| `TestStation` (`MCTestStation`) | menus, test programs, session, restore, power | `TestStationProofs` |
| `SmbusLock` (`MCSmbusLock`) | arbitration of the SMBus host controller in DMCI.c | `SmbusLockProofs` |
| `BusLock` | what that arbitration promises its callers: the abstract bus | |
| `SmbusRefinement` | the mapping from `SmbusLock` to `BusLock` | `SmbusLockProofs` |
| `BurnIn` (`MCBurnIn`) | the clock of `biStress` | `BurnInProofs` |
| `AicCounts` | what a program caches of the AIC: identity, counts, versions | `AicLibraryProofs` |
| `AicPoe` | the PoE calls and the buzzer | `AicPoeProofs` |
| `AicPorts` | COM, mini PCIe, USB, LAN and power mode | `AicLibraryProofs` |
| `AicSensors` | watchdogs, fans, voltage monitors | `AicLibraryProofs` |
| `AicLibrary` (`MCEKit`) | those four composed: programs that share the AIC | `AicLibraryProofs`, `AicPoeProofs` |
| `AicDio` | terminals and GPIO of the Super I/O chip | `ToolsProofs` |
| `AicTool`, `AicIoPages` | the menus and pages of DMCT | |
| `AicChecks` | the checks of `moduleEbk.py` that type to the tool | |
| `AicDisplay` (`MCDisplay`) | the OLED panel as DDMI knows it | `ToolsProofs` |
| `MCTools` | composes `AicTool`, `AicChecks`, `AicIoPages` with `AicDio`, `AicDisplay`; runs `BurnIn` beside them | |
| `Cgos` | the CGOS library, its ioctl and the driver | `CgosProofs` |
| `CgosGpio` | the carrier check over `Cgos` | `CgosProofs` |
| `BiosFlash` (`MCFlash`) | the BIOS update | `UtilityProofs` |
| `BiosModules` (`MCModules`) | the module command | `UtilityProofs` |
| `MCCongatec` | composes `CgosGpio`, `BiosFlash`, `BiosModules` for one run | |

`BurnIn` details what `TestStation` abstracts to a stress check that may fail
and is then repeated. `AicCounts` to `AicLibrary` and `AicDisplay` take one SMBus
transfer as one step, which is what `BusLock` promises them. `AicTool` and
`AicChecks` stand on what the library answers; to `TestStation` a check of the
hardware is one that passes, fails or raises.

### TestStation

State and code:

| Variable | In the code |
|---|---|
| `depth`, `frame` | the live Python processes, a stack because `subprocess.call` blocks; a frame has the process's `pn`, `funcSelect`, `sn`, its log handler `fh`, the check it is at (`step`), and the history bit `failed` |
| `tsh` | the script named in `t.sh` |
| `db` | the shelve `dataBase`: `pnSave`, `osFlagSave`, `logPass` |
| `work`, `pass` | directory entries of the working and the PASS folder: name to file |
| `lines` | for each file, the unit it was created for and its last verdict line |
| `power` | whether a shutdown has been requested |

Names and files are kept apart as in the file system: `os.replace` moves a
name, a `FileHandler` keeps writing to the file it opened. One action stands for
one stretch of a script between two points where it waits or calls: a menu
choice (`MenuTest`, `MenuPn`, `MenuClone`, ...), `snGet` (`SnGet`, `SnGetBack`,
`SnGetNameError`), one check (`CheckPass`, `TempPass`, `ClonePass`, `CheckFail`,
`CheckRaise`), the key at `failRed`'s prompt (`RedKey`), `passGreen` in its
steps (`PassGreen`, `Replace` or `ReplaceMissing`, `GreenKey`, `PowerOff`), and
`Halt`, which stands for a carried out shutdown, a power failure and Ctrl-C of
the whole session. `Exit` and `Resume` say where a caller continues.

Abstractions. A check is of a kind: `check` (may pass, fail, raise), `temp`
(sets the flag when it passes), `clone` (the gate of the restore), `image` (the
restore of `osClone.py`), `stress` (`biStress`, repeated after a failure). What
a check compares is not modelled. Log names carry part number, function and
serial number; model and date, equal for all sessions of a unit on one day, are
left out, so a session past midnight is not covered. `Update` stands for
`pcloudPull` as far as it replaces `t.sh` and `dataBase`; replacing the scripts
themselves while they run is not modelled.

Properties, all about *clean* sessions (no check has failed yet; exactly then no
other process can have run in between): `CleanSessionOwnsDb`,
`CleanSessionOwnsLog`, `OsFlagIsThisUnits`, `RetestRunsThisTest`,
`CleanRunIsFiled`; and about all: `OneUnitPerFile`. Three statements the
station's own prompts make are *not* true of the code, see findings.

### SmbusLock

One action is one access of the controller's ports with the decision the program
takes on it, so programs interleave between any two port accesses of the
arbitration.

| Variable | In the code |
|---|---|
| `sts` | HST_STS: INUSE, BUSY, INTR, and `err` for the three error bits |
| `slave`, `d0` | XMIT_SLVA with HST_CMD, and the data registers: whose values they hold |
| `job` | the transfer the controller is working on |
| `pc`, `tries`, `only`, `got` | where each program is; PROC_IDX, PROC_IDX_; the answer it read |
| `torn` | history: a program cleared an INUSE bit that belonged to another, or to a transfer still running for a dead one |
| `crashes` | programs killed so far |

`PreRead` ... `PreSteal` are EkSMBusPre, `SetSlave`, `SetData`, `Start` the
transaction, `ProcRead` EkSMBusProc, `Fetch` the read of the answer, `ExitKill`
and `ExitWipe` EkSMBusExit, `PeekRead` and `PeekClear` the register dump
EkDMCiSMBGetHST. `HwDone`, `HwFail`, `ReadSts`, `Kill` are the controller as the
library relies on it: reading the status takes INUSE, writing a one clears a
bit, START while busy is ignored.

Abstractions. The registers written before START are grouped by what a mix-up
would change (whose command, whose data); the triple access that kills a
transfer is one step; the three error bits are one; block transfers run in the
32-byte buffer mode the library is built for, so BYTE_DONE is left out. The
kernel's own SMBus driver and the PCI configuration ports are not modelled.

What the model makes visible. The INUSE bit is a lock exactly until somebody
clears a bit that is not his. Three places can: the error path of EkSMBusPre
(any poller that sees an error, including the momentary one a holder's own
KILL raises), the steal (ten polls that saw INUSE alone, not necessarily of one
holder, and with the write after the read it rests on), and the register dump.
`Exclusive` and `OwnAnswer` are therefore stated up to that moment and say nothing
after it, and `TornBy` says which steps bring it: the steal after `StealAfter`
sightings of a lone INUSE, whatever happens, and the other two only where a
transfer can fail or hang, a program be killed or a dump be asked for;
EkSMBusExit never. With the code's own numbers, 500 polls of which about ten
need see INUSE alone, a caller that polls beside busy holders does meet the steal.
No comment or document of the library promises more, so none of this is listed as
a finding.

`BusLock` states the promise in six actions: a caller asks, is granted the bus
when nobody uses it and no transfer is on it, sends its own command, reads the
answer to it, and leaves; a transfer ends. `SmbusRefinement` maps polling to
waiting, holding INUSE to using, `job` to the transfer on the bus and `got` to
the answer. `KeepsPromise` is the abstract specification under this mapping. The
promise is void once `torn`: what several holders do to each other afterwards
has no abstract meaning.

### BurnIn

`now` is the time since `biStress` began, in units of the one-second sleep;
`load` the end of the last `stress-ng`; the rest are the function's variables.
`Jitter` is what a reading costs beyond the sleep. A prompt costs any time up to
`MaxAway` and may start a nested burn-in's load. The final comparison of
`biCount` with `biTotal` never fails (the loop leaves it at `biTotal + 1`), so
`Finish` has no failing branch. `serialTest` runs only if the board's name
equals the literal `V2C|V3C`, a pattern no board name is, and is left out.
`biStressRoom` and `biStressCheck` are called nowhere.

### AicCounts, AicPoe, AicPorts, AicSensors, AicLibrary

The AIC is a microcontroller behind the SMBus. One action is one transfer to it
with the decisions taken on the answer, up to the next transfer; each may fail.
The library is modelled as it is built on Linux, the only build in the repository:
the body of EkSMBusBlockWait, with which every call begins, is commented out there
and returns TRUE, so programs are kept apart by the SMBus alone, transfer by
transfer, and never call by call.

| Variable | In the code |
|---|---|
| `scene` | which programs there are and what they call |
| `board`, `ctrl`, `port`, `poecfg`, `poeinfo`, `reg` | the AIC: what its flash says, DEVCTRL, the ports that look for a device, the group last asked for, its other registers |
| `lib`, `memo` | each program's static variables: identity, counts, versions; descriptions of monitors, watchdog seconds |
| `pc`, `op`, `err`, `ret` | the next transfer, the call, whether `Err` is set, what it returned |
| `call`, `cursor`; `task`, `next` | the arguments and the work left of a PoE call and of another, and the cursors of calls without ids |
| `faults` | transfers that failed |

`Enter`, `Query`, `SelectCounts` ... `CountDone` are the entry of a call (with the
EkSMBusBlockWait that waits for nothing), EkSMBusDetectID and EkSMBusGetCount; each call of the library is an action of its
own name that checks its arguments and says which transfer comes first;
`ReadPort`, `ReadToSet`, `WritePort`, `ReadCtrlSet`, `CloseSwitch`, `WriteFanWord`
and their like are the transfers, shared by the calls that make them. The
forms of a call (`_1`, `NI`, `A`, `W`) are actions where they differ.

Properties. `BoundsMeanCounts`: the bound a call compares an id with is the
number the board has for that group. `FirmwareKnown`: the version a program
remembers is a whole one. `PoeTold`, `FansTold`, `DogsTold`: what is told is what
the board has. `SetsObeyed`: a set that returned TRUE was obeyed for all it
named. `OnlyNamed`, `BitsKept`: what a set writes touches nothing else.
`UsbStaysOn`: the last USB port is never switched off. `DescriptionsOwn`: no
monitor's description is kept as another's. `PoeTold` is three things:
`ConfigTruth`, how ports are set; `InfoTruth`, which ports there are; `StatTruth`,
what they draw.

Which of them are of a program alone. `BoundsMeanCounts`, `DescriptionsOwn`,
`UsbStaysOn` and `OnlyNamed` hold of any number of programs; the first three are
checked with two (scenes `shared`, `monitors`, `rivals`). `FirmwareKnown`, `PoeTold`,
`SetsObeyed`, `BitsKept`, `FansTold` and `DogsTold` are said of a program that has the AIC for
itself (`Alone`), because nothing keeps another from calling between its
transfers. `CallsKeptApart` says of any programs what `BitsKept` says of one alone; the
run `ekit_pair` refutes it, see findings.

Values are abstracted to what can be told apart: a duty is slow, fast or rising;
`N` devices stand for up to sixteen; a count is 0, 1 or 2.

### AicDio

The terminals, two groups of sixteen on the pins of the Super I/O chip.
`chip` has the latches, the pins that drive, the levels outside and the groups
that were routed to GPIO; `mem` is the program's memory: whether the counts are
known, which groups were set up, which way their outputs switch. An action is one call
of one program: nothing keeps a second program from the chip's index register,
and no property would survive one. `DioHolds`: what Init promised lasts, and
calls for one terminal tell what the calls for all tell. `PinsObey`,
`GroupsApart`: setting a terminal changes that one, and nothing of the other
group although they share bytes. Exceptions the code makes are in the
definitions: output 2 of group 2 has a wrong bit, `SetGPIO2Pin` looks at group 1.

### AicTool, AicChecks, AicIoPages

`AicTool` is DMCT: `page`, `prompt`, `libs`, `got`, `held` (the arrays kept to be
printed again) and `shown` (the rows of the last page). One action is one page:
what it asks the AIC, what it prints, the line it reads. `RowsTold`: a row printed
is what the AIC answered when the page asked, or what it answered before if the
page does not ask again. `AicChecks` types the lines of
`moduleEbk.py` to it and judges the rows; `AicIoPages` is the part for the
terminals over `AicDio`, where a page makes several calls. `ChecksMean`: a check
that passes saw a row of that thing which is good, and the terminals were as it
asked for. Layout is abstracted to rows of values. Two limits: `RowsTold` is about
the rows of lists, not about the single values (temperature, direction) that
a page prints from a variable it may not have read again; and `ChecksMean` leaves
out `aicTemp`, which rests on one of these.

### AicDisplay

DDMI: the panel's pages (`disp`), the library's static variables of each program
(`ddm`), the call at hand (`call`, `said`, `stale`). The Linux build has no mutex
at all, so `DisplayTold` and `DisplayObeys` say what holds beside another
program and what only for a program alone. Beside another program hold: that a
Set call's pages are set when it returns, that what was saved is what is shown, and
that no call writes text outside its own. For a program alone only: what is told
(page and row are selected in one transfer and read in another), that its text
still stands at its end, and that pages it does not name keep their bits (they are
read in one transfer and written back in another).

### Cgos, CgosGpio

`drv`, `sem`, `cdv` are the driver: its state and what it holds, the request it
serves, the variables all requests share; `lib`, `call` each program's library;
`brd` the board. `Load`, `Stage`, `StageFails`, `Unload` follow the driver's
opening of boards, `Enter`, `Cgeb`, `Finish` a request through the ioctl, step by
step, `Drift` what changes by itself. A board's values are sets of bits.
`DriverTidy`: a loaded driver holds what its board needs, an unloaded one
nothing. `CgosTold`: an answer is of the thing asked for, at a time during the
call. `CgosObeyed`: a value changes only as the request served says.
`CgosGpio` is the carrier check on top of it: the calls of the tool and the
verdict of `moduleCg.py`, while another program uses the driver.

### BiosFlash

`job` has the arguments of each run, the file and the board; `tool` the tool: at
which stage it is, its flags, the buffer, what it found and said; `flash` two flash
parts of four blocks each (network data, controller data, two of the BIOS), the
lock, the protection and the power; `spent` the calls that failed. Each call of the
CGOS library is an action with a failing branch; `Kill`, `PowerCycle` and `Rerun`
may come between any two. Blocks hold an image and network addresses, which the
boards keep in four different ways (`MacBlocks`).

`FlashTold`: an update told to be done has the file's BIOS in the flash, with
the board's addresses and settings where they were to be kept, and a complete one
locks the flash. `FlashTouched`: nothing is written without a BIOS of this board
or force, nothing beyond the BIOS unasked, and no BIOS alone that does not go with
what else is there. The exceptions stand in the definitions: reads that failed,
and a board with two controllers whose first block an earlier update tore, where
the code no longer finds the second address.

### BiosModules

`store` has the target's areas in words, `util` the utility's buffers and places,
`order` the commands. Loading tidies the areas in memory (`Rebuild`), a command
edits them, and applying writes back what differs: `Scan` block by block, an erase
only where a bit must rise, the rest gathered (`WriteGathered`), a check of it all
(`VerifyAreas`), retries of blocks and of the whole; a file is truncated and
written anew. `ModulesTold`: a command that says DONE changed just the modules it
names, with three exceptions defined beside it. `ModulesKept`: on a board no area
is touched whose buffer is as it was read.

## Runs

| Run | Instance | Shows |
|---|---|---|
| `station` | 2 units, one assembly and one PCBA part number, 3 nested processes, 3 files | the six session properties |
| `station_menus` | 1 unit, a part number that asks for T1 or T2, all programs, 3 nested processes | `CleanRunIsFiled` through every menu, update and restore |
| `station_failed_run` | violation | a failed run reaches TEST_PASSED |
| `station_clone_gate` | violation | the restore is admitted in a run that failed a check |
| `station_retest` | violation, 5 nested processes | a later retest starts another program |
| `smbus_live` | 2 programs, 5 polls, faults, 1 kill, fair scheduling | `OwnAnswer`, `OrphanStays`, `AbandonedRecovered`, `CallReturns` |
| `smbus_promise` | 3 programs, 3 polls, failures, hangs, 1 kill, register dumps | `Exclusive`; `KeepsPromise`: `SmbusLock` implements `BusLock` |
| `burn_in_round` | the burn-in of `tools`, violation | an interrupted round has too few readings |
| `ekit` | scenes of 1 or 2 programs, 2 devices of a kind, at most 1 failed transfer | the ten properties of the AIC library |
| `ekit_pair` | the same, violation | a call of one program undoes what another has set in the same register |
| `tools` | the tool with an operator and with each check, answers that fail or change; any calls on the terminals; 2 programs on the display; a burn-in of 3 rounds of 4 sleeps, jitter 1, 2 prompts of up to 6 | `RowsTold`, `ChecksMean`, `DioHolds`, `PinsObey`, `GroupsApart`, `DisplayTold`, `DisplayObeys`; `WholeTime`, `QuietRoundIsWatched`, `LoadedWhileQuiet` |
| `congatec` | 2 programs of the library, 1 failing step; the carrier check beside one of them; BIOS updates with 2 failing calls, kills and power cycles, up to 3 runs; module commands with 3 failures or kills | `CgosTold`, `DriverTidy`, `CgosObeyed`, `FlashTold`, `FlashTouched`, `ModulesTold`, `ModulesKept` |

Why the bounds are enough. Station: a suspended session is disturbed by what
runs above it; three processes give a session, a nested one and one nested in
that, with two units so that names differ; three files let a name be moved and
created again while an old handler is open; a `Plan` of check, temperature and
restore has every kind of check in the order the boards' tests have them. Five
processes are needed only to come back from a menu and fail again. SMBus: with
one program polling, one holding and one handling an error all the pairs of
writers of the status meet; `PreTries` exceeds `StealAfter` by two and more
where the steal must come in time (the code's 500 and 9). `Untorn` in
`smbus_promise` stops exploring once a foreign bit was cleared, after which these
properties say nothing; the programs are interchangeable, so that run uses
symmetry. Burn-in: a prompt can outlast a round, and two of them can fall into one
round or two.

AIC: a call works on one word or one group, and what may go wrong lies between
its transfers, so two programs, two devices and one failure reach every pair of
steps; the scenes split the calls by the state they share, and each scene has
every call of its part (`MCEKit` lists them); the two programs of a scene make
the same calls, so the runs use symmetry. Tool: a failure or a change of value
between two pages is one step, and the pages of different parts share no state.
BIOS update: three runs give an update, one that was cut short by a fault, a
kill or the power, and one that finds its leftovers; two faults let a retry fail
too. Modules: areas of one and three blocks of four words, of which an erase, a
gathered write and a skip can all occur in one command; three failures exhaust
the retries of a block. Scenes of one run do not interact: each behaviour is of
one scene, and they share a run only to be checked together.

Deadlock is checked in the station and SMBus runs. A burn-in ends, and so do the
programs of `ekit`, `tools` and `congatec`, whose bounds on calls, faults and
runs are used up; these runs have `CHECK_DEADLOCK FALSE`.

Fairness is assumed in `smbus_live` only: each program's own steps are weakly
fair, because the kernel schedules every runnable process. Nothing is assumed of
the controller, of new calls or of kills, so `CallReturns` holds even if the
hardware never answers.

## Findings

Statements of the station's own prompts and comments that the code does not keep:

1. `failRed` (moduleSys.py:1100) returns after the nested retest, so the failed
   run goes on to `passGreen` and logs TEST_PASSED (`station_failed_run`).
2. `osCloneFix` (osClone.py:41) admits the restore although a check of the run
   failed: only the temperature check touches the flag (`station_clone_gate`).
3. `failRed` re-tests with whatever `t.sh` names by then; after a menu was
   reached from the first retest it is not the test (`station_retest`).
4. `biStress` (testBi.py:151) counts the time at the prompt as burn-in, so an
   interrupted round is over after a reading (`burn_in_round`).

And one of the card library's own source:

5. EkSMBusBlockWait (DMCI.c:1614), which every call waits in and whose failure has
   a message of its own (756), returns TRUE at once on Linux, its body a comment
   (1630). A call that reads a word, changes its bits and writes it back undoes
   what another program has set in between (`ekit_pair`); the fan check of the
   station starts the tool a second time beside the first (moduleEbk.py:186).

## What the models make visible

Nothing in the repository promises the contrary of what follows, so these are no
findings; but a definition follows the code here where one would expect
otherwise, or a property names an exception.

*AIC library (`DMCI.c`).*
* Beside the lost bits of finding 5, two programs ask and read between each
  other's transfers: a remembered firmware version may be half of one answer and
  half of another, and the state of a PoE port be told of another group (4448).
* `SetCOMConfig` writes nothing on a board with two or more ports and returns
  TRUE (6027); with one it ignores a failed write (6030). It is therefore left out
  of `PortsObey`.
* `SetFanConfigsNI` and its `_1` form write AICCFG from zeroes after a read of it
  has failed (8140, 8574), the bits of the timer and the power mode included;
  `WordKept` speaks of the others.
* A failed second half of the counts leaves the first half cached (1741);
  `GetPOEInfo_1` looks for a port of one group with the bound of another and may
  not end (3215); `SetPOEConfigs_1` never enables a part of a group (3876) and
  after one failed read switches ports it was not told to (3882); `SetPOEConfig_1`
  shifts by a whole word (4236) and writes back a DEVCTRL it did not read (4200);
  `GetCOMConfigs` fills one entry too many (5720); `GetFanConfigNI` always fails
  (8033) and `GetFanConfigsNI` tells another level than the rest (7965);
  `GetFanConfig_1` takes ids beyond the fans (8393); the run-time watchdog's
  seconds come from memory (6974), and the power-up one is raised where the call has
  given back what it would have waited for (6850).
* Terminals: single output 2 of group 2 has the wrong bit (11311, 11368);
  `SetGPIO2Pin` looks at group 1's state (12503); the chip's index register is used
  without a mutex (8987) and its configuration mode never left (8914).

*Tool and checks.* The temperature page prints the last value when reading it
again fails (DMCT.c:1846), so `aicTemp` may pass on an old one; the status page of
the GPIO prints directions (2989); `aicFan` does not wait for its second session;
`aicIdioCheck` waits for rows that the tool never prints together, and
`aicIdioConfig` fails on a board with two groups if the other's row comes last.

*Display (`DDMI.c`).* A row that could not be written is told as written (2005,
2023); on a panel of one page a single set writes zeroes (2868); a list may give
two pages one place (2717); `SetDDMConfigsNI` without its array hides every page (2793).

*CGOS.* I2C requests pass the type of bus untranslated (CgosDrv.c:430); the
`IsAvailable` calls of I/O and watchdog always say yes; a failed middle of an I2C
transfer leaves a START without STOP; `LibInitialize` counts once, so one
`LibUninitialize` closes for both of a program's halves; the carrier's tool
ignores outputs it could not write, so the check can pass on what was there before.

*BIOS update (`biosflsh.c`).* A block that cannot be erased is announced as a
retry and skipped (1450); blocks beyond the BIOS are never verified; with the first block
torn by an earlier update the second controller's address is lost silently (387); questions
that fail about lock and protection count as open; a part that cannot be read
counts as absent (1921), and then the BIOS alone is written and called updated; after the
update was prepared for the next start the file is closed and yet read (1242).

*Modules (`cgmpfa.c`).* The last word of a block is neither compared, written
nor verified (1602, 1738); an erase in a later block forgets what was
gathered before it (1628), which only the check and a retry repair; rebuilding
skips a pad and copies what follows unchecked (1942); the room for a volume's pad
is not looked at (2678); a command that could not load the areas exits with 0.

## Proofs

`TLC` checks the instances above; the theorems hold for every value of the
constants that meets the named assumptions (`StationAssumption`, `SmbusAssumption`,
`BurnInAssumption`, `CountsAssumption`, `PoeAssumption`, `PortsAssumption`,
`CgosAssumption`, `ToolAssumption`, `DioAssumption`, `DisplayAssumption`, `FlashAssumption`,
`ModulesAssumption`: types of
bounds, boards and arguments, registers with the devices the counts can name,
disjointness of names, that `None` is no program).
Each has one inductive invariant, which was checked by TLC before it was proved,
and the properties follow from it. Type invariants are part of these and no run
repeats them.

* **TestStationProofs.** `StationInv` = `TypeOK`, `Stack` (only suspended
  processes below the top, none above, and what each frame may have open),
  `OneUnitPerFile`, and `Session` (the clean-session properties together). They
  need each other: that `Replace` files a clean run under its own name rests on
  `CleanSessionOwnsDb` and `CleanSessionOwnsLog`; that a failed run which comes
  back cannot disturb a clean one rests on `Stack`: a process that has called
  another is no longer clean. `CallStep`, `ExitStep`, `QuietStep` cover all
  actions that push, pop or only rewrite the top frame; `SnGetStep`,
  `PassGreenStep` and `ReplaceStep` those that touch the log files. Theorems:
  `StationInvariant`, `TypeCorrect`, `OwnsDb`, `OwnsLog`, `FlagIsThisUnits`,
  `FirstRetest`, `CleanRunFiled`, `NoMixedLog`.
* **SmbusLockProofs.** `SmbusInv` = types with the counters' bounds, `Lock` (a
  holder implies INUSE, and at most one, until torn) and `Bus` (busy, the
  transfer in progress and the data registers belong to the holder, or to a
  program that was killed). `Exclusive` alone is not inductive: it needs that
  INUSE is set whenever somebody holds, and what each program between a wipe and
  its second look may rely on. Theorems: `SmbusInvariant`, `SmbusTypes`,
  `SmbusExclusive`, `SmbusOwnAnswer`, `SmbusOrphanStays`, and `SmbusTornBy`: for
  any limits, kills and failures it says which steps can break the lock, so what the
  others state up to that moment is lost in no other way.
  The same module proves the refinement. `AbstractInit` and `AbstractStep`: every
  step maps to a step of `BusLock` or a stutter. The grant is where the invariant is
  needed on both sides: that nobody else used the bus follows from `Lock` after the
  step, that no transfer was on it from `Bus`. `TransferAbstract` shows that what
  START sends is the caller's own. Theorem: `SmbusKeepsPromise`, without register
  dumps, for any number of programs, kills, failures and hangs.
* **BurnInProofs.** `BurnInInv`: `Clock` (what `now` and `endTime` owe to the
  rounds over) and `Watch` (in an undisturbed round the readings so far reach
  back to its start). The products of two variables are isolated in lemma
  `Product`. `Drift` adds how far an undisturbed run can fall behind: two gaps for
  each round. Theorems: `BurnInInvariant`, `BurnInWholeTime`, `BurnInWatched`,
  `BurnInLoaded`.

* **AicLibraryProofs.** First the counts alone: `CountsInv` = `Types`, and of each
  program `Honest` (what it has cached was answered by the board; which half of an
  identity it holds at which step, with which `Err`) and `Sole` (of a program alone, what
  the AIC was last asked is what it asked; one that makes no calls learns nothing). That a bound is the board's is not
  inductive alone: a call between the two reads of the counts has half of them.
  Theorems: `CountsInvariant`, `CountsTypes`, `CountsMeant`, `FirmwareTold`,
  `CountsFixed`.
  Then all calls of the library by any number of
  programs. `LibInv` adds the shapes of registers and arguments, that no
  monitor's description is another's, that ids are in range, and, of a program alone,
  `Meant` and `Switched`: a call about to write a word holds it as the register
  has it now, its own bits changed, whichever transfers failed on the way. This is
  what makes `BitsKept` a fact about one step. The actions are sorted by what they may move
  (`Calm`, `PoeMoves`, `PortMoves`), so that a call is looked at once. Theorems:
  `LibInvariant`; `LibCountsMeant` and `LibDescriptionsOwn` of any number of
  programs; `LibFirmwareTold` and `LibBitsKept` of one alone; `LibUsbStaysOn` of any
  number on boards on which some USB port is on at first.
  What the calls tell needs to know where a call may be: `WayInv` adds that a
  call makes only the transfers of its own family (`Way`). On it rest `DogsInv` (what
  the library remembers of the running watchdog is the register's while that is
  on; a program stopped between reading a value and raising it holds the
  register's) and `FansInv` (what a list call has in hand of the fans read so far
  is how they are set now, which holds because nobody else calls).
  Theorems, of a program alone: `LibDogsTold`; `LibFansTold`, where `None` is not by
  chance an AICCFG word.
  What the calls set: an invariant for each family says of a call at work how far
  its register already is as its arguments say, and of one that returned TRUE that
  it is so all over. A list of fans is two such parts, since the modes are written
  in one word first and the duties one transfer at a time. Theorems:
  `LibPortsObeyed` and `LibFansObeyed`, of a program alone.
* **AicPoeProofs.** The calls for PoE ports, within the whole library. `PoeInv` adds to
  `WayInv` where each of these calls may be (`OnPoe`), that counts and bounds are
  those of a known firmware or not set at all (`Cut`), and that the arguments stand
  until a call makes its own transfers (`Early`). From it follows `Layout`, with which
  ids, groups and ports are computed once (`Groupings`, `NamedPorts`, `Spread`,
  `NextPort`: the search for the next port finds one). Four invariants rest on it.
  `NamedInv`: without a failed transfer the ports a list call did not name are as they
  were. `SetsInv`: where a list that is set has got to (`ListSet`: which groups are
  done, and that these have exactly the ports on that are to be, the switch of the
  main group closed where needed) and that a program alone finds the firmware the board
  has (`FirmWay`). `InfosInv` and `StatsInv`: that cursors of infos are numbers; that
  a group being asked for is what POEINFO says, of a program alone. `ConfigsInv`:
  the group read is the one asked for, each port of a group no longer left has been
  told as it is fed, and the cursor stays within the bounds (`Range1`), which are
  unknown until a call has counted and then do not change. Theorems: `LibOnlyNamed`
  of any number of programs; `LibInfosTold`, `LibStatsTold`, `LibListSet` and
  `LibConfigsTold` of one alone; and from these and the last two above `LibSetsObeyed` and `LibPoeTold`, the two
  properties of the run.
* **CgosProofs.** `CgosInv` = `Shape` (of the calls and of the board) and `PInv` of
  each program: `CallFields`, `Fresh` (what a call has not yet been told is not
  there), `Served` (the request the driver serves is the program's own) and `Truly`
  (what it was told so far was so at some time of the call). `DriverTidy` is an
  invariant by itself. Theorems: `DriverStaysTidy`, `LibraryTold`, `BoardObeys`.
* **UtilityProofs.** Of the BIOS update `FlashInv`: `Talk` and `Admission` say what was
  found out and told at which stage, `Image` that the buffer is the file's with
  the board's own addresses, `Progress` that a block of the flash has no address,
  its old one or the buffer's, `LastNew` that the block which tells the BIOS's
  version is new only when what lies before it is no longer old. The last is
  what `FlashTouched` needs after an update was cut short: the next run judges by that block
  alone. Theorems: `FlashInvariant`, `UpdateTold`, `UpdateTouches`, for any
  boards, files, arguments and numbers of runs, faults, kills and power cycles.
  Of the module command `ModulesInv`: until changes are applied the areas are
  as they were read; then an area being erased, written or marked for it has
  a buffer that differs from what was read. Theorems: `ModulesInvariant`,
  `ModulesLeftAlone`, for any contents and commands.
* **ToolsProofs.** `DioInv` of the terminals = types, `SetUp` (a group set up is
  there, its type pins are outputs and say what the program remembers) and
  `Promised` (a group a program initialised as DIO is of one type, its inputs are
  not driven, its outputs are). It rests on the tables of pins: `Table1`, `Table2`,
  `PinsApart` and `GroupPinsApart` show that no two terminals, types or groups share
  a pin, where the code has them as two tables of ports and bits. `DIOKeeps` and
  `GPIOKeeps` go through the calls. Theorems: `DioInvariant`, `ProgramRelies`,
  `CallsKeepApart`, `TerminalsObey`, for any board, any number of calls, and
  programs one after another with whatever the earlier ones left in the chip.
  `DdmInv` of the display = `Shapes`, `Place` (what a call has in hand at each of its
  steps: the descriptions so far, ids in range, bytes that are what it asked
  for) and, of a program alone, `Sees` (what was cached or gathered is what the AIC
  has, the selected page or row is its own, the text so far stands). A
  program is alone from the start or never, so what ended programs left does not
  matter: their variables went with them. `MergedIs` and `BytesIs` are what the merging
  of bytes promises; `NamesAll`, that a list as long as there are pages names
  every page, is why a call for all pages need not read; `PieceCells` places a
  piece of text in the row. Each action is `Fine`: it keeps the invariant, leaves the others
  theirs, and answers right. Theorems: `DisplayInvariant`, `DisplayToldHolds`,
  `DisplayObeysHolds`, for a finite set of programs, panels of up to 4 pages (the model has
  4 descriptions), any number of failures and any arguments, save that lists have
  the lengths the C interface asks for.

The hypotheses of single theorems. A theorem about a program alone has it in the
property (`Alone`), not as a hypothesis. `FanSetsFit` asks that a request to set fans has a list that is not empty, names no fan twice (the
entries are written in turn, so the first of two would not be obeyed), and has a
mode for each entry: only `SetFanConfigsNI_1` can be called without modes, and then for
the whole list. `PortsAssumption` asks that calls for one device pass one id (they are
given a pointer to one structure) and that the registers have a field for each device
a board may count; `PoeAssumption`, that the ports that are on at power-up are ports.

Only model-checked: the liveness properties `AbandonedRecovered` and
`CallReturns` (fairness is out of the prover's reach); `ModulesTold`, which is
about what the recursive functions over a module area compute (induction over
data); `RowsTold` and `ChecksMean` of the run `tools`, which are about what folds over
the rows of a page and the lines of a check compute, again for every length (the folds
take operators, which the provers cannot instantiate); and the five violations, whose
witness is a behaviour.

## Running it

`tlc -config Station.cfg MCTestStation.tla` checks one run; `PROJECT.json` lists
the module and configuration of each. `tlapm TestStationProofs.tla`, and the
same for the other modules named `...Proofs`, checks the proofs.

## Not modelled

* What the single checks of the station compare, `uartLoop`, the log copies over
  the network and the retry loops of the updates, which repeat external
  commands; `opPoe`'s question, which is the operator's verdict alone.
* `master.py` and `lmde5-mm.py`, which run external tools one after another.
* Of the EKit_L library the password file, the reading of the PCI configuration,
  and what only Windows builds have; of the display the text of its .ini file.
* Of CGOS the emulation (`CgebEmu.c`) and the Windows layers; the BIOS behind the
  CGEB entry is external.
* Of `cgutillx` the board controller's firmware update (`bcprgcmn.c`), the panel
  data editor (`cgepi.c`), saving the BIOS (only in internal builds) and the pages
  of board information.
* Vendored binaries, drivers, images and reports.
