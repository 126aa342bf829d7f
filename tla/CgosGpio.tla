------------------------------- MODULE CgosGpio -------------------------------
(***************************************************************************)
(* The check of the carrier board's inputs and outputs: a tool drives one  *)
(* output after another of a port expander on the board's I2C bus and in   *)
(* the end reads the inputs they are wired to; moduleCg judges by the last *)
(* line it prints.  Other programs use the library at the same time.       *)
(***************************************************************************)
EXTENDS Cgos

CONSTANT Tool   \* the program that is the tool

ASSUME ToolAssumption == Tool \in Progs

VARIABLE gpio   \* the tool: its next call, the input it printed, and the verdict

gpioVars == <<gpio, cgosVars>>

\* The tool's calls in order; of the eight outputs as many as a value has bits.
Write(reg, v) == Question("I2CWrite", 0, 0, reg, <<v, {}, {}>>, TRUE)
Drive == [b \in Bits |-> Write("out", {b})]
Combined == Question("I2CWriteReadCombined", 0, 0, "in", NoAsk.m, TRUE)
Plain(f) == Question(f, 0, 0, "none", NoAsk.m, TRUE)
ToolCalls == <<Plain("LibInitialize"), Plain("LibInstall"), Plain("LibInitialize"), Plain("BoardOpen"),
               Write("cfg0", Bits), Write("cfg1", {})>> \o Drive \o <<Combined, Plain("BoardClose")>>
Opening == 4   \* the call of BoardOpen
Reading == Len(ToolCalls) - 1

GpioInit == CgosInit /\ gpio = [at |-> 0, asked |-> FALSE, input |-> {}, verdict |-> "none"]

\* The tool makes its next call; initialized at once, it installs nothing.
ToolAsks ==
    LET a == ToolCalls[gpio.at] IN
    /\ gpio.at \in DOMAIN ToolCalls /\ ~gpio.asked /\ call[Tool].at = "idle"
    /\ CASE a.f = "LibInitialize" -> LibInitialize(Tool)
         [] a.f = "LibInstall" -> LibInstall(Tool)
         [] OTHER -> Issue(Tool, a)
    /\ gpio' = [gpio EXCEPT !.asked = TRUE]

\* What it does with the answer: without library or board it ends; whether a
\* write failed does not matter to it, and without an input it prints none.
GoesOn(told, g) ==
    LET next == [g EXCEPT !.asked = FALSE, !.at = IF @ = 1 /\ told.ok THEN Opening ELSE @ + 1] IN
    IF ~told.ok /\ g.at \in 2..Opening THEN [next EXCEPT !.at = Len(ToolCalls) + 2]
    ELSE IF g.at = Reading /\ told.ok THEN [next EXCEPT !.input = {told.got}] ELSE next

ToolGoesOn ==
    /\ gpio.asked /\ call[Tool].at = "idle"
    /\ gpio' = GoesOn(call[Tool].told, gpio)
    /\ UNCHANGED cgosVars

\* The check starts the tool, and judges when it has ended: an exit in vain
\* raises an exception that nobody catches, and the last output is the one
\* that must be read.
StartTool ==
    /\ gpio.at = 0 /\ gpio' = [gpio EXCEPT !.at = 1]
    /\ UNCHANGED cgosVars

Judge ==
    /\ gpio.at > Len(ToolCalls) /\ gpio.verdict = "none"
    /\ gpio' = [gpio EXCEPT !.verdict = IF gpio.at > Len(ToolCalls) + 1 THEN "raised"
                                        ELSE IF gpio.input = {{2}} THEN "pass" ELSE "fail"]
    /\ lib' = [lib EXCEPT ![Tool] = [inits |-> 0, board |-> 0]]
    /\ UNCHANGED <<scene, drv, sem, cdv, call, brd, worn>>

GpioNext == \/ StartTool \/ ToolAsks \/ ToolGoesOn \/ Judge
            \/ CgosNext /\ UNCHANGED gpio

GpioSpec == GpioInit /\ [][GpioNext]_gpioVars
=============================================================================
