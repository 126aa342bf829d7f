-------------------------------- MODULE BurnIn --------------------------------
(***************************************************************************)
(* The clock of a burn-in: biStress in testBi.py.  The stress load runs in *)
(* the background for the whole chosen time; the script watches the CPU    *)
(* temperature in rounds of ten minutes, one reading a second.  A reading  *)
(* out of range goes to failRed's prompt, where any amount of time passes  *)
(* and a nested re-test may start a load of its own, and comes back to the *)
(* same round (TestStation has the processes; here is what they cost).     *)
(***************************************************************************)
EXTENDS Integers

CONSTANTS
    Rounds,     \* biTotal
    RoundLen,   \* 600 seconds; here in units of the sleep between readings
    Jitter,     \* bound: what one reading can cost beyond the sleep
    MaxPrompts, \* bound: failure prompts in one run
    MaxAway     \* bound: time one prompt, with its nested re-test, takes

ASSUME BurnInAssumption ==
    /\ Rounds \in Nat \ {0} /\ RoundLen \in Nat \ {0}
    /\ Jitter \in Nat /\ MaxPrompts \in Nat /\ MaxAway \in Nat

VARIABLES
    now,       \* the time, from the start of biStress
    load,      \* when the last stress load ends
    pc,
    biCount, nowTime, endTime,
    readings,  \* history: readings in range in this round
    prompts,   \* failure prompts so far
    away       \* history: whether this round has been interrupted by one

burnVars == <<now, load, pc, biCount, nowTime, endTime, readings, prompts, away>>

Total == Rounds * RoundLen
\* The longest time between two readings of an undisturbed round.
Gap == 1 + Jitter

BurnTypeOK ==
    /\ now \in Nat /\ load \in Nat /\ nowTime \in Nat /\ endTime \in Nat
    /\ pc \in {"round", "read", "sleep", "prompt", "done"}
    /\ biCount \in 1..(Rounds + 1)
    /\ readings \in Nat /\ prompts \in 0..MaxPrompts /\ away \in BOOLEAN

\* "stress-ng -t" is started with the whole time, and nothing restarts it.
BurnInit ==
    /\ now = 0 /\ load = Total
    /\ pc = "round" /\ biCount = 1 /\ nowTime = 0 /\ endTime = 0
    /\ readings = 0 /\ prompts = 0 /\ away = FALSE

\* Fault: the rounds share one end time, reached after the first.
RoundStartOnce ==
    /\ pc = "round" /\ biCount <= Rounds
    /\ nowTime' = now /\ endTime' = RoundLen
    /\ readings' = 0 /\ away' = FALSE /\ pc' = "read"
    /\ UNCHANGED <<now, load, biCount, prompts>>

RoundStart ==
    /\ pc = "round" /\ biCount <= Rounds
    /\ nowTime' = now /\ endTime' = now + RoundLen
    /\ readings' = 0 /\ away' = FALSE /\ pc' = "read"
    /\ UNCHANGED <<now, load, biCount, prompts>>

\* Fault: nowTime counts the longest sleep for every reading.
ReadInRangeCounts ==
    /\ pc = "read" /\ nowTime < endTime
    /\ nowTime' = nowTime + Gap /\ readings' = readings + 1 /\ pc' = "sleep"
    /\ UNCHANGED <<now, load, biCount, endTime, prompts, away>>

ReadInRange ==
    /\ pc = "read" /\ nowTime < endTime
    /\ nowTime' = now /\ readings' = readings + 1 /\ pc' = "sleep"
    /\ UNCHANGED <<now, load, biCount, endTime, prompts, away>>

\* Fault: a second sleep, before the sensor is read.
SleepTwice ==
    /\ pc = "sleep"
    /\ \E t \in 1..Gap : now' = now + t + Gap
    /\ pc' = "read"
    /\ UNCHANGED <<load, biCount, nowTime, endTime, readings, prompts, away>>

Sleep ==
    /\ pc = "sleep"
    /\ \E t \in 1..Gap : now' = now + t
    /\ pc' = "read"
    /\ UNCHANGED <<load, biCount, nowTime, endTime, readings, prompts, away>>

\* nowTime stays what the last good reading made it.
ReadOutOfRange ==
    /\ pc = "read" /\ nowTime < endTime /\ prompts < MaxPrompts
    /\ prompts' = prompts + 1 /\ away' = TRUE /\ pc' = "prompt"
    /\ UNCHANGED <<now, load, biCount, nowTime, endTime, readings>>

\* failRed returns; a nested burn-in has started its load somewhere meanwhile,
\* or none has run.
PromptReturns ==
    /\ pc = "prompt"
    /\ \E t \in 0..MaxAway :
          /\ now' = now + t
          /\ \/ UNCHANGED load
             \/ \E s \in 0..t : load' = now + s + Total
    /\ pc' = "read"
    /\ UNCHANGED <<biCount, nowTime, endTime, readings, prompts, away>>

RoundEnd ==
    /\ pc = "read" /\ nowTime >= endTime
    /\ biCount' = biCount + 1 /\ pc' = "round"
    /\ UNCHANGED <<now, load, nowTime, endTime, readings, prompts, away>>

Finish ==
    /\ pc = "round" /\ biCount > Rounds
    /\ pc' = "done"
    /\ UNCHANGED <<now, load, biCount, nowTime, endTime, readings, prompts, away>>

BurnNext == \/ RoundStart \/ ReadInRange \/ Sleep \/ ReadOutOfRange \/ PromptReturns
        \/ RoundEnd \/ Finish

BurnSpec == BurnInit /\ [][BurnNext]_burnVars

-----------------------------------------------------------------------------

\* A burn-in is not over before its time, however readings and prompts fall.
WholeTime == pc = "done" => now >= Total

RoundOver == pc = "round" /\ biCount > 1

\* A round nobody interrupted has been watched from its start to its end, with
\* no more than Gap between two readings.
QuietRoundIsWatched == RoundOver /\ ~away => (readings - 1) * Gap >= RoundLen

\* While nothing has failed the load ends before the run by no more than what
\* the readings cost: a last reading and a last sleep for each round.
LoadedWhileQuiet == prompts = 0 => now <= load + biCount * (2 * Gap)

\* The screen says "BI 10 mins run": every round has ten minutes of readings.
EveryRoundIsWatched == RoundOver => (readings - 1) * Gap >= RoundLen

=============================================================================
