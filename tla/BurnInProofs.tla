---------------------------- MODULE BurnInProofs ----------------------------
(***************************************************************************)
(* Proofs about BurnIn, for any number and length of rounds and any delays.*)
(***************************************************************************)
EXTENDS BurnIn, TLAPS

InRound == pc \in {"read", "sleep", "prompt"}

\* What the clock owes to the rounds that are over and to the current one.
Clock ==
    /\ nowTime <= now
    /\ pc = "round" => now >= (biCount - 1) * RoundLen
    /\ InRound => endTime >= biCount * RoundLen /\ biCount <= Rounds
    /\ pc = "done" => now >= Total

\* In an undisturbed round the readings so far reach back to its start.
Watch ==
    /\ InRound /\ ~away =>
          /\ readings = 0 => nowTime < endTime
          /\ now <= endTime - RoundLen + readings * Gap
          /\ readings > 0 => nowTime <= endTime - RoundLen + (readings - 1) * Gap
          /\ pc = "sleep" => readings > 0 /\ now = nowTime
          /\ pc = "read" /\ readings = 0 => now = endTime - RoundLen
    /\ pc = "prompt" => away
    /\ QuietRoundIsWatched

BurnInv == BurnTypeOK /\ Clock /\ Watch

LEMMA Product ==
    ASSUME NEW a \in Nat, NEW b \in Nat
    PROVE  /\ a * b \in Nat /\ (a + 1) * b = a * b + b
           /\ (a > 0 => a * b = (a - 1) * b + b)
           /\ 0 * b = 0
  OBVIOUS

LEMMA BurnInInit == BurnInit => BurnInv
<1> SUFFICES ASSUME BurnInit PROVE BurnInv
  OBVIOUS
<1>1. Total \in Nat
  BY BurnInAssumption, Product DEF Total
<1>2. BurnTypeOK
  <2>1. away \in BOOLEAN
    BY DEF BurnInit
  <2>2. biCount \in 1..(Rounds + 1) /\ prompts \in 0..MaxPrompts
    BY BurnInAssumption DEF BurnInit
  <2>3. /\ now \in Nat /\ load \in Nat /\ nowTime \in Nat /\ endTime \in Nat
        /\ readings \in Nat /\ pc \in {"round", "read", "sleep", "prompt", "done"}
    BY <1>1 DEF BurnInit
  <2>4. QED BY <2>1, <2>2, <2>3 DEF BurnTypeOK
<1>3. (biCount - 1) * RoundLen = 0
  <2>1. biCount - 1 = 0
    BY DEF BurnInit
  <2>2. 0 * RoundLen = 0
    BY BurnInAssumption, Product
  <2>3. QED BY <2>1, <2>2
<1>4. Clock
  BY <1>3 DEF BurnInit, Clock, InRound
<1>5. Watch
  BY DEF BurnInit, Watch, InRound, QuietRoundIsWatched, RoundOver
<1>6. QED BY <1>2, <1>4, <1>5 DEF BurnInv

LEMMA BurnInStep == ASSUME BurnInv, [BurnNext]_burnVars PROVE BurnInv'
<1> USE BurnInAssumption DEF BurnInv, BurnTypeOK
<1>1. /\ Total \in Nat /\ Gap \in Nat \ {0}
      /\ biCount * RoundLen \in Nat
      /\ biCount * RoundLen = (biCount - 1) * RoundLen + RoundLen
      /\ readings * Gap \in Nat /\ (readings + 1) * Gap = readings * Gap + Gap
      /\ readings > 0 => readings * Gap = (readings - 1) * Gap + Gap
  BY Product DEF Total, Gap
<1>2. CASE RoundStart
  <2>1. now + RoundLen >= biCount * RoundLen
    BY <1>1, <1>2 DEF RoundStart, Clock
  <2>2. BurnTypeOK' /\ Clock'
    <3>1. away' \in BOOLEAN
      BY <1>2 DEF RoundStart
    <3>2. nowTime' \in Nat /\ endTime' \in Nat /\ readings' \in Nat /\ pc' = "read"
      BY <1>2 DEF RoundStart
    <3>3. Clock'
      BY <1>1, <1>2, <2>1 DEF RoundStart, Clock, InRound
    <3>4. QED BY <1>2, <3>1, <3>2, <3>3 DEF RoundStart
  <2>3. (readings') * Gap = 0
    <3>1. readings' = 0
      BY <1>2 DEF RoundStart
    <3>2. 0 * Gap = 0
      BY <1>1, Product
    <3>3. QED BY <3>1, <3>2
  <2>4. Watch'
    BY <1>2, <2>3 DEF RoundStart, Watch, InRound, RoundOver, QuietRoundIsWatched
  <2>5. QED BY <2>2, <2>4
<1>3. CASE ReadInRange
  <2>1. Clock' /\ BurnTypeOK'
    BY <1>3 DEF ReadInRange, Clock, InRound
  <2>2. ASSUME ~away
        PROVE  /\ now' <= endTime' - RoundLen + (readings') * Gap
               /\ nowTime' <= endTime' - RoundLen + (readings' - 1) * Gap
    <3>1. readings' = readings + 1 /\ readings' - 1 = readings
      BY <1>3 DEF ReadInRange
    <3>2. now <= endTime - RoundLen + readings * Gap
      BY <1>3, <2>2 DEF ReadInRange, Watch, InRound
    <3>3. QED BY <1>1, <1>3, <3>1, <3>2 DEF ReadInRange
  <2>3. Watch'
    BY <1>3, <2>2 DEF ReadInRange, Watch, InRound, QuietRoundIsWatched, RoundOver
  <2>4. QED BY <2>1, <2>3
<1>4. CASE Sleep
  <2>1. PICK t \in 1..Gap : now' = now + t
    BY <1>4 DEF Sleep
  <2>2. Clock' /\ BurnTypeOK'
    BY <1>1, <1>4, <2>1 DEF Sleep, Clock, InRound
  <2>3. ~away => now' <= endTime - RoundLen + readings * Gap
    BY <1>1, <1>4, <2>1 DEF Sleep, Watch, InRound
  <2>4. Watch'
    BY <1>1, <1>4, <2>1, <2>3 DEF Sleep, Watch, InRound, QuietRoundIsWatched, RoundOver
  <2>5. QED BY <2>2, <2>4
<1>5. CASE ReadOutOfRange
  BY <1>5 DEF ReadOutOfRange, Clock, Watch, InRound, QuietRoundIsWatched, RoundOver
<1>6. CASE PromptReturns
  <2>1. now' \in Nat /\ now' >= now /\ load' \in Nat
    BY <1>1, <1>6 DEF PromptReturns
  <2>2. QED BY <1>6, <2>1 DEF PromptReturns, Clock, Watch, InRound, QuietRoundIsWatched,
               RoundOver
<1>7. CASE RoundEnd
  <2>1. ~away => (readings - 1) * Gap >= RoundLen
    BY <1>1, <1>7 DEF RoundEnd, Watch, InRound
  <2>2. biCount' - 1 = biCount
    BY <1>7 DEF RoundEnd
  <2>3. Clock'
    BY <1>1, <1>7, <2>2 DEF RoundEnd, Clock, InRound
  <2>4. QED BY <1>7, <2>1, <2>3 DEF RoundEnd, Clock, Watch, InRound, QuietRoundIsWatched,
               RoundOver
<1>8. CASE Finish
  <2>1. biCount - 1 = Rounds
    BY <1>8 DEF Finish
  <2>2. now >= Total
    BY <1>8, <2>1 DEF Finish, Clock, Total
  <2>3. QED BY <1>8, <2>2 DEF Finish, Clock, Watch, InRound, QuietRoundIsWatched,
               RoundOver
<1>9. CASE UNCHANGED burnVars
  BY <1>9 DEF burnVars, Clock, Watch, InRound, QuietRoundIsWatched, RoundOver
<1>10. QED BY <1>2, <1>3, <1>4, <1>5, <1>6, <1>7, <1>8, <1>9 DEF BurnNext

THEOREM BurnInInvariant == BurnSpec => []BurnInv
<1>1. QED BY BurnInInit, BurnInStep, PTL DEF BurnSpec

\* However readings fall and prompts delay them, a burn-in that finishes has
\* taken at least the time its menu entry names.
THEOREM BurnInWholeTime == BurnSpec => []WholeTime
<1>1. BurnInv => WholeTime
  BY DEF BurnInv, Clock, WholeTime
<1>2. QED BY <1>1, BurnInInvariant, PTL

\* A round without a failure prompt has readings all the way from its start to
\* its end, no more than Gap apart.
THEOREM BurnInWatched == BurnSpec => []QuietRoundIsWatched
<1>1. BurnInv => QuietRoundIsWatched
  BY DEF BurnInv, Watch
<1>2. QED BY <1>1, BurnInInvariant, PTL

-----------------------------------------------------------------------------
(* The load and the rounds, while nothing has failed.                      *)

\* Each round may overrun its ten minutes by two gaps: the reading that still
\* found time left was late by one, and a sleep follows it.
Drift ==
    prompts = 0 =>
        /\ load = Total
        /\ pc # "prompt"
        /\ pc = "round" => now <= (biCount - 1) * RoundLen + (biCount - 1) * (2 * Gap)
        /\ InRound => endTime <= biCount * RoundLen + (biCount - 1) * (2 * Gap)
        /\ pc = "read" => now < endTime + 2 * Gap
        /\ pc = "read" /\ nowTime < endTime => now < endTime + Gap
        /\ pc = "sleep" => now < endTime + Gap /\ now = nowTime
        /\ pc = "done" => now <= Rounds * RoundLen + biCount * (2 * Gap)

LEMMA ProductMonotone ==
    ASSUME NEW a \in Nat, NEW b \in Nat, NEW c \in Nat, a <= b
    PROVE  a * c <= b * c
<1>1. (b - a) * c \in Nat
  OBVIOUS
<1>2. b * c = a * c + (b - a) * c
  OBVIOUS
<1>3. a * c \in Nat /\ b * c \in Nat
  OBVIOUS
<1>4. QED BY <1>1, <1>2, <1>3

LEMMA DriftInit == BurnInit => Drift
<1> SUFFICES ASSUME BurnInit PROVE Drift
  OBVIOUS
<1>1. biCount - 1 = 0 /\ 2 * Gap \in Nat
  BY BurnInAssumption DEF BurnInit, Gap
<1>2. 0 * RoundLen = 0 /\ 0 * (2 * Gap) = 0
  BY <1>1, BurnInAssumption, Product
<1>3. QED BY <1>1, <1>2 DEF BurnInit, Drift, InRound

LEMMA DriftStep == ASSUME BurnInv, Drift, [BurnNext]_burnVars PROVE Drift'
<1> USE BurnInAssumption DEF BurnInv, BurnTypeOK
<1> DEFINE P == biCount * RoundLen
           P1 == (biCount - 1) * RoundLen
           Q == biCount * (2 * Gap)
           Q1 == (biCount - 1) * (2 * Gap)
<1>1. Gap \in Nat \ {0} /\ 2 * Gap \in Nat /\ biCount - 1 \in Nat
  BY DEF Gap
<1>2. /\ P \in Nat /\ P1 \in Nat /\ Q \in Nat /\ Q1 \in Nat
      /\ P = P1 + RoundLen /\ Q = Q1 + 2 * Gap
  BY <1>1, Product
<1> HIDE DEF P, P1, Q, Q1
<1>3. CASE RoundStart
  <2>1. ASSUME prompts = 0
        PROVE  endTime' <= P + Q1
    BY <1>2, <1>3, <2>1 DEF RoundStart, Drift, P1, Q1
  <2>2. QED BY <1>1, <1>2, <1>3, <2>1 DEF RoundStart, Drift, InRound, P, Q1
<1>4. CASE ReadInRange
  BY <1>1, <1>4 DEF ReadInRange, Drift, InRound
<1>5. CASE Sleep
  <2>1. PICK t \in 1..Gap : now' = now + t
    BY <1>5 DEF Sleep
  <2>2. QED BY <1>1, <1>5, <2>1 DEF Sleep, Drift, InRound
<1>6. CASE ReadOutOfRange
  BY <1>6 DEF ReadOutOfRange, Drift
<1>7. CASE PromptReturns
  BY <1>7 DEF PromptReturns, Drift
<1>8. CASE RoundEnd
  <2>1. ASSUME prompts = 0 PROVE now <= P + Q
    BY <1>1, <1>2, <1>8, <2>1 DEF RoundEnd, Drift, InRound, P, Q1
  <2>2. biCount' - 1 = biCount
    BY <1>8 DEF RoundEnd
  <2>3. QED BY <1>8, <2>1, <2>2 DEF RoundEnd, Drift, InRound, P, Q
<1>9. CASE Finish
  <2>1. P1 = Rounds * RoundLen
    <3>1. biCount - 1 = Rounds
      BY <1>9 DEF Finish
    <3>2. QED BY <3>1 DEF P1
  <2>2. ASSUME prompts = 0 PROVE now <= Rounds * RoundLen + Q
    BY <1>1, <1>2, <1>9, <2>1, <2>2 DEF Finish, Drift, P1, Q1
  <2>3. QED BY <1>9, <2>2 DEF Finish, Drift, InRound, Q
<1>10. CASE UNCHANGED burnVars
  BY <1>10 DEF burnVars, Drift, InRound
<1>11. QED BY <1>3, <1>4, <1>5, <1>6, <1>7, <1>8, <1>9, <1>10 DEF BurnNext

LEMMA DriftBound == ASSUME BurnInv, Drift PROVE LoadedWhileQuiet
<1> USE BurnInAssumption DEF BurnInv, BurnTypeOK
<1> SUFFICES ASSUME prompts = 0 PROVE now <= load + biCount * (2 * Gap)
  BY DEF LoadedWhileQuiet
<1> DEFINE P == biCount * RoundLen
           P1 == (biCount - 1) * RoundLen
           Q == biCount * (2 * Gap)
           Q1 == (biCount - 1) * (2 * Gap)
<1>1. Gap \in Nat \ {0} /\ 2 * Gap \in Nat /\ biCount - 1 \in Nat
  BY DEF Gap
<1>2. P1 \in Nat /\ Q \in Nat /\ Q1 \in Nat /\ Q = Q1 + 2 * Gap
  BY <1>1, Product
<1>3. load = Total /\ Total \in Nat
  BY DEF Drift
<1>4. P1 <= Total
  <2>1. biCount - 1 <= Rounds
    OBVIOUS
  <2>2. QED BY <1>1, <2>1, ProductMonotone DEF Total
<1>5. biCount <= Rounds => P \in Nat /\ P <= Total
  BY ProductMonotone DEF Total
<1> HIDE DEF P, P1, Q, Q1
<1>6. CASE pc = "round"
  BY <1>1, <1>2, <1>3, <1>4, <1>6 DEF Drift, P1, Q1, Q
<1>7. CASE pc \in {"read", "sleep"}
  <2>1. biCount <= Rounds /\ endTime <= P + Q1 /\ now < endTime + 2 * Gap
    BY <1>1, <1>7 DEF Drift, Clock, InRound, P, Q1
  <2>2. QED BY <1>1, <1>2, <1>3, <1>5, <2>1 DEF Q
<1>8. CASE pc = "done"
  BY <1>3, <1>8 DEF Drift, Total
<1>9. CASE pc = "prompt"
  BY <1>9 DEF Drift
<1>10. QED BY <1>6, <1>7, <1>8, <1>9

\* While no reading has failed the stress load ends before the run by no more
\* than two gaps for each round.
THEOREM BurnInLoaded == BurnSpec => []LoadedWhileQuiet
<1>1. BurnInv /\ Drift /\ [BurnNext]_burnVars => Drift'
  BY DriftStep
<1>2. BurnInv /\ Drift => LoadedWhileQuiet
  BY DriftBound
<1>3. QED BY DriftInit, <1>1, <1>2, BurnInInvariant, PTL DEF BurnSpec
=============================================================================
