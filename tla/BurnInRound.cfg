\* Three rounds of four readings; two prompts, each longer than a round.
SPECIFICATION BurnSpec
CONSTANTS
    Rounds = 3
    RoundLen = 4
    Jitter = 1
    MaxPrompts = 2
    MaxAway = 6
INVARIANTS EveryRoundIsWatched
CHECK_DEADLOCK FALSE
