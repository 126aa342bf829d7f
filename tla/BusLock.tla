------------------------------ MODULE BusLock ------------------------------
(***************************************************************************)
(* What the SMBus arbitration of EKit_L/DMCI.c promises its callers.  A    *)
(* call waits for the bus, gets it for itself at a moment when no transfer *)
(* is on its way, sends its own command and reads the answer to it.  A     *)
(* call may give up or be killed at any time, and a transfer may end at    *)
(* any time; a bus on which a killed call left a transfer is granted to    *)
(* nobody before that transfer is over.                                    *)
(*                                                                         *)
(* The promise is void from the moment the lock is broken; it is then not  *)
(* taken up again.  SmbusRefinement shows which programs keep it.          *)
(***************************************************************************)
CONSTANTS Procs, None

VARIABLES
    phase,     \* where each caller is: "out", "waiting" or "using" the bus
    carrying,  \* the transfer on the bus: whose address and whose data
    answer,    \* what each call has read
    broken

abstract == <<phase, carrying, answer, broken>>

Init ==
    /\ phase = [p \in Procs |-> "out"]
    /\ carrying = None
    /\ answer = [p \in Procs |-> None]
    /\ broken = FALSE

Ask(p) ==
    /\ phase[p] = "out"
    /\ phase' = [phase EXCEPT ![p] = "waiting"]
    /\ answer' = [answer EXCEPT ![p] = None]
    /\ UNCHANGED carrying

Grant(p) ==
    /\ phase[p] = "waiting" /\ carrying = None
    /\ \A q \in Procs : phase[q] # "using"
    /\ phase' = [phase EXCEPT ![p] = "using"]
    /\ UNCHANGED <<carrying, answer>>

Send(p) ==
    /\ phase[p] = "using" /\ carrying = None
    /\ carrying' = <<p, p>>
    /\ UNCHANGED <<phase, answer>>

\* The transfer ends, in an answer or an error, or is aborted.
End ==
    /\ carrying # None
    /\ carrying' = None
    /\ UNCHANGED <<phase, answer>>

Answer(p) ==
    /\ phase[p] = "using" /\ carrying = None /\ answer[p] = None
    /\ answer' = [answer EXCEPT ![p] = <<p, p>>]
    /\ UNCHANGED <<phase, carrying>>

\* The call returns, gives up waiting or is killed.
Leave(p) ==
    /\ phase[p] # "out"
    /\ phase' = [phase EXCEPT ![p] = "out"]
    /\ UNCHANGED <<carrying, answer>>

Kept ==
    /\ UNCHANGED broken
    /\ \/ End
       \/ \E p \in Procs : Ask(p) \/ Grant(p) \/ Send(p) \/ Answer(p) \/ Leave(p)

Next == Kept \/ broken'

Spec == Init /\ [][Next]_abstract
=============================================================================
