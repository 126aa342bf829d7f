-------------------------- MODULE SmbusRefinement --------------------------
(***************************************************************************)
(* SmbusLock as an implementation of BusLock: polling is waiting, holding  *)
(* INUSE is using, and the promise is void once a foreign bit was cleared. *)
(***************************************************************************)
EXTENDS SmbusLock

CallPhase(p) == IF Holding(p) THEN "using"
             ELSE IF pc[p] \in Polling THEN "waiting" ELSE "out"

Abstract == INSTANCE BusLock WITH
            phase <- [p \in Procs |-> CallPhase(p)],
            carrying <- job, answer <- got, broken <- torn

\* Until a program clears a bit that is not its own, and as long as none dumps
\* the registers, EkSMBusPre, EkSMBusProc and EkSMBusExit keep the promise of
\* BusLock: the bus is granted to one caller at a time and never while a killed
\* caller's transfer is on it, and a caller sends and reads only its own.
KeepsPromise == Abstract!Spec
=============================================================================
