------------------------------ MODULE AicLibrary ------------------------------
(***************************************************************************)
(* The library as a whole: the calls of AicCounts, AicPoe, AicPorts and    *)
(* AicSensors, made by programs that share the AIC.                        *)
(***************************************************************************)
EXTENDS AicPoe, AicSensors

libVars == <<scene, board, poeinfo, lib, pc, op, err, ret, faults,
             ctrl, port, poecfg, call, cursor, reg, task, next, memo>>
poeOwn == <<ctrl, port, poecfg, call, cursor>>
portOwn == <<reg, task, next, memo>>

LibInit == PoeInit /\ PortsInit

LibNext == UNCHANGED scene /\ \E p \in Who[scene] :
    \/ AskCounts(p) /\ UNCHANGED poeOwn /\ UNCHANGED portOwn
    \/ PoeAct(p) /\ UNCHANGED portOwn
    \/ PortAct(p) /\ UNCHANGED poeOwn
    \/ SensorAct(p) /\ UNCHANGED poeOwn

LibSpec == LibInit /\ [][LibNext]_libVars
-----------------------------------------------------------------------------
\* A call that tells how ports are set, whether they are there or what is drawn
\* from them tells what the board has, whatever failed before it.
PoeTold == ConfigTruth /\ InfoTruth /\ StatTruth

\* A set of ports or fans that returned TRUE has been obeyed for all it named.
SetsObeyed == SetTruth /\ PortsObey /\ FansObey

\* DEVCTRL, the registers of the ports and AICCFG are shared by devices of
\* several calls: a call that writes one back leaves the bits of the others as
\* they are at that moment.
KeepsOthers == KeepsSwitch /\ KeepsNeighbours /\ KeepsWord

\* True of a program that has the AIC for itself, whatever fails.
BitsKept == [][Alone => KeepsOthers]_libVars

\* ... but not of two programs, which the wait for the mutex, commented out
\* in EkSMBusBlockWait for Linux, would keep from each other's calls.
CallsKeptApart == [][KeepsOthers]_libVars
=============================================================================
