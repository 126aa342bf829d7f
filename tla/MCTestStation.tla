---------------------------- MODULE MCTestStation ----------------------------
(* Small instances of TestStation for TLC.                                  *)
EXTENDS TestStation, TLC

\* The shape of Q715QA5OS: checks, the temperature check, the OS restore; of
\* osClone.py: the image restore alone; of testBi.py: the stress loop.
MCPlan == [t \in AssyPN \union PcbaPN \union {"osClone", "bi"} |->
             CASE t = "osClone" -> <<"image">>
               [] t = "bi"      -> <<"stress">>
               [] OTHER         -> <<"check", "temp", "clone">>]
Symmetric == Permutations(Files) \union Permutations(Serials)
=============================================================================
