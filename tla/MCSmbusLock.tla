---------------------------- MODULE MCSmbusLock ----------------------------
EXTENDS SmbusRefinement, TLC

\* Programs are interchangeable; used in the run without temporal properties.
Symmetry == Permutations(Procs)

\* Once a bit is torn the invariants of that run promise nothing more.
Untorn == ~torn
=============================================================================
