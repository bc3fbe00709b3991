------------------------- MODULE MCRuntimeSessions -------------------------
(* Small instances of RuntimeSessions for TLC.                             *)
EXTENDS RuntimeSessions, TLC

\* Runtimes and sessions are interchangeable; only safety is checked.
Symmetry == Permutations(Runtimes) \cup Permutations(SessionIds)
=============================================================================
