--------------------------- MODULE MCRuntimeQuery ---------------------------
(* Small instances of RuntimeQuery for TLC.                                *)
EXTENDS RuntimeQuery, TLC

\* Sessions are interchangeable; used where only safety is checked.
Symmetry == Permutations(SessionIds)
=============================================================================
