---------------------------- MODULE MCSessionTx ----------------------------
(* Small instances of SessionTx for TLC.                                   *)
EXTENDS SessionTx, TLC

\* Handlers and sessions are interchangeable; used where only safety is checked.
Symmetry == Permutations(Handlers) \cup Permutations(SessionIds)
=============================================================================
