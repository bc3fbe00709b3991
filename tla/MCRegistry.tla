----------------------------- MODULE MCRegistry -----------------------------
(* Small instances of Registry for TLC.                                    *)
EXTENDS Registry, TLC

\* Ids of one kind are interchangeable, and so are reference values.
Symmetry == UNION {Permutations(Robots), Permutations(Devices), Permutations(Runtimes),
                  Permutations(Values)}
=============================================================================
