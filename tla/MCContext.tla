----------------------------- MODULE MCContext -----------------------------
(* Context for TLC. *)
EXTENDS Context, TLC

\* The user processes are interchangeable.
ProcSymmetry == Permutations(Procs \ {shell})
=============================================================================
