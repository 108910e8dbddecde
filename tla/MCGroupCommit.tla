---------------------------- MODULE MCGroupCommit ----------------------------
(* Small instances of GroupCommit for TLC. *)
EXTENDS GroupCommit, TLC

\* Threads are interchangeable: no action and no invariant names one of them.
Symmetry == Permutations(Threads)
=============================================================================
