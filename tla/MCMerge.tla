------------------------------- MODULE MCMerge -------------------------------
(* Small instances of Merge for TLC. *)
EXTENDS Merge

CONSTANTS w1, w2, m1, m2, r1

\* Which calls may be started while which run.
NoOverlap       == {}
AllOverlap      == Threads \X Threads
PutDuringMerge  == {<<m1, w1>>}
MergeDuringBoth == {<<m1, w1>>, <<m1, m2>>}
MergeDuringGet  == {<<r1, m1>>}
=============================================================================
