--------------------------- MODULE MCTaskRuntime ---------------------------
(* Small instances of TaskRuntime for TLC. *)
EXTENDS TaskRuntime, TLC

CONSTANTS t1, t2, t3

\* Tasks are interchangeable.
TaskSymmetry == Permutations(Tasks)
=============================================================================
