------------------------------ MODULE MCA2ATask ------------------------------
(***************************************************************************)
(* A task with a small progress queue, in a corpus of several documents.   *)
(***************************************************************************)
EXTENDS A2ATask, TLC

Symmetry == Permutations(Labels)

===============================================================================
