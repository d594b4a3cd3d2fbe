----------------------------- MODULE MCRunJournal -----------------------------
(***************************************************************************)
(* A run of at most three events before its terminal one and processes     *)
(* that start at any time.                                                 *)
(***************************************************************************)
EXTENDS RunJournal, TLC

Symmetry == Permutations(Starters)

===============================================================================
