---------------------------- MODULE MCLabelReview ----------------------------
(***************************************************************************)
(* Two cases, two reports and two corrections of an arm, without a judge.  *)
(***************************************************************************)
EXTENDS LabelReview

TwoOpinions ==
    {[task_success |-> "yes", outcome |-> "answered", primary_failure |-> None],
     [task_success |-> "no", outcome |-> "execution_failure", primary_failure |-> "cause"]}

===============================================================================
