------------------------------ MODULE RunContract ------------------------------
(***************************************************************************)
(* What a V2 run promises, whatever its graph does inside: it spends tool  *)
(* and model calls within its budget and never gets one back, at most one  *)
(* draft is approved by the mandatory verification, which itself costs a   *)
(* tool call, nothing is spent after the approval, and the run is recorded *)
(* with one outcome, "completed" only with an approval and only then with  *)
(* an answer.                                                              *)
(***************************************************************************)
EXTENDS Naturals

CONSTANTS ToolBudget, ModelBudget

VARIABLES outcome, toolsSpent, modelsSpent, approved, answered

contractVars == <<outcome, toolsSpent, modelsSpent, approved, answered>>

Start ==
    /\ outcome = "open"
    /\ toolsSpent = 0
    /\ modelsSpent = 0
    /\ approved = FALSE
    /\ answered = FALSE

Work ==
    /\ outcome = "open"
    /\ ~ approved
    /\ toolsSpent' \in toolsSpent .. ToolBudget
    /\ modelsSpent' \in modelsSpent .. ModelBudget
    /\ UNCHANGED <<outcome, approved, answered>>

Approve ==
    /\ outcome = "open"
    /\ ~ approved
    /\ toolsSpent < ToolBudget
    /\ toolsSpent' = toolsSpent + 1
    /\ approved' = TRUE
    /\ UNCHANGED <<outcome, modelsSpent, answered>>

Finish ==
    /\ outcome = "open"
    /\ outcome' \in {"completed", "abstained", "failed", "cancelled"}
    /\ outcome' = "completed" => approved
    /\ answered' = (outcome' = "completed")
    /\ UNCHANGED <<toolsSpent, modelsSpent, approved>>

Contract == Start /\ [][Work \/ Approve \/ Finish]_contractVars

===============================================================================
