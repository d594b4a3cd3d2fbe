------------------------------- MODULE MCV2Graph -------------------------------
(***************************************************************************)
(* Small V2 runs: two granted chunks and one of a document outside the     *)
(* grant, a planner that proposes one action of every kind, and drafts     *)
(* that pass the gate, cite nothing, or cite what was never admitted.      *)
(***************************************************************************)
EXTENDS V2Graph

CONSTANTS e1, e2, e3, granted, foreign

MCDocs == {granted, foreign}
MCGranted == {granted}
MCEvidence == {e1, e2, e3}
MCDocOf == (e1 :> granted) @@ (e2 :> granted) @@ (e3 :> foreign)
MCSize == (e1 :> 1) @@ (e2 :> 1) @@ (e3 :> 1)
MCForged == {}
MCQueries == {"q1", "q2"}
MCReferencing == {e1}

Ask(tool, docs, cites, query, wellFormed) ==
    [tool |-> tool, docs |-> docs, current |-> TRUE, cites |-> cites,
     query |-> query, wellFormed |-> wellFormed]

MCActions ==
    {Ask("document_search", {granted}, {}, q, TRUE) : q \in MCQueries} \cup
    {Ask("document_search", {granted, foreign}, {}, "q1", TRUE),
     Ask("document_search", {granted}, {}, "q1", FALSE),
     Ask("calculate_date", {}, {e1}, "q1", TRUE),
     Ask("verify_citation", {}, {e1}, "q1", TRUE),
     Ask("draft", {}, {}, "q1", TRUE),
     Ask("abstain", {}, {}, "q1", TRUE)}

MCDrafts ==
    {[cites |-> {e1}, malformed |-> FALSE],
     [cites |-> {e1, e3}, malformed |-> FALSE],
     [cites |-> {}, malformed |-> FALSE]}
===============================================================================
