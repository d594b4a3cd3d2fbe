----------------------------- MODULE MCMcpSession -----------------------------
(***************************************************************************)
(* A small MCP session: two overlapping calls over one granted and one     *)
(* foreign document: three chunks that compete for two evidence slots, one *)
(* of the foreign document and one unlike the store's copy, and requests   *)
(* that reach every branch of authorize.                                   *)
(***************************************************************************)
EXTENDS McpSession, TLC

CONSTANTS c1, c2, e1, e2, e3, e4, e5, granted, foreign

MCDocs == {granted, foreign}
MCGranted == {granted}
MCEvidence == {e1, e2, e3, e4, e5}
MCDocOf == (e1 :> granted) @@ (e2 :> granted) @@ (e3 :> granted)
           @@ (e4 :> foreign) @@ (e5 :> granted)
MCSize == (e1 :> 1) @@ (e2 :> 2) @@ (e3 :> 2) @@ (e4 :> 1) @@ (e5 :> 1)
MCForged == {e5}
MCQueries == {"q"}

Ask(tool, docs, current, cites, wellFormed) ==
    [tool |-> tool, docs |-> docs, current |-> current, cites |-> cites,
     query |-> "q", wellFormed |-> wellFormed]

AnySearch == Ask("document_search", {granted}, TRUE, {}, TRUE)
WideSearch == Ask("document_search", {granted, foreign}, TRUE, {}, TRUE)
BadSearch == Ask("document_search", {granted}, TRUE, {}, FALSE)
Clause == Ask("retrieve_clause", {granted}, TRUE, {}, TRUE)
StaleClause == Ask("retrieve_clause", {granted}, FALSE, {}, TRUE)
DateFrom(es) == Ask("calculate_date", {}, TRUE, es, TRUE)
CheckOf(es) == Ask("verify_citation", {}, TRUE, es, TRUE)

MixedRequests == {AnySearch, WideSearch, BadSearch, Clause, StaleClause,
                  DateFrom({}), DateFrom({e1}), CheckOf({e1})}
===============================================================================
