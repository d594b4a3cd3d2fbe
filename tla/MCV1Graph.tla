------------------------------- MODULE MCV1Graph -------------------------------
(***************************************************************************)
(* Four chunks: two of one section, a section with a reference to the last *)
(* chunk whose subsection comes before it.  Questions that are answered by *)
(* one search, that need a wider query, and that have none.                *)
(***************************************************************************)
EXTENDS V1Graph

MCChunks == 1..4
MCLocationOf == <<"a", "a", "b", "c">>
MCSize == <<1, 1, 2, 2>>
MCTermsIn == <<{"cap"}, {}, {"term"}, {"breach"}>>
MCReferents == <<{4}, {}, {}, {1}>>
MCSubsections == <<{3}, {}, {4}, {}>>

MCQuestions ==
    {[wanted |-> {"cap", "term", "breach"}, widens |-> w] : w \in BOOLEAN} \cup
    {[wanted |-> {}, widens |-> FALSE]}

MCCitations == {"pageA", "pageB", "docB", "foreign", "ghost"}
MCGrounds == [c \in MCCitations |->
    CASE c = "pageA" -> {1, 2}
      [] c = "pageB" -> {4}
      [] c = "docB"  -> {3, 4}
      [] OTHER -> {}]

Prose(cites, malformed) == [text |-> "prose", cites |-> cites, malformed |-> malformed]

MCDrafts ==
    {Prose({"pageA"}, FALSE), Prose({"pageA", "pageB"}, FALSE), Prose({"docB"}, FALSE),
     Prose({"foreign"}, FALSE), Prose({"pageA", "ghost"}, FALSE), Prose({}, FALSE),
     Prose({"pageA"}, TRUE)} \cup
    {[text |-> t, cites |-> {}, malformed |-> FALSE] : t \in {"empty", "blank"}}

JudgedAs(answer, quoted, supported, missing) ==
    [wellFormed |-> TRUE, verdict |-> answer, supported |-> supported,
     missing |-> missing, named |-> quoted, quoted |-> quoted, verbatim |-> TRUE]

MCDecisions ==
    {JudgedAs("answerable", {1}, TRUE, FALSE), JudgedAs("partial", {3}, TRUE, TRUE),
     JudgedAs("unanswerable", {}, FALSE, TRUE), JudgedAs("answerable", {}, TRUE, FALSE),
     [JudgedAs("answerable", {4}, TRUE, FALSE) EXCEPT !.verbatim = FALSE]}

Limits(searches, rounds, pulled, again) ==
    [searches |-> searches, iterations |-> rounds, hits |-> 2, pulled |-> pulled,
     chars |-> 3, repairs |-> again]

MCBudgets == {Limits(3, 3, 1, 1), Limits(4, 2, 4, 0), Limits(1, 1, 0, 1), Limits(0, 0, 1, 1)}
===============================================================================
