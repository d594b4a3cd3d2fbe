-------------------------------- MODULE V1Graph --------------------------------
(***************************************************************************)
(* The V1 research graph: a bounded search loop, cross-reference           *)
(* resolution, the optional answerability gate, and a draft that is        *)
(* verified, repaired and finalised or given up (app/agent/graph.py, with  *)
(* the policies and evidence rules its nodes call).                        *)
(*                                                                         *)
(* One action per node; the routing function of the node's outgoing edge   *)
(* is part of it.  The nodes that await something (search,           *)
(* answerability, write) do so once and nothing else runs on the state, so *)
(* an await is one choice among its outcomes.                              *)
(***************************************************************************)
EXTENDS Integers, SequencesExt

CONSTANTS
    Chunks,        \* chunk ids of the searchable documents, in their order
    LocationOf,    \* a chunk's (document, page, section)
    Size,          \* its number of characters
    TermsIn,       \* the content words its text holds
    Referents,     \* sections a chunk refers to, outside its own path ...
    Subsections,   \* ... and the descendants of such sections
    Questions,     \* [wanted: content words, widens: another query exists]
    Citations,     \* what drafts may cite
    Locatable,     \* citations whose document, page and section exist
    Permitted,     \* citations inside the request's allowlist
    Grounds,       \* the chunks on the page (or document) of a citation
    Drafts,        \* answers of the writer
    JudgeDecisions,     \* answers of the answerability judge
    Budgets,       \* the budgets a run may get
    Gates          \* whether the answerability gate may be on

Draft == [text: {"empty", "blank", "prose"}, cites: SUBSET Citations,
          malformed: BOOLEAN]
Decision == [wellFormed: BOOLEAN, verdict: {"answerable", "partial", "unanswerable"},
             supported: BOOLEAN, missing: BOOLEAN, named: SUBSET Chunks,
             quoted: SUBSET Chunks, verbatim: BOOLEAN]
Budget == [searches: Nat, iterations: Nat, hits: Nat, pulled: Nat, chars: Nat,
           repairs: Nat]

ASSUME ResearchAssumption ==
    /\ Chunks \subseteq Nat
    /\ Size \in [Chunks -> Nat]
    /\ DOMAIN LocationOf = Chunks
    /\ DOMAIN TermsIn = Chunks
    /\ Referents \in [Chunks -> SUBSET Chunks]
    /\ Subsections \in [Chunks -> SUBSET Chunks]
    /\ Grounds \in [Citations -> SUBSET Chunks]
    /\ \A q \in Questions : q.widens => q.wanted # {}
    /\ Drafts \subseteq Draft
    /\ \A d \in Drafts : d.text # "prose" => d.cites = {} /\ ~ d.malformed
    /\ JudgeDecisions \subseteq Decision
    /\ Budgets \subseteq Budget
    /\ Gates \subseteq BOOLEAN
    /\ \A c \in Citations, k, l \in Chunks :    \* a citation names pages
          LocationOf[k] = LocationOf[l] => (k \in Grounds[c] <=> l \in Grounds[c])

VARIABLES
    nextNode,                  \* the node that runs next
    question, budget, gate,
    queries,             \* search_queries: "asked", then "widened"
    iterations, searchesUsed, stopReason, continueResearch, assessedCount,
    retrieved,           \* retrieved_chunks, [id, via] records
    evidence,            \* chunks of the evidence the models are shown
    verdict,             \* answerability, NoVerdict before and without the gate
    draft, errors,       \* draft_answer; whether citation_errors is non-empty
    repairs, status, failure, modelCalls,
    final,               \* what final_answer says
    broke,               \* history: the hard failure of the run, if any
    found,               \* history: what its searches returned
    steps                \* history: supersteps

loopVars  == <<queries, iterations, searchesUsed, stopReason, continueResearch,
               assessedCount, retrieved, found>>
draftVars == <<draft, errors, repairs>>
runVars   == <<question, budget, gate>>
endVars   == <<status, failure, final, broke>>
researchVars == <<nextNode, runVars, loopVars, evidence, verdict, draftVars, endVars,
          modelCalls, steps>>

NoVerdict == [verdict |-> "none"]
NoDraft == [text |-> "empty", cites |-> {}, malformed |-> FALSE]
Nodes == {"search", "assess", "refine", "resolve_refs", "select_evidence",
          "answerability", "write", "verify", "finalize", "repair", "abstain", "fail"}
Over == {"end", "raised"}
ModelFailures == {"model_timeout", "internal_error"}
FailureKinds == ModelFailures \cup {"budget_exhausted", "retrieval_unavailable",
                                    "output_validation"}

ResearchInit ==
    /\ nextNode = "search"
    /\ question \in Questions /\ budget \in Budgets /\ gate \in Gates
    /\ queries = << >>
    /\ iterations = 0 /\ searchesUsed = 0 /\ assessedCount = 0
    /\ stopReason = "none" /\ continueResearch = FALSE
    /\ retrieved = << >> /\ found = {} /\ evidence = {}
    /\ verdict = NoVerdict
    /\ draft = NoDraft /\ errors = FALSE /\ repairs = 0
    /\ status = "planning" /\ failure = "none" /\ final = "none"
    /\ modelCalls = 0
    /\ broke = "none" /\ steps = 0

(* One superstep: the node `from` runs and the edge leads to `to`. *)
Node(from, to) ==
    /\ nextNode = from
    /\ nextNode' = to
    /\ steps' = steps + 1
    /\ UNCHANGED runVars

(* A node that returns status "failed"; the graph's fail node comes next. *)
FailsAs(kind) ==
    /\ status' = "failed"
    /\ failure' = kind
    /\ broke' = kind
    /\ UNCHANGED final

(* Cancellation, or an exception no node handles, leaves the run. *)
Raise ==
    /\ nextNode \in Nodes
    /\ Node(nextNode, "raised")
    /\ UNCHANGED <<loopVars, evidence, verdict, draftVars, endVars, modelCalls>>

Ids(items) == {items[i].id : i \in DOMAIN items}
Locations(items) == {LocationOf[c] : c \in Ids(items)}
Via(items, via) == {items[i].id : i \in {k \in DOMAIN items : items[k].via = via}}
Marked(ids, via) == [i \in DOMAIN ids |-> [id |-> ids[i], via |-> via]]

--------------------------------------------------------------------------------
(* The search loop *)

SearchRefused ==
    /\ Node("search", "fail")
    /\ searchesUsed >= budget.searches
    /\ FailsAs("budget_exhausted")
    /\ UNCHANGED <<loopVars, evidence, verdict, draftVars, modelCalls>>

SearchFails ==
    /\ Node("search", "fail")
    /\ searchesUsed < budget.searches
    /\ FailsAs("retrieval_unavailable")
    /\ UNCHANGED <<loopVars, evidence, verdict, draftVars, modelCalls>>

(* The hits that were not retrieved before go behind those that were. *)
Merge(merged, hit) ==
    IF hit \in Ids(retrieved) THEN merged
    ELSE Append(merged, [id |-> hit, via |-> "search"])
MergedHits(hits) == FoldLeft(Merge, retrieved, hits)

(* What a retriever returns: the best chunks for the query, each one once. *)
HitLists == {h \in SeqOf(Chunks, budget.hits) : IsInjective(h)}

SearchReturns ==
    /\ Node("search", "assess")
    /\ searchesUsed < budget.searches
    /\ \E hits \in HitLists :
        /\ retrieved' = MergedHits(hits)
        /\ found' = found \cup ToSet(hits)
    /\ queries' = IF queries = << >> THEN <<"asked">> ELSE queries
    /\ searchesUsed' = searchesUsed + 1
    /\ status' = "researching"
    /\ UNCHANGED <<iterations, stopReason, continueResearch, assessedCount, evidence,
                   verdict, draftVars, failure, final, broke, modelCalls>>

(* Half of the question's content words appear in what was retrieved. *)
Covered ==
    LET present == question.wanted \cap UNION {TermsIn[c] : c \in Ids(retrieved)}
    IN 2 * Cardinality(present) >= Cardinality(question.wanted)

MinEvidenceChunks == 2

(* The verdict of should_continue_research, in the order of its returns. *)
ResearchReason ==
    LET seen     == Locations(SubSeq(retrieved, 1, assessedCount))
        new      == Locations(SubSeq(retrieved, assessedCount + 1, Len(retrieved)))
        repeated == new # {} /\ new \subseteq seen
        enough   == Cardinality(seen \cup new) >= MinEvidenceChunks /\ Covered
    IN IF retrieved = << >> THEN "no_results"
       ELSE IF repeated THEN "no_new_evidence"
       ELSE IF enough THEN "sufficient_evidence"
       ELSE IF searchesUsed >= budget.searches THEN "search_budget_exhausted"
       ELSE IF iterations >= budget.iterations THEN "iteration_budget_exhausted"
       ELSE "continue"

LoopIsOpen ==
    /\ ResearchReason = "continue"
    /\ searchesUsed < budget.searches
    /\ iterations + 1 < budget.iterations

Assess ==
    /\ Node("assess", IF LoopIsOpen THEN "refine" ELSE "resolve_refs")
    /\ iterations' = iterations + 1
    /\ continueResearch' = (ResearchReason = "continue")
    /\ stopReason' = IF ResearchReason = "continue" THEN "sufficient_evidence"
                                                     ELSE ResearchReason
    /\ assessedCount' = Len(retrieved)
    /\ UNCHANGED <<queries, searchesUsed, retrieved, found, evidence, verdict, draftVars,
                   endVars, modelCalls>>

\* Mutation: the refiner offers a query that was tried already.
CanWidenAgain == question.widens

CanWiden == question.widens /\ "widened" \notin ToSet(queries)

Refine ==
    \/ /\ Node("refine", "search")
       /\ CanWiden
       /\ queries' = Append(queries, "widened")
       /\ UNCHANGED <<iterations, searchesUsed, stopReason, continueResearch,
                      assessedCount, retrieved, found, evidence, verdict,
                      draftVars, endVars, modelCalls>>
    \/ /\ Node("refine", "resolve_refs")
       /\ ~ CanWiden
       /\ stopReason' = "no_new_evidence"
       /\ UNCHANGED <<queries, iterations, searchesUsed, continueResearch,
                      assessedCount, retrieved, found, evidence, verdict,
                      draftVars, endVars, modelCalls>>

--------------------------------------------------------------------------------
(* The evidence *)

Cited(map) == (UNION {map[c] : c \in Ids(retrieved)}) \ Ids(retrieved)

\* Mutation: candidates are taken in document order only.
BeforeByOrder(c, d) == c < d

(* Referents come before subsections, each in document order. *)
Before(c, d) ==
    LET exact == Cited(Referents)
    IN \/ c \in exact /\ d \notin exact
       \/ (c \in exact <=> d \in exact) /\ c < d

(* The first candidates in that order, as many as the budget allows. *)
Pulls ==
    LET candidates == Cited(Referents) \cup Cited(Subsections)
    IN {p \in SeqOf(candidates, budget.pulled) :
          /\ Len(p) = budget.pulled \/ ToSet(p) = candidates
          /\ \A i, j \in DOMAIN p : i < j => Before(p[i], p[j])
          /\ \A i \in DOMAIN p, c \in candidates \ ToSet(p) : Before(p[i], c)}

ResolveRefs ==
    /\ Node("resolve_refs", "select_evidence")
    /\ \E p \in Pulls : retrieved' = retrieved \o Marked(p, "cross_reference")
    /\ UNCHANGED <<queries, iterations, searchesUsed, stopReason, continueResearch,
                   assessedCount, found, evidence, verdict, draftVars, endVars,
                   modelCalls>>

SizeOf(ids) == FoldSet(LAMBDA c, total : Size[c] + total, 0, ids)

(* Takes the item unless its location is shown already or it does not fit. *)
Show(kept, item) ==
    IF \/ LocationOf[item.id] \in {LocationOf[c] : c \in kept}
       \/ SizeOf(kept) + Size[item.id] > budget.chars /\ kept # {}
    THEN kept
    ELSE kept \cup {item.id}

(* Searched chunks first, then pulled ones. *)
ShowVia(kept, via) ==
    FoldLeft(LAMBDA k, item : IF item.via = via THEN Show(k, item) ELSE k, kept, retrieved)
NormalizeEvidence == ShowVia(ShowVia({}, "search"), "cross_reference")

NothingFound ==
    /\ Node("select_evidence", "end")
    /\ retrieved = << >>
    /\ status' = "abstained"
    /\ final' = "no passage"
    /\ UNCHANGED <<loopVars, evidence, verdict, draftVars, failure, broke, modelCalls>>

SelectEvidence ==
    /\ Node("select_evidence", IF gate THEN "answerability" ELSE "write")
    /\ retrieved # << >>
    /\ evidence' = NormalizeEvidence
    /\ status' = "writing"
    /\ UNCHANGED <<loopVars, verdict, draftVars, failure, final, broke, modelCalls>>

--------------------------------------------------------------------------------
(* The answerability gate *)

(* consistent_verdict, and the checks of validate_answerability. *)
Consistent(d) ==
    /\ d.wellFormed
    /\ d.named = d.quoted
    /\ d.verdict # "unanswerable" => d.supported /\ d.quoted # {}
    /\ d.missing <=> d.verdict # "answerable"
    /\ d.verdict = "unanswerable" => ~ d.supported

Valid(d) == Consistent(d) /\ d.verbatim /\ d.quoted \subseteq evidence

(* A model call is counted whatever comes of it. *)
CallsModel == modelCalls' = modelCalls + 1

GateFails ==
    /\ Node("answerability", "fail")
    /\ \E kind \in ModelFailures : FailsAs(kind)
    /\ CallsModel
    /\ UNCHANGED <<loopVars, evidence, verdict, draftVars>>

JudgeIsInvalid ==
    /\ Node("answerability", "fail")
    /\ \E d \in JudgeDecisions : ~ Valid(d)
    /\ FailsAs("output_validation")
    /\ CallsModel
    /\ UNCHANGED <<loopVars, evidence, verdict, draftVars>>

JudgeAnswers ==
    /\ \E d \in JudgeDecisions :
        /\ Valid(d)
        /\ verdict' = d
        /\ \/ /\ d.verdict = "unanswerable"
              /\ Node("answerability", "end")
              /\ status' = "abstained"
              /\ final' = "unanswerable"
           \/ /\ d.verdict # "unanswerable"
              /\ Node("answerability", "write")
              /\ UNCHANGED <<status, final>>
    /\ CallsModel
    /\ UNCHANGED <<loopVars, evidence, draftVars, failure, broke>>

--------------------------------------------------------------------------------
(* The draft *)

\* Mutation: a failed model call goes on to the verifier.
WriteFailsUnseen ==
    /\ Node("write", "verify")
    /\ \E kind \in ModelFailures : FailsAs(kind)
    /\ CallsModel
    /\ UNCHANGED <<loopVars, evidence, verdict, draftVars>>

WriteFails ==
    /\ Node("write", "fail")
    /\ \E kind \in ModelFailures : FailsAs(kind)
    /\ CallsModel
    /\ UNCHANGED <<loopVars, evidence, verdict, draftVars>>

Write ==
    /\ Node("write", "verify")
    /\ draft' \in Drafts
    /\ CallsModel
    /\ UNCHANGED <<loopVars, evidence, verdict, errors, repairs, endVars>>

(* CitationVerifier.verify against what was retrieved. *)
Verified(c) ==
    /\ c \in Locatable \cap Permitted
    /\ Grounds[c] \cap Ids(retrieved) # {}

HasErrors(d) == d.malformed \/ \E c \in d.cites : ~ Verified(c)

\* Mutation: a draft that cites nothing has no errors and passes.
PassesUncited(d) == ~ HasErrors(d)

(* after_verify: no errors, and citations unless there is no text at all. *)
DraftPasses(d) == ~ HasErrors(d) /\ (d.cites # {} \/ d.text = "empty")

Verify ==
    /\ errors' = HasErrors(draft)
    /\ Node("verify", IF DraftPasses(draft) THEN "finalize"
                      ELSE IF repairs < budget.repairs THEN "repair" ELSE "abstain")
    /\ UNCHANGED <<loopVars, evidence, verdict, draft, repairs, endVars, modelCalls>>

Repair ==
    /\ Node("repair", "write")
    /\ repairs' = repairs + 1
    /\ UNCHANGED <<loopVars, evidence, verdict, draft, errors, endVars, modelCalls>>

--------------------------------------------------------------------------------
(* The ends *)

Finalize ==
    /\ Node("finalize", "end")
    /\ status' = "completed"
    /\ final' = "draft"
    /\ UNCHANGED <<loopVars, evidence, verdict, draftVars, failure, broke, modelCalls>>

Abstain ==
    /\ Node("abstain", "end")
    /\ status' = "abstained"
    /\ failure' = "citation_verification"
    /\ final' = "unverified"
    /\ UNCHANGED <<loopVars, evidence, verdict, draftVars, broke, modelCalls>>

Fail ==
    /\ Node("fail", "end")
    /\ status' = "failed"
    /\ final' = "failure"
    /\ UNCHANGED <<loopVars, evidence, verdict, draftVars, failure, broke, modelCalls>>

Done == nextNode \in Over /\ UNCHANGED researchVars

RunStep ==
    \/ SearchRefused \/ SearchFails \/ SearchReturns \/ Assess \/ Refine
    \/ ResolveRefs \/ NothingFound \/ SelectEvidence
    \/ GateFails \/ JudgeIsInvalid \/ JudgeAnswers
    \/ WriteFails \/ Write \/ Verify \/ Repair
    \/ Finalize \/ Abstain \/ Fail \/ Raise

ResearchNext == RunStep \/ Done

ResearchSpec == ResearchInit /\ [][ResearchNext]_researchVars

--------------------------------------------------------------------------------
(* Properties *)

RetrievedItem == [id: Chunks, via: {"search", "cross_reference"}]
ResearchStops == {"none", "no_results", "no_new_evidence", "sufficient_evidence",
                "search_budget_exhausted", "iteration_budget_exhausted"}

\* Every variable has its type, and what was assessed is part of what was retrieved.
ResearchTypeOK ==
    /\ nextNode \in Nodes \cup Over
    /\ question \in Questions /\ budget \in Budgets /\ gate \in Gates
    /\ queries \in Seq({"asked", "widened"})
    /\ iterations \in Nat /\ searchesUsed \in Nat
    /\ stopReason \in ResearchStops /\ continueResearch \in BOOLEAN
    /\ retrieved \in Seq(RetrievedItem) /\ assessedCount \in 0..Len(retrieved)
    /\ evidence \subseteq Chunks /\ found \subseteq Chunks
    /\ verdict \in JudgeDecisions \cup {NoVerdict}
    /\ draft \in Drafts \cup {NoDraft} /\ errors \in BOOLEAN
    /\ repairs \in Nat /\ modelCalls \in Nat /\ steps \in Nat
    /\ status \in {"planning", "researching", "writing", "completed", "abstained", "failed"}
    /\ failure \in FailureKinds \cup {"none", "citation_verification"}
    /\ broke \in FailureKinds \cup {"none"}
    /\ final \in {"none", "draft", "no passage", "unanswerable", "unverified", "failure"}

\* A failure of the retriever, a model, the judge's output or a budget ends the run as
\* that failure, whatever was drafted before it, and nothing else ends it as failed.
FailuresStayFailures ==
    nextNode = "end" =>
        /\ status = "failed" <=> broke # "none"
        /\ status = "failed" => failure = broke /\ final = "failure"
        /\ failure = "citation_verification" <=> final = "unverified"

\* A completed run returns text whose every citation exists, is allowed and lies on a
\* retrieved page, text without citations is not returned, and behind the gate the
\* judge answered with quotes of the evidence the models were shown.
CompletedIsVerified ==
    status = "completed" =>
        /\ final = "draft"
        /\ ~ draft.malformed
        /\ draft.cites = {} => draft.text = "empty"
        /\ draft.cites \subseteq Locatable \cap Permitted
        /\ \A c \in draft.cites : \E i \in DOMAIN retrieved : retrieved[i].id \in Grounds[c]
        /\ gate => /\ verdict.verdict \in {"answerable", "partial"}
                   /\ verdict.quoted # {} /\ verdict.quoted \subseteq evidence

\* The refiner knows one other query, so no budget buys a third search; the model is
\* asked once per draft and once by the gate; hence the run stays below the recursion
\* limit, which would end it with an exception.
LoopIsBounded ==
    /\ searchesUsed <= 2 /\ searchesUsed <= budget.searches
    /\ repairs <= budget.repairs
    /\ modelCalls <= repairs + (IF gate THEN 2 ELSE 1)
    /\ steps <= 12 + 3 * budget.repairs

\* Subsections never crowd out a section a retrieved chunk refers to; what is pulled was
\* not retrieved already and is one reference away from something a search returned.
ReferentsComeFirst ==
    LET searched == Via(retrieved, "search")
        pulled   == Via(retrieved, "cross_reference")
        exact    == UNION {Referents[c] : c \in searched}
        loose    == UNION {Subsections[c] : c \in searched}
    IN /\ Len(retrieved) = Cardinality(searched) + Cardinality(pulled)
       /\ Cardinality(pulled) <= budget.pulled
       /\ pulled \subseteq exact \cup loose
       /\ pulled \subseteq exact \/ exact \subseteq searched \cup pulled

\* The models are asked with evidence, which shows each location once and fits the
\* budget, and nothing any search of the run returned is missing from it but what does
\* not fit beside the rest.
EvidenceIsWhole ==
    modelCalls > 0 =>
        /\ evidence # {}
        /\ \A c, d \in evidence : LocationOf[c] = LocationOf[d] => c = d
        /\ SizeOf(evidence) <= budget.chars \/ Cardinality(evidence) = 1
        /\ \A c \in found \cup Ids(retrieved) :
              \/ \E d \in evidence : LocationOf[c] = LocationOf[d]
              \/ SizeOf(evidence) + Size[c] > budget.chars

\* What retrieval found reaches the models: the sections it refers to come along, and
\* nothing is lost between a search and the prompt.
FindingsReachModels == ReferentsComeFirst /\ EvidenceIsWhole

\* What citation_verifier.py says it verifies against: what the agent actually saw.
CitationsWereShown ==
    status = "completed" => \A c \in draft.cites : Grounds[c] \cap evidence # {}
================================================================================
