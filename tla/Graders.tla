------------------------------- MODULE Graders -------------------------------
(***************************************************************************)
(* The deterministic graders: evals/graders/retrieval.py, answer.py and    *)
(* v2.py, evals/citation_metrics.py and evals/runner.py.                   *)
(*                                                                         *)
(* A task t has an expected behaviour, documents, spans of evidence,       *)
(* required points and forbidden claims.  Text is a sequence of pieces, a   *)
(* probe some of them; a span may leave pieces out, marked by Omitted,      *)
(* which counts as a piece: the marker is part of the span's text.          *)
(* A result r has a status, what was retrieved, the answer, what it says,  *)
(* its citations and the errors the gate found in them.                    *)
(* A score is the number of hits out of a total, 1 of 1 for a score of 1.  *)
(***************************************************************************)
EXTENDS ClaimSupport

Omitted == 0      \* pieces are counted from 1
SpanProbe == 2    \* SPAN_PROBE_CHARS, in pieces

Score(hits, of) == [hits |-> hits, of |-> of]
Full == Score(1, 1)
Zero == Score(0, 1)

AtMost(a, b) == a.hits * b.of <= b.hits * a.of
Passed(s) == s.hits = s.of

\* Hits among those that count, all if there is nothing to hit.
ScoreOf(total, hits) == IF total = {} THEN Full ELSE Score(Cardinality(hits), Cardinality(total))

Abstained(r) == r.status = "abstained"

-----------------------------------------------------------------------------
(***************************************************************************)
(* Retrieval.                                                              *)
(***************************************************************************)

Top(r, k) == Range(SubSeq(r.retrieved, 1, Min({k, Len(r.retrieved)})))
DocumentsIn(chunks) == {c.doc : c \in chunks}

DocumentRecall(t, r, k) == ScoreOf(t.documents, t.documents \cap DocumentsIn(Top(r, k)))

ReciprocalRank(t, r) ==
    LET ranks == {i \in DOMAIN r.retrieved : r.retrieved[i].doc \in t.documents}
    IN  CASE t.documents = {} -> Full
          [] t.documents # {} /\ ranks = {} -> Zero
          [] OTHER -> Score(1, Min(ranks))

Holds(text, pieces) ==
    \E i \in 0 .. Len(text) - Len(pieces) : SubSeq(text, i + 1, i + Len(pieces)) = pieces

Found(chunks, pieces) == pieces # <<>> /\ \E c \in chunks : Holds(c.text, pieces)
OfDocument(chunks, doc) == {c \in chunks : c.doc = doc}

\* The beginning of the whole span, a marker included that follows early.
Probe(span) == SubSeq(span.text, 1, Min({SpanProbe, Len(span.text)}))

EvidenceSpanRecall(t, r, k) ==
    ScoreOf(t.spans, {s \in t.spans : Found(Top(r, k), Probe(s))})

DocumentAwareEvidenceRecall(t, r, k) ==
    ScoreOf(t.spans, {s \in t.spans : Found(OfDocument(Top(r, k), s.doc), Probe(s))})

\* The maximal runs of pieces of a span, by where they are.
EvidenceFragments(span) ==
    LET text == span.text
        cut(i) == i \notin DOMAIN text \/ text[i] = Omitted
    IN  {f \in (DOMAIN text) \X (DOMAIN text) :
           /\ f[1] <= f[2] /\ cut(f[1] - 1) /\ cut(f[2] + 1)
           /\ \A m \in f[1] .. f[2] : ~ cut(m)}

FragmentHits(span, r, k) ==
    {f \in EvidenceFragments(span) :
       Found(OfDocument(Top(r, k), span.doc), SubSeq(span.text, f[1], f[2]))}

EvidenceFragmentRecall(t, r, k) ==
    ScoreOf(UNION {{s} \X EvidenceFragments(s) : s \in t.spans},
            UNION {{s} \X FragmentHits(s, r, k) : s \in t.spans})

\* Mutant: a span without a fragment counts as complete.
CompleteSpansVacuously(t, r, k) ==
    {s \in t.spans : FragmentHits(s, r, k) = EvidenceFragments(s)}

CompleteSpans(t, r, k) ==
    {s \in t.spans : EvidenceFragments(s) # {} /\ FragmentHits(s, r, k) = EvidenceFragments(s)}

EvidenceCompleteSpanRecall(t, r, k) == ScoreOf(t.spans, CompleteSpans(t, r, k))

-----------------------------------------------------------------------------
(***************************************************************************)
(* Answers.                                                                *)
(***************************************************************************)

AbstentionCorrectness(t, r) ==
    IF (t.behavior = "abstain") = Abstained(r) THEN Full ELSE Zero

ForbiddenClaims(t, r) ==
    IF Abstained(r) \/ t.forbidden \cap r.says = {} THEN Full ELSE Zero

RequiredPoints(t, r) ==
    CASE t.required = {} -> Full
      [] t.required # {} /\ Abstained(r) -> Zero
      [] OTHER -> ScoreOf(t.required, t.required \cap r.says)

\* A citation is known by its text, an error by that of its citation.
PostGateCitationValidity(r) ==
    LET cited == Range(r.citations)
    IN  CASE Abstained(r) -> Full
          [] ~ Abstained(r) /\ cited \cup r.errors = {} -> Zero
          [] OTHER -> ScoreOf(cited \cup r.errors, cited \ r.errors)

Cited(claims) == {i \in DOMAIN claims : claims[i].citations # <<>>}
CoverageOf(claims) == Score(Cardinality(Cited(claims)), Len(claims))

CitationCoverage(r) ==
    LET coverage == CoverageOf(ExtractCitedClaims(r.answer))
    IN  IF Abstained(r) \/ coverage.of = 0 THEN Full ELSE coverage

\* behavior_matches of the suite runner
BehaviorMatches(t, r) ==
    IF t.behavior = "abstain" THEN Abstained(r)
    ELSE ~ Abstained(r) /\ r.status = "completed"

\* diagnostics: answer_abstain_decision
DecisionCorrect(t, r) ==
    /\ r.status \notin {"failed", "cancelled"}
    /\ r.status = IF t.behavior = "abstain" THEN "abstained" ELSE "completed"

-----------------------------------------------------------------------------
(***************************************************************************)
(* The citation gate, audited: what the verifier says of an answer.        *)
(***************************************************************************)

CitationsOf(sentences) ==
    FlattenSeq([i \in DOMAIN sentences |-> CitationsIn(sentences[i])])
MalformedOf(sentences) ==
    FlattenSeq([i \in DOMAIN sentences |-> MalformedIn(sentences[i])])

Distinct(locators) == Unique(locators, Rendered(locators))

\* One error for each malformed span and each citation of a place that is
\* not among the grounds.
Tally(citations, malformed, grounds) ==
    LET good == Cardinality({i \in DOMAIN citations : citations[i].place \in grounds})
    IN  [valid |-> good, attempts |-> Len(citations) + malformed,
         errors |-> malformed + Len(citations) - good]

Audit(answer, grounds) ==
    LET sentences == FlattenSeq(answer)
    IN  Tally(Distinct(CitationsOf(sentences)), Len(MalformedOf(sentences)), grounds)

Rates(raw, rawCovered, final, finalCovered) ==
    [invalid |-> Score(raw.errors, raw.attempts),
     unsafe |-> raw.errors # 0 \/ rawCovered.hits < rawCovered.of,
     valid |-> Score(final.valid, final.attempts),
     covered |-> finalCovered]

\* summarize_citation_ablation of one task: the ungated arm's answer and,
\* if it was delivered, the gated arm's.
Ablation(o) ==
    LET gated == IF o.delivered THEN o.gated ELSE <<>>
    IN  Rates(Audit(o.ungated, o.grounds), CoverageOf(ExtractCitedClaims(o.ungated)),
              Audit(gated, o.grounds), CoverageOf(ExtractCitedClaims(gated)))

-----------------------------------------------------------------------------
(***************************************************************************)
(* Properties.                                                             *)
(***************************************************************************)

SpanScores(t, r, k) ==
    {EvidenceSpanRecall(t, r, k), DocumentAwareEvidenceRecall(t, r, k),
     EvidenceCompleteSpanRecall(t, r, k)}

\* The retrieval graders say of one result what fits together: what knows
\* the document is no more lenient, a complete span was found by the probe
\* unless a marker falls in the probe, reading further takes nothing away,
\* the first rank is that of the first recall, and where nothing was
\* retrieved no span was (evals/graders/retrieval.py).
RetrievalGradersAgree(t, r, k) ==
    /\ AtMost(DocumentAwareEvidenceRecall(t, r, k), EvidenceSpanRecall(t, r, k))
    /\ \A s \in CompleteSpans(t, r, k) :
         Omitted \notin Range(Probe(s)) => Found(OfDocument(Top(r, k), s.doc), Probe(s))
    /\ \A less \in 0 .. k :
         /\ AtMost(DocumentRecall(t, r, less), DocumentRecall(t, r, k))
         /\ AtMost(EvidenceSpanRecall(t, r, less), EvidenceSpanRecall(t, r, k))
         /\ CompleteSpans(t, r, less) \subseteq CompleteSpans(t, r, k)
    /\ t.documents # {} =>
         LET first == ReciprocalRank(t, r)
         IN  DocumentRecall(t, r, k).hits > 0 <=> first.hits = 1 /\ first.of <= k
    /\ Passed(EvidenceCompleteSpanRecall(t, r, k)) => Passed(EvidenceFragmentRecall(t, r, k))
    /\ t.spans # {} /\ Top(r, k) = {} => \A s \in SpanScores(t, r, k) : s.hits = 0

\* A decision that is right in the one report is right in the other, and a
\* result that passes every grader has made it, or failed or was cancelled
\* with citations that had been verified: the graders of answers do not ask
\* for the status (evals/runner.py, evals/graders/answer.py and v2.py).
DecisionsAgree(t, r) ==
    /\ BehaviorMatches(t, r) = DecisionCorrect(t, r)
    /\ DecisionCorrect(t, r) => Passed(AbstentionCorrectness(t, r))
    /\ LET scores == {AbstentionCorrectness(t, r), ForbiddenClaims(t, r), RequiredPoints(t, r),
                      PostGateCitationValidity(r), CitationCoverage(r)}
       IN  (\A s \in scores : Passed(s)) =>
             \/ BehaviorMatches(t, r)
             \/ /\ r.status \in {"failed", "cancelled"} /\ t.behavior = "answer"
                /\ r.citations # <<>> /\ r.errors = {}

\* The rates of the ablation are rates, and an answer that is not unsafe has
\* no claim that the support grader finds uncited or badly cited
\* (evals/citation_metrics.py).
AblationIsSound(o, judge) ==
    \A a \in {Ablation(o)} :
      /\ \A rate \in {a.invalid, a.valid, a.covered} : rate.hits \in 0 .. rate.of
      /\ ~ a.unsafe =>
           /\ a.invalid.hits = 0
           /\ Range(CheckAnswer(o.ungated, <<>>, judge).verdicts)
                \cap {"uncited", "malformed_citation"} = {}

===============================================================================
