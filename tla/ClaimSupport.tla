---------------------------- MODULE ClaimSupport ----------------------------
(***************************************************************************)
(* Claims, their citations, and whether the evidence supports them:        *)
(* app/evidence/citation_parser.py, app/evidence/claim_support.py, the     *)
(* graders claim_support and answer_rubric of evals/graders.               *)
(*                                                                         *)
(* An answer is a sequence of lines, a line of sentences.  A sentence s    *)
(* tells whether its prose is a claim (s.factual) and its bracketed spans, *)
(* each the sequence of its parts: several if semicolons divide it.  A     *)
(* part is a locator, something garbled that reads like one, or an aside   *)
(* such as [sic].  A locator has a place and a spelling; places compare    *)
(* without their case.  Evidence is a sequence of items, each with its id, *)
(* its place and the phrases of its excerpt.                               *)
(*                                                                         *)
(* A judge j is live or not, takes at most j.ceiling claims of an answer,  *)
(* and answers its n-th call with j.replies[n].                            *)
(***************************************************************************)
EXTENDS Integers, Sequences, FiniteSets, SequencesExt, FiniteSetsExt

NoCeiling == -1

Part == [kind : {"locator", "garbled", "aside"}, place : Nat, spelling : STRING]
Sentence == [factual : BOOLEAN, spans : Seq(Seq(Part))]
Answer == Seq(Seq(Sentence))
Reply == [kind : {"supported", "contradicted", "not_addressed", "outage", "garbled"},
          quote : STRING, indices : Seq(Int)]

\* The elements at some of the places of a sequence, in order.
At(seq, places) ==
    [n \in 1 .. Cardinality(places) |->
       seq[CHOOSE i \in places : Cardinality(places \cap (1 .. i)) = n]]

\* The first of each group of elements that have the same key.
Unique(seq, keys) == At(seq, {i \in DOMAIN seq : \A j \in 1 .. i - 1 : keys[j] # keys[i]})

-----------------------------------------------------------------------------
(***************************************************************************)
(* Citations.                                                              *)
(***************************************************************************)

IsLocator(part) == part.kind = "locator"
IsCitation(span) == Len(span) = 1 /\ IsLocator(span[1])
LooksLikeAttempt(span) == \E i \in DOMAIN span : span[i].kind # "aside"

\* normalize_compound_citations: a list is taken apart if all of it parses.
NormalizeCompound(span) ==
    IF Len(span) > 1 /\ \A i \in DOMAIN span : IsLocator(span[i])
    THEN [i \in DOMAIN span |-> <<span[i]>>]
    ELSE <<span>>

Rendered(locators) == [i \in DOMAIN locators |-> <<locators[i].place, locators[i].spelling>>]
Places(locators) == [i \in DOMAIN locators |-> locators[i].place]

SpansOf(sentence) ==
    FlattenSeq([i \in DOMAIN sentence.spans |-> NormalizeCompound(sentence.spans[i])])

\* extract_citations
LocatorsOf(spans) == FlattenSeq(At(spans, {i \in DOMAIN spans : IsCitation(spans[i])}))
AttemptsOf(spans) ==
    At(spans, {i \in DOMAIN spans : ~ IsCitation(spans[i]) /\ LooksLikeAttempt(spans[i])})

CitationsIn(sentence) ==
    LET locators == LocatorsOf(SpansOf(sentence))
    IN  Unique(locators, Rendered(locators))

MalformedIn(sentence) == AttemptsOf(SpansOf(sentence))

-----------------------------------------------------------------------------
(***************************************************************************)
(* Claims.                                                                 *)
(***************************************************************************)

Uncited == [citations |-> <<>>, malformed |-> <<>>]

Cite(claim, sentence) ==
    LET citations == claim.citations \o CitationsIn(sentence)
        malformed == claim.malformed \o MalformedIn(sentence)
    IN  [citations |-> Unique(citations, Places(citations)),
         malformed |-> Unique(malformed, malformed)]

\* A sentence that only cites belongs to the claim before it on its line.
Read(acc, s) ==
    CASE s.factual -> [claims |-> Append(acc.claims, Cite(Uncited, s)), open |-> TRUE]
      [] ~ s.factual /\ acc.open -> [acc EXCEPT !.claims[Len(acc.claims)] = Cite(@, s)]
      [] OTHER -> acc
ReadLine(acc, line) == FoldLeft(Read, [acc EXCEPT !.open = FALSE], line)

ExtractCitedClaims(answer) ==
    FoldLeft(ReadLine, [claims |-> <<>>, open |-> FALSE], answer).claims

-----------------------------------------------------------------------------
(***************************************************************************)
(* Verdicts.                                                               *)
(***************************************************************************)

Cites(claim, item) == \E c \in Range(claim.citations) : c.place = item.place

\* Mutant: a claim is judged against all that was selected.
EvidenceForPool(claim, evidence) == Range(evidence)

EvidenceFor(claim, evidence) == {e \in Range(evidence) : Cites(claim, e)}

MissingFrom(claim, evidence) ==
    {c \in Range(claim.citations) : \A e \in Range(evidence) : e.place # c.place}

\* The judge is shown the excerpts the claim cites and must quote them.
Judgement(reply, excerpts) ==
    LET quoted == \E e \in excerpts : reply.quote \in e.phrases
    IN  CASE reply.kind \in {"outage", "garbled"} -> "unknown"
          [] reply.kind = "supported" /\ ~ quoted -> "not_addressed"
          [] OTHER -> reply.kind

\* What is decided before any call to the judge; "open" is left to it.
DeterministicVerdict(claim, evidence) ==
    CASE claim.malformed # <<>> -> "malformed_citation"
      [] claim.malformed = <<>> /\ claim.citations = <<>> -> "uncited"
      [] claim.malformed = <<>> /\ MissingFrom(claim, evidence) # {} ->
           "citation_not_in_evidence"
      [] OTHER -> "open"

\* check_answer: what is open is asked while the ceiling leaves a call for it.
Asks(acc, claim, evidence, judge) ==
    /\ DeterministicVerdict(claim, evidence) = "open"
    /\ judge.ceiling = NoCeiling \/ acc.checked < judge.ceiling

VerdictOn(acc, claim, evidence, judge) ==
    LET known == DeterministicVerdict(claim, evidence)
    IN  CASE known # "open" -> known
          [] known = "open" /\ ~ (judge.live /\ Asks(acc, claim, evidence, judge)) -> "unknown"
          [] OTHER -> Judgement(judge.replies[acc.checked + 1], EvidenceFor(claim, evidence))

Checked(acc, claim, evidence, judge) ==
    [checked |-> acc.checked + IF Asks(acc, claim, evidence, judge) THEN 1 ELSE 0,
     verdicts |-> Append(acc.verdicts, VerdictOn(acc, claim, evidence, judge))]

CheckAnswer(answer, evidence, judge) ==
    FoldLeft(LAMBDA acc, claim : Checked(acc, claim, evidence, judge),
             [checked |-> 0, verdicts |-> <<>>], ExtractCitedClaims(answer))

-----------------------------------------------------------------------------
(***************************************************************************)
(* Grades: supported of evaluated claims, and whether the answer passes.   *)
(***************************************************************************)

CountOf(verdict, verdicts) == Cardinality({i \in DOMAIN verdicts : verdicts[i] = verdict})

\* An abstention or an answer without claims has nothing unsupported in it.
ClaimSupportGrade(abstained, verdicts) ==
    LET evaluated == Len(verdicts) - CountOf("unknown", verdicts)
        supported == CountOf("supported", verdicts)
    IN  IF abstained \/ verdicts = <<>>
        THEN [supported |-> 0, evaluated |-> 0, passed |-> TRUE]
        ELSE [supported |-> supported, evaluated |-> evaluated,
              passed |-> evaluated # 0 /\ supported = Len(verdicts)]

\* judge_answer: the verdicts, put in order, are those on points 0 .. n - 1,
\* or the grade is unknown.
RubricIsGraded(reply, n) ==
    /\ reply.kind \notin {"outage", "garbled"}
    /\ \E order \in Bijection(1 .. n, DOMAIN reply.indices) :
         \A i \in 1 .. n : reply.indices[order[i]] = i - 1

-----------------------------------------------------------------------------
(***************************************************************************)
(* Properties.                                                             *)
(***************************************************************************)

\* Which sentence cites for which claim, said without reading in order: the
\* claim's own, and those behind it on the line up to the next claim
\* (extract_cited_claims).  No claim is lost, and none is made up.
ClaimsCarryTheirCitations(answer) ==
    LET claims == ExtractCitedClaims(answer)
        Factual == UNION {{i} \X {j \in DOMAIN answer[i] : answer[i][j].factual} :
                            i \in DOMAIN answer}
        number(i, j) == Cardinality({f \in Factual : f[1] < i \/ (f[1] = i /\ f[2] <= j)})
        citing(i, j) == {k \in DOMAIN answer[i] :
                           k >= j /\ \A m \in j + 1 .. k : <<i, m>> \notin Factual}
    IN  /\ Len(claims) = Cardinality(Factual)
        /\ \A f \in Factual :
             LET claim == claims[number(f[1], f[2])]
                 sentences == {answer[f[1]][k] : k \in citing(f[1], f[2])}
             IN  /\ {c.place : c \in Range(claim.citations)}
                      = UNION {Range(Places(CitationsIn(s))) : s \in sentences}
                 /\ Range(claim.malformed) = UNION {Range(MalformedIn(s)) : s \in sentences}

\* A claim is supported only by a quote from what it cites itself, all of
\* which is evidence, and the answer passes only if every claim is: neither
\* an outage nor the ceiling on calls lets one through (check_answer).
SupportIsEvidenced(answer, evidence, judge) ==
    LET claims == ExtractCitedClaims(answer)
        verdicts == CheckAnswer(answer, evidence, judge).verdicts
        quotes == {judge.replies[n].quote : n \in DOMAIN judge.replies}
        evidenced(claim) ==
          /\ judge.live /\ claim.malformed = <<>> /\ claim.citations # <<>>
          /\ \A c \in Range(claim.citations) : \E e \in Range(evidence) : e.place = c.place
          /\ \E e \in Range(evidence) : Cites(claim, e) /\ e.phrases \cap quotes # {}
    IN  /\ Len(verdicts) = Len(claims)
        /\ \A i \in DOMAIN claims : verdicts[i] = "supported" => evidenced(claims[i])
        /\ ClaimSupportGrade(FALSE, verdicts).passed =>
             \A i \in DOMAIN claims : evidenced(claims[i])

\* A graded rubric holds exactly one verdict on each point (judge_answer).
GradedRubricsAreWhole(reply, n) ==
    RubricIsGraded(reply, n) =>
      /\ Len(reply.indices) = n
      /\ \A point \in 0 .. n - 1 : Cardinality({i \in DOMAIN reply.indices :
                                                reply.indices[i] = point}) = 1

===============================================================================
