------------------------------- MODULE Offline -------------------------------
(***************************************************************************)
(* The parts of the system that keep files or caches beside the agent, none *)
(* of which shares state with another: the corpus on disk, the label        *)
(* review, the export of runs, the ablation of the citation gate and the    *)
(* HTTP API; and a search and the grading of a result, which keep nothing.  *)
(* A job is one of them, chosen in the first step.                          *)
(***************************************************************************)
EXTENDS Retrieval

CONSTANTS
    None,
    Sources, MaxEditions, MaxIngests, MaxBuilds,                 \* Corpus
    Cases, Opinions, Judged, MaxReports, MaxEdits, MaxRounds,    \* LabelReview
    Runs, Agents, Scripts, MaxTraces,                            \* Telemetry
    Suites, Schedules, LiveTasks,                                \* GateAblation
    IndexedArms, DefaultArm, MaxIndexes, MaxServerStarts,        \* ApiServer
    Searches,                    \* what Retrieval searches: corpora with requests
    Rankings, Decisions,         \* what Graders scores: tasks with results of theirs,
    Ablations, Checks,           \* ablated answers, answers with evidence and a judge
    Journals                     \* what Telemetry makes spans of: journals of V2 runs

VARIABLES
    job, input, output,
    documents, edition, docs, chunks, vectors, meta, writing, tornBuild, ingests, builds,
    reports, source, labels, frozen, key, blind, sealed, judge, unsealed, command,
    written, edits,
    live, tornRuns, marker, doing, queue, backend, up, emitted, unmarked,
    suite, every, paid, node, counter, drafts, results,
    indexes, env, serverStarts, base, degraded, armCache, modeCache, asked, served

diskVars == <<documents, edition, docs, chunks, vectors, meta, writing, tornBuild,
              ingests, builds>>
reviewVars == <<reports, source, labels, frozen, key, blind, sealed, judge, unsealed,
                command, written, edits>>
traceVars == <<live, tornRuns, marker, doing, queue, backend, up, emitted, unmarked>>
armVars == <<suite, every, paid, node, counter, drafts, results>>
serverVars == <<indexes, env, serverStarts, base, degraded, armCache, modeCache, asked, served>>
machineVars == <<diskVars, reviewVars, traceVars, armVars, serverVars>>
offlineVars == <<job, input, output, machineVars>>

Disk == INSTANCE Corpus
Review == INSTANCE LabelReview WITH report <- reports, Tasks <- Cases
Exports == INSTANCE Telemetry WITH torn <- tornRuns
Gate == INSTANCE GateAblation WITH live <- paid
Server == INSTANCE ApiServer WITH starts <- serverStarts, MaxStarts <- MaxServerStarts
Grading == INSTANCE Graders

-----------------------------------------------------------------------------
\* A task of the gate ablation, an agent of the server.
GateTask == [evidence: BOOLEAN, honest: Gate!LiveDrafts, fault: Gate!LiveDrafts,
             behavior: {"answer", "abstain"}]
ServerAgent == [arm: Server!ArmNames, index: Nat, mode: Server!Modes, live: BOOLEAN]

\* A corpus with the scores of a query and its expansion, and a request.
IsSearch(c, r) ==
    /\ IsCorpus(c) /\ IsScored(c, r.query) /\ IsScored(c, c.expanded[r.query])
    /\ r.top_k \in Nat \ {0}
    /\ IsFiniteSet(r.filters.documents)
    /\ r.filters \in [documents : {r.filters.documents}, scoped : BOOLEAN,
                      exclude_synthetic : BOOLEAN]

\* A task, a result that retrieved chunks, and a cut-off; texts are pieces.
IsRanking(t, r, k) ==
    /\ IsFiniteSet(t.documents) /\ IsFiniteSet(t.spans) /\ k \in Nat
    /\ \A s \in t.spans : s.text \in Seq(Nat)
    /\ \E found \in {{r.retrieved[i] : i \in DOMAIN r.retrieved}} :
         r.retrieved \in Seq(found) /\ \A c \in found : c.text \in Seq(Nat)

\* A task and a result of any status, with the citations that were found.
IsDecision(t, r) ==
    /\ t.behavior \in {"answer", "abstain"}
    /\ r.status \in {"completed", "abstained", "failed", "cancelled"}
    /\ IsFiniteSet(r.errors)
    /\ \E cited \in {{r.citations[i] : i \in DOMAIN r.citations}} :
         IsFiniteSet(cited) /\ r.citations \in Seq(cited)

\* A judge that is asked has a reply, or fails: there is one for every claim.
IsCheck(a, j) ==
    /\ a \in Grading!Answer
    /\ j.ceiling \in Nat \cup {Grading!NoCeiling} /\ j.replies \in Seq(Grading!Reply)
    /\ j.live => Len(Grading!ExtractCitedClaims(a)) <= Len(j.replies)

\* What the offline report reads is graded without a call to a judge.
IsAblation(o, j) == o.ungated \in Grading!Answer /\ o.gated \in Grading!Answer /\ ~ j.live

\* A reviewer's opinion is a label, well formed or not; the suites are of
\* tasks; an arm that loads an index is not the lexical one; what says that
\* there is nothing is not something else.
ASSUME OfflineAssumption ==
    /\ Opinions \subseteq Review!Label
    /\ Suites \subseteq Seq(GateTask) /\ Schedules \subseteq Nat
    /\ "bm25" \notin IndexedArms /\ DefaultArm \in IndexedArms
    /\ None \notin Nat \cup {"graded", "yes", "no"}
    /\ None \notin Server!ArmNames \cup Server!Modes \cup ServerAgent
    /\ \A x \in Searches : IsSearch(x[1], x[2])
    /\ \A x \in Rankings : IsRanking(x[1], x[2], x[3])
    /\ \A x \in Decisions : IsDecision(x[1], x[2])
    /\ \A x \in Ablations : IsAblation(x[1], x[2])
    /\ \A x \in Checks : IsCheck(x[1], x[3])
    /\ \A rows \in Journals : Exports!IsJournal(rows)

-----------------------------------------------------------------------------
OfflineInit ==
    /\ job = "none" /\ input = <<>> /\ output = <<>>
    /\ Disk!Init /\ Review!Init /\ Exports!Init /\ Gate!Init /\ Server!Init

KeepCorpus ==
    /\ job \in {"none", "corpus"} /\ job' = "corpus"
    /\ UNCHANGED <<input, output, reviewVars, traceVars, armVars, serverVars>>
    /\ Disk!Next

ReviewReports ==
    /\ job \in {"none", "review"} /\ job' = "review"
    /\ UNCHANGED <<input, output, diskVars, traceVars, armVars, serverVars>>
    /\ Review!Next

ExportRuns ==
    /\ job \in {"none", "export"} /\ job' = "export"
    /\ UNCHANGED <<input, output, diskVars, reviewVars, armVars, serverVars>>
    /\ Exports!Next

CompareGates ==
    /\ job \in {"none", "gates"} /\ job' = "gates"
    /\ UNCHANGED <<input, output, diskVars, reviewVars, traceVars, serverVars>>
    /\ Gate!Next

ServeRequests ==
    /\ job \in {"none", "serve"} /\ job' = "serve"
    /\ UNCHANGED <<input, output, diskVars, reviewVars, traceVars, armVars>>
    /\ Server!Next

\* A job without a state of its own.
Compute(name, S) ==
    /\ job = "none" /\ job' = name
    /\ UNCHANGED machineVars
    /\ input' \in S

SearchCorpus ==
    /\ Compute("search", Searches)
    /\ output' = [arms |-> [n \in ArmNames |-> Search(n, input'[1], input'[2])],
                  windows |-> WindowedSearch(input'[1], input'[2].query, input'[2].top_k,
                                             input'[2].filters),
                  fusions |-> Fusions(input'[1], input'[2])]

\* The grades of an input are compared with one another.
GradeRetrieval == Compute("rank", Rankings) /\ UNCHANGED output
GradeDecision == Compute("decide", Decisions) /\ UNCHANGED output
Ablate == Compute("ablate", Ablations) /\ UNCHANGED output
CheckClaims == Compute("claims", Checks) /\ UNCHANGED output

\* The property makes the spans and compares them with the journal.
MakeSpans == Compute("spans", Journals) /\ UNCHANGED output

OfflineNext ==
    \/ KeepCorpus \/ ReviewReports \/ ExportRuns \/ CompareGates \/ ServeRequests
    \/ SearchCorpus \/ GradeRetrieval \/ GradeDecision \/ Ablate \/ CheckClaims
    \/ MakeSpans

OfflineSpec == OfflineInit /\ [][OfflineNext]_offlineVars

-----------------------------------------------------------------------------
\* What loads is of the sources the manifest names, and a window index of the
\* corpus that loads with it but after a torn build (Corpus).
WhatLoadsIsCurrent == job = "corpus" => Disk!WhatLoadsIsCurrent

\* What may be reported rests on judgements of the very answers reported
\* (LabelReview).
ReportedLabelsAreReviews == job = "review" => Review!ReportedLabelsAreReviews

\* Outcomes are settled before a verdict of the judge is read (LabelReview).
OutcomesPredateVerdicts == job = "review" => Review!OutcomesPredateVerdicts

\* A run is exported twice only by a race or a death, and its marker tells the
\* truth (RunExporter.export, Telemetry).
ExportsRaceOrDie == job = "export" => Exports!ExportsRaceOrDie

\* The arms of the citation-gate ablation meet the same faults, and differ by
\* what the gate withholds and the repair adds (GateAblation).
AblationIsFair == job = "gates" => Gate!AblationIsFair

\* A request is answered by the agent it names, whatever was cached before it
\* and rebuilt meanwhile (ApiServer).
ServedAsAsked == job = "serve" => Server!ServedAsAsked

\* The ranking rewards what both arms found and stays in scope.
SearchesAgree ==
    job = "search" =>
      /\ \A f \in output.fusions : AgreementWins(f.lists[1], f.lists[2], f.fused)
      /\ StaysInScope(input[1], input[2], output.arms)

\* No cut-off takes the best of a scope, or a compared contract, away.
SearchesCover == job = "search" => /\ WindowsAreExhaustive(input[1], input[2], output.windows)
                                   /\ ComparisonsCover(input[1], input[2], output.arms)

\* The graders of one result do not contradict each other (Graders).
GradesAgree ==
    /\ job = "rank" => Grading!RetrievalGradersAgree(input[1], input[2], input[3])
    /\ job = "decide" => Grading!DecisionsAgree(input[1], input[2])

\* Claims keep their citations, and only what their own evidence supports
\* counts as supported, whatever the judge does (ClaimSupport); nor does the
\* audit of the citation gate pass what the support grader finds badly cited
\* (Graders).
SupportIsEvidenced ==
    /\ job = "claims" =>
         /\ Grading!ClaimsCarryTheirCitations(input[1])
         /\ Grading!SupportIsEvidenced(input[1], input[2], input[3])
         /\ \A n \in DOMAIN input[3].replies :
              Grading!GradedRubricsAreWhole(input[3].replies[n], 2)
    /\ job = "ablate" => Grading!AblationIsSound(input[1], input[2])

\* The spans of a run are its calls, whole and apart (Telemetry).
SpansAreTheCalls == job = "spans" => Exports!SpansAreTheCalls(input)

===============================================================================
