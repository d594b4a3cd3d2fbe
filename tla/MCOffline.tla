------------------------------ MODULE MCOffline ------------------------------
(***************************************************************************)
(* The machines of Offline, and beside them, each a job of its own: the    *)
(* standalone sweep, the budget ledger, a run of the V1 graph, and         *)
(* chunking, which has no state and is one step.                           *)
(***************************************************************************)
EXTENDS Chunker, Offline, StandaloneSweep, BudgetLedger, MCV1Graph, EvaluationSamples, TLC

CONSTANTS t1, t2, t3, c1, c2, c3, c4

\* Three cases.
ThreeTasks == <<t1, t2, t3>>

\* Four calls of three lengths against caps that three attempts, or two of
\* the long ones, reach.  The ledger starts from nothing, from one an earlier
\* version left with an overrun it did not stop at, or from one whose process
\* died with a call in flight.
FourCalls == (c1 :> 2) @@ (c2 :> 2) @@ (c3 :> 3) @@ (c4 :> 1)
SomeUsages == {[input |-> 1, output |-> 1], [input |-> 2, output |-> 2],
               [input |-> 3, output |-> 1], [input |-> 6, output |-> 1]}
SomeOlderLedgers ==
    {[NewLedger EXCEPT !.attempts = 1, !.settledInput = 3, !.settledOutput = 1,
                       !.settledCost = Cost(3, 1), !.overruns = 1],
     [NewLedger EXCEPT !.attempts = 1, !.reservedInput = 1, !.reservedOutput = 2,
                       !.reservedCost = Cost(1, 2)]}

-----------------------------------------------------------------------------
SomeOpinions ==
    {[task_success |-> "yes", outcome |-> "answered", primary_failure |-> None],
     [task_success |-> "no", outcome |-> "execution_failure", primary_failure |-> "cause"],
     [task_success |-> "yes", outcome |-> "execution_failure", primary_failure |-> None]}

SomeRankings == RankedTasks \X RankedResults \X {1, 2}
SomeDecisions == DecidedTasks \X DecidedResults
SomeAblations == AblatedAnswers \X {j \in Judges : ~ j.live}
SomeChecks == SomeAnswers \X SomeEvidence \X Judges

-----------------------------------------------------------------------------
\* Pages: every sequence of up to three of these lines, and two short pages.
Line(kind, num, len, stop) == [kind |-> kind, num |-> num, len |-> len, stop |-> stop]
Lines == {Line("section", <<8>>, 2, FALSE), Line("section", <<8, 1>>, 2, FALSE),
          Line("section", <<8, 0>>, 2, TRUE), Line("section", <<9, 1>>, 6, TRUE),
          Line("sub", <<0, 1>>, 2, TRUE), Line("sub", <<0, 2>>, 2, TRUE),
          Line("text", <<>>, 2, FALSE), Line("text", <<>>, 9, FALSE),
          Line("text", <<>>, 1, TRUE), Line("text", <<>>, 5, TRUE),
          Line("blank", <<>>, 0, FALSE)}

\* The characters of a page are numbered; the last one of a line may stop.
Page(lines) ==
    LET before(i) == FoldLeft(LAMBDA n, l : n + l.len, 0, SubSeq(lines, 1, i - 1))
    IN  [i \in DOMAIN lines |->
           [kind |-> lines[i].kind, num |-> lines[i].num,
            chars |-> [k \in 1 .. lines[i].len |->
                         [at |-> before(i) + k, stop |-> lines[i].stop /\ k = lines[i].len]]]]

UpToLines(n) == UNION {[1 .. k -> Lines] : k \in 0 .. n}
SomePages == {<<Page(p)>> : p \in UpToLines(3) \ {<<>>}}
             \cup {<<Page(p), Page(q)>> : p \in UpToLines(1), q \in UpToLines(2)}
Overlaps == 0 .. 5

-----------------------------------------------------------------------------
\* Corpora of four chunks, the first three of one contract, and five windows.
Backwards(f) == [i \in DOMAIN f |-> f[Len(f) + 1 - i]]
Corpora ==
    {[doc |-> <<"A", "A", "A", "B">>, synthetic |-> {"B"}, windows |-> <<1, 2, 2, 3, 4>>,
      lexical |-> [q |-> l, e |-> Backwards(l)],
      embedding |-> [q |-> <<w[1], w[2], w[4], w[5]>>, e |-> <<w[5], w[4], w[2], w[1]>>],
      window |-> [q |-> w, e |-> Backwards(w)],
      relevance |-> [q |-> o[1], e |-> Backwards(o[1])], expanded |-> [q |-> o[2], e |-> "e"]] :
       l \in [1 .. 4 -> 0 .. 1], w \in {v \in [1 .. 5 -> 0 .. 1] : v[1] = 0},
       o \in {<<<<4, 3, 2, 1>>, "e">>, <<<<2, 1, 1, 3>>, "q">>}}

Filters == {Unfiltered, [Unfiltered EXCEPT !.exclude_synthetic = TRUE]}
           \cup {[Unfiltered EXCEPT !.scoped = TRUE, !.documents = d] :
                   d \in {{"A", "B"}, {"B"}}}
Requests ==
    {[query |-> "q", top_k |-> k, filters |-> f, comparison |-> Cardinality(f.documents) = 2] :
       k \in {1, 2}, f \in Filters}
SomeSearches == Corpora \X Requests

-----------------------------------------------------------------------------
\* A machine beside those of Offline starts at any of its states if its job is
\* taken, and rests at one of them otherwise.
SweepRests == setting = CHOOSE s \in Settings : TRUE
LedgerRests == state = NewLedger
V1Rests == <<question, budget, gate>> = CHOOSE r \in Questions \X Budgets \X Gates : TRUE

\* The runs to export begin as those of one agent; another may recover each of
\* them.
StartOfAll ==
    /\ OfflineInit /\ indexes.loads /\ live = [r \in Runs |-> CHOOSE a \in Agents : TRUE]
    /\ Init /\ LedgerInit /\ ResearchInit
    /\ \/ LedgerRests /\ V1Rests
       \/ SweepRests /\ V1Rests
       \/ SweepRests /\ LedgerRests

besideVars == <<vars, ledgerVars, researchVars>>

ChunkPages == Compute("chunk", SomePages \X Overlaps)
              /\ output' = ChunkDocument(input'[1], input'[2])

RunOffline ==
    /\ SweepRests /\ LedgerRests /\ V1Rests
    /\ ChunkPages \/ OfflineNext
    /\ UNCHANGED besideVars

Beside(name) ==
    /\ job \in {"none", name} /\ job' = name
    /\ UNCHANGED <<input, output, machineVars>>

Sweep ==
    /\ Beside("sweep") /\ LedgerRests /\ V1Rests
    /\ Next
    /\ UNCHANGED <<ledgerVars, researchVars>>

KeepLedger ==
    /\ Beside("ledger") /\ SweepRests /\ V1Rests
    /\ LedgerNext
    /\ UNCHANGED <<vars, researchVars>>

RunV1 ==
    /\ Beside("research") /\ SweepRests /\ LedgerRests
    /\ ResearchNext
    /\ UNCHANGED <<vars, ledgerVars>>

\* Only a run of V1 has to reach its end.
Rest == job # "research" /\ UNCHANGED <<offlineVars, besideVars>>

NextOfAll == RunOffline \/ Sweep \/ KeepLedger \/ RunV1 \/ Rest

-----------------------------------------------------------------------------
\* Chunks hold every character of the document, in order, within the budget.
ChunksKeepText ==
    job = "chunk" => KeepsText(input[1], input[2], output) /\ KeepsBudget(output)

\* A chunk is of the section it is cited by, and no heading is left behind.
ChunksKeepSections ==
    job = "chunk" => /\ KeepsSectionsApart(input[1], output)
                     /\ KeepsHeadingsWithBodies(input[1], output)

\* What _fold_bare_headings says of enumerated siblings such as (a) and (b):
\* they are not merged (app/ingestion/chunker.py:277-281).
SiblingsStayApart == job = "chunk" => KeepsSiblingsApart(input[1], output)

===============================================================================
