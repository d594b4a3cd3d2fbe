# Specifications of the contract research agent

TLA+ specifications of the contract research agent in `src/`: what its two research
graphs, its MCP and A2A servers, its HTTP API, its run journal and telemetry, its spend
ledger and live evaluation sweep, its corpus on disk, its chunker and retrieval arms, and
its evaluation, graders and blind review do, checked with TLC on small instances and, where marked, proved with TLAPS for all of them. The modules
are translated from the Python code; `PROJECT.json` names, for every definition, the
lines it stands for.

## The system

A user asks a question about a set of contracts. An *agent* searches the corpus with
typed tools, admits what it finds as evidence, drafts an answer with citations and
returns it only if a deterministic check accepts every citation. Two agents exist: V1
is a fixed pipeline with a bounded search loop, V2 a planner loop over tools. Both are
compiled LangGraph graphs run on one asyncio event loop.

| Part | State it keeps | Operations | Talks to |
| --- | --- | --- | --- |
| Tool session (`app/agent/tool_session.py`) | a state dictionary: tool calls, searches, retries, three evidence containers, recorded results | authorize, reserve, run one attempt, retry, admit | the registry (reads in threads), V2 graph or MCP server (callers) |
| Tool registry (`app/agent/tool_registry.py`) | none; the corpus is read-only | five typed tools; scope and provenance guards | retriever, chunk store, citation verifier |
| MCP server (`app/mcp_server.py`) | one session per connection, with a grant and a lifetime | five tools, resources | the executor of the tool session; an external SDK delivers calls concurrently and cancels them |
| V2 graph (`app/agent/v2.py`, `execution.py`) | the run's `ResearchState`: status, counters, evidence, draft, verdict | initialize, decide, authorize, execute, write, verify, repair, terminal | planner and writer (provider calls), executor, journal |
| Run journal (`app/observability/events.py`) | a directory per run: `manifest.json`, `events.jsonl`, `summary.json` | append a snapshot, mark the runs of dead processes failed | V2 graph, SSE stream, telemetry, later processes |
| SSE stream (`app/api/stream.py`) | the number of lines it has sent | tail the journal until the run is over | the run's task and its journal |
| Spend ledger (`evals/budget.py`) | counters in memory and in a file | reserve, settle, refuse, save, resume | provider clients of an experiment, overlapping |
| V1 graph (`app/agent/graph.py`, `policies.py`) | the same `ResearchState` | search, assess, refine, resolve, select, answerability, write, verify, repair | retriever, model client |
| A2A executor (`app/a2a/executor.py`) | clarification rounds per task, a bounded progress queue and a drain task per run | execute, run, publish, cancel | an SDK that serialises the messages of a task; the V2 agent |
| HTTP API (`app/api/main.py`) | the agent loaded at the start, caches per retrieval arm and per mode | load or degrade, answer, stream, report health | retrievers over the indices on disk, V1 and V2 agents |
| Telemetry export (`app/observability/telemetry.py`, a script) | a marker file per run | turn a journal into spans, emit them once | the journal; live exporters and scripts; an SDK that loses spans |
| Ingestion (`app/ingestion/`) | manifest, documents, `chunks.jsonl` | register sources, chunk pages by section, write the store | indexes, retrieval |
| Retrieval (`app/retrieval/`) | vector indexes and their metadata on disk | lexical, dense and windowed search, fusion, reranking, expansion | the graphs, the graders |
| Evidence (`app/evidence/`) | none | parse, verify and normalise citations, follow cross-references, extract claims and judge their support | the graphs, the graders |
| Evaluation graders (`evals/graders/`, `evals/citation_metrics.py`) | none | score retrieval, answers, decisions, claims | reports |
| Standalone sweep (`experiments/v2_standalone.py`) | rows appended per case, a frozen configuration | run, stop at the budget, resume, report | V1 or V2 agent, the ledger |
| Citation-gate ablation (`experiments/citation_gate_ablation.py`) | a fault counter per arm | answer a suite with no gate, a gate, a gate and repairs | V1 graphs, the auditor |
| Label review (`evals/v2_labels.py`, `evals/paired.py`, scripts) | label files, keys, sealed verdicts | freeze, blind, review, unblind, compare | reports of two agents, human reviewers |

`PROJECT.json` lists all of them, with what is modelled of each, under `components`.

### What is hard here

- *Interleaving.* MCP calls of a session overlap; every `await` between a check and its
  use is a place where another call may run. Provider calls of an experiment overlap
  under one ledger. Several processes append to one journal.
- *Cancellation and deadlines.* A consumer may leave at any `await`. Capacity that was
  reserved stays consumed, and late results of a cancelled read must go nowhere. A run,
  a call and a session each have a deadline, read from the clock at different moments.
- *Budgets that depend on one another.* The mandatory citation check costs a tool call
  and the writer a model call; the planner must not be able to spend either.
- *Failure must look like failure.* An outage must not end as an abstention, which reads
  as a statement about the contract; a call whose usage is unknown must not be free.
- *Crashes.* A process can die between two writes of a line, between sending a paid
  call and recording it, and between the files of a store, an index, a sweep or a review;
  later processes clean up after it, resume it, or must refuse what it left.
- *Stale state.* An index outlives the corpus it was built from, a cached agent the
  configuration it was built for, a label the report its reviewer read.
- *Exactly one terminal event*, written by whichever of four code paths gets there, the
  last of them in several processes at once.

The list, at the lines where it bites and with the properties that cover it, is
`hazards` in `PROJECT.json`.

## Modules

```
ToolPolicy ---- McpSession   ---- McpSessionProofs
     |    \
     |     ToolPolicyProofs
     +--------- V2Graph      ---- V2GraphProofs        RunContract (refined by V2Graph)
                V1Graph      ---- V1GraphProofs
                A2ATask      ---- A2ATaskProofs
                RunJournal   ---- RunJournalProofs
                BudgetLedger ---- BudgetLedgerProofs
                StandaloneSweep --+
                                  +-- OfflineProofs
Offline  ------ composes     -----+
                     Corpus, LabelReview, Telemetry,            (machines)
                     GateAblation, ApiServer
                     Graders -- ClaimSupport, Retrieval         (algorithms)

MCOffline extends    Offline, Chunker                           (an algorithm),
                     StandaloneSweep, BudgetLedger, MCV1Graph
          over       EvaluationSamples                          (inputs of the graders)
```

The proofs of McpSession, V2Graph, V1Graph and BudgetLedger cite the lemmas of ToolPolicyProofs.

**ToolPolicy** is the part of the tool session both callers share, as operators on a
session record: `Refusal` (every early return of `authorize`, in its order), `Reserved`
(the atomic check-and-take before each attempt), `Attempts` (the clamped number of
attempts), `Admissible` and `Admitted` (one hit, under the item and character limits), `Checked` and
`Recorded`. It has no variables. A request is a record of the tool, the documents it
resolves to, what it cites, and whether its arguments are well formed: the text of
queries, hashes and dates is left out, and whether a chunk equals the stored copy is the
constant set `Forged`.

**McpSession** is one MCP session and its overlapping calls. A call's control is
`pc[c]`; its actions are the segments between two awaits or two readings of the clock:
`RefuseExpired` or `Receive`, which reads the remaining lifetime; `RefuseUnauthorized` or
`Authorize`, which reads the clock again and sets the deadline;
`Dispatch` (one attempt: reserve, then start the read), `ReadReturns`, `ReadUnavailable`,
`ReadTimesOut`, `CancelCall`, `Admit` (one hit a step, as the loop does), and
`ReturnEvidence`, which builds the reply from the session *as it is then*. `now` counts
ticks up to `MaxNow`; `Tick` is the passing of time and ends the session at
`SessionEnd`; between its two readings a call is delayed by `MaxDelay` ticks at most.

**V2Graph** is one V2 run. An action is a node of the graph, or the part of a node on
one side of an await; `pc` is the node to run next or the await. `session` is the
state inside `execute`, `kept` what the graph has merged of it: a node that raises or is
cancelled loses the difference. `journal` is the last snapshot written and `terminals`
the number of terminal events. The history variables `dispatched`, `lost` and `reported`
are read by properties only. The client is chosen at the start: the offline planner (`StubClient`) is
translated, a live one may propose any member of `Actions`, an invalid action, fail or
hang. The verdict on a draft follows from its citations.

**RunContract** is what a run promises, whatever its graph does inside: it spends tool
and model calls within its budget and gets none back, a draft is approved at most once,
for a tool call and with nothing spent afterwards, and the run ends once, with an answer
only after an approval. `KeepsContract` of V2Graph states its refinement: `Promise` maps
the outcome to the terminal event in the journal, the spending to the counters, the
approval to `verificationOk` and the answer to what the caller gets.

**V1Graph** is one V1 run: one action per node of the compiled graph, the routing
function of its outgoing edge included. `search`, `answerability` and `write` await once
while nothing else touches the state, so an await is a choice among its outcomes. The
pure functions the nodes call are operators: `ResearchReason` (when the loop goes on),
`CanWiden` (the refiner), `Merge` (what a search adds), `Pulls` (cross-references),
`NormalizeEvidence` (which keeps the chunks that came `Via` a search before those pulled by
reference), `Valid` (the judge's decision) and `Verified` (one citation). A text is reduced to what these
functions read: a chunk has a location, a size, content words and references; a draft
has what the citation parser extracts from it, and whether it is empty, blank or prose.
`found`, `broke` and `steps` are history variables. Only the shape of the refiner
matters: it knows one query besides the question, or none. Cross-references are followed
to depth one, the default, and the store is present.

**RunJournal** is the journal of one run with everything that reads or appends to it:
the run, `v2_states` closing it, the SSE stream, the death of the process and the
processes (`Starters`) that start later, also together: `recover_interrupted` takes no
lock. A line is written in two steps, so others can see half of it.

**BudgetLedger** is the spend ledger with overlapping calls, failed rewrites of its
file, deaths and resumes, in a new ledger and in one an earlier version left.

**A2ATask** is one task of the A2A server: the messages sent to it, `execute()` handling
one at a time, the research run, the observer that puts its phases into a queue of
`Capacity` places and forgets those there is no room for, and the drain task that
publishes them. The segments of `execute` between two awaits are actions (`Begin`, `Route`,
`StartRun`, `RunReturns`, `PublishResult`, ...); a cancel request publishes `canceled` at
once and sets `cancelled`, which `execute` meets at the await it is in (`CancelledLeaves`,
`CancelledInFlush`). `events` is everything published.

**StandaloneSweep** is a paid evaluation run: `pc` walks `main` from the checks of
the frozen configuration through the loop over cases to the report, `rows` is the file
predictions are appended to, and `Die` may strike at any place, also within a line and within the
configuration. The spend ledger is reduced to what BudgetLedger proves of it for a
sequential client: attempts are counted before they are sent and outlive the process.

**Chunker** and **Retrieval** are algorithms without state. A page is a sequence of
classified lines; `ChunkDocument` is the whole of `chunk_document`: headings, folding of bare
ones, packing, hard cuts, overlap, merging of short chunks. Retrieval takes scores as
given and models what the arms do with them: filters, over-fetching, the collapse of
windows, fusion, expansion, reranking, coverage of compared contracts. What the code sorts
is the one sequence in that order (`InOrder`), and each filter, cut and round robin says which places
stay. Every caller fuses two lists; a fused score is the exact fraction, not its rounding.

**ClaimSupport** and **Graders** are the evaluation: the citations and claims of
an answer, the judge's verdict on each, the scores of retrieval, answer, decision and
citations. Properties relate graders that different files compute from the same result.

**Corpus** is the corpus on disk through re-ingestions, index builds and deaths;
**LabelReview** the files of a blind review through its commands, reports written again,
edits by hand, corrections of any field of a label and deaths; **Telemetry** the spans of a
journal and the marker that is meant to export it once; **GateAblation** the three arms of an experiment overlapping under a fault schedule;
**ApiServer** the agents an HTTP server builds, degrades to and caches while the indices
under it change.

**Offline** holds the machines and the algorithms in one state space of which every
behaviour uses one part: a *job*, chosen in the first step. A machine's job is its next-state
relation (`KeepCorpus`, `ReviewReports`, `ExportRuns`, `CompareGates`, `ServeRequests`);
grading is one step that picks its `input` (`GradeRetrieval`, `GradeDecision`, `CheckClaims`,
`Ablate`), of which `OfflineAssumption` asks only its form and that a judge who is asked has an
answer or an outage for every claim; a search is one that also puts out what each arm returns
and what each fusion of two arms made of their lists, as deep as they are searched for a
request and for a reranked pool (`SearchCorpus`). `MakeSpans` takes a journal of the form that one V2
run writes (`IsJournal` of Telemetry): an attempt and a call of a model are awaited, so the next
row is their end or the terminal event, and chunks are admitted after an attempt that did not
fail. The parts are
not coupled: none of them reads another's state in the code either, except through files that
one command has finished writing. **MCOffline** adds chunking, about which nothing is
proved (`ChunkPages`), and as jobs of their own the machines of three more modules: a standalone
sweep (`Sweep`), the ledger (`KeepLedger`) and a run of V1 (`RunV1`). A machine starts at any of
its initial states if its job is taken and rests at one otherwise; the first index loads, and
all runs to export begin as those of one agent.

A definition has the name of the function it stands for where TLA+ allows it; the
constants are the configuration of the program (`Budget`, `Settings`, the preflight
file) and the inputs it may get. `MCxxx.tla` gives the small sets, `Xxx.cfg` the numbers.

## Runs

| Run | Question | Bounds | Answer |
| --- | --- | --- | --- |
| `mcp_session` | Do overlapping calls keep the limits, pay for every dispatch, start no attempt too late, quote only admitted evidence and end? | 2 calls of 8 kinds; 3 tool calls, 2 searches, 2 items, 3 characters; 5 chunks, 1 foreign, 1 forged; a timeout of 2 ticks, a session that ends at tick 1, a delay of 1 tick, 2 ticks in all | holds |
| `v2_live` | Does a run with the offline or a live planner keep its budgets, its gate affordable and its contract, stay within its supersteps, cover its dispatches in the journal, end once, and end at all? | 4 tool calls, 2 searches, 4 model calls, 1 repair, 1 item; 7 actions, 3 drafts | holds |
| `v1_unseen` | Is every citation that passes one of evidence the writer was shown? | as V1 in `offline` | no |
| `run_journal` | Is a journal one gapless history that nothing follows but the same recovery, is a done stream complete, and does every stream end, with deaths and later processes? | at most 3 lines before the terminal one; 2 processes, also at once | holds |
| `journal_torn` | Are the runs of dead processes marked at the next start? | as `run_journal` | no |
| `two_recoverers` | Does a journal have one terminal event? | as `run_journal` | no |
| `a2a_task` | One run a task, an outcome that is the run's, progress before it, and an end for every message? | 4 messages, a queue of 2, 4 observed states, 2 clarifications, several documents | holds |
| `a2a_cancel` | Is a canceled task final? | as `a2a_task` | no |
| `offline` | Do V1, the ledger, the sweep, chunking, retrieval, the corpus on disk, grading, the ablation, the review, the API's caches and the export keep their promises? | below | holds |
| `chunk_siblings` | Are enumerated siblings kept apart? | as the chunking of `offline` | no |
| `exported_twice` | Is a run exported once at most? | 2 runs, 2 agents, a script, 3 traces | no |
| `failures_win` | Does no failed V2 run count as a win? | 2 cases, 2 reports, 2 corrections an arm, no judge | no |

Bounds of `offline`: for V1, 4 chunks at 3 locations, 4 budgets with 0 to 4 searches, 2 hits a
search, 3 characters of evidence, 0 or 1 repair, 9 drafts and 5 decisions of the judge; for the
ledger, 4 calls of 3 lengths, 3 attempts, 2 interruptions and 2 older ledgers; for the sweep, 3
cases, 4 attempts, 2 calls a case, 3 starts, 2 configurations and the CLI backend; pages of up to 3 lines of 11 kinds, and two short pages, with
overlaps 0 to 5; 4 chunks and 5 windows with zero-one scores of every pattern; 2 sources
in 2 editions with 2 ingestions and 2 builds; a review of 1 task with 3 reports
and 1 edit; 2 runs, 2 exporting processes, a script and 3 traces; suites of at most 2 tasks,
or 1 with a live model, with a fault on every draft, every second, or none; indices rebuilt up to twice
under a server that starts once; answers, tasks, results and journals from `EvaluationSamples`.

**Why the bounds are enough.** Two calls already race for every shared thing, and the
limits are chosen so that one call uses what the other needs: the last tool call, the
last search, the last evidence slot. Two is also the largest number of attempts of a call. In `v2_live`, four
tool calls are the fewest with which a run can search, be refused, retry, verify, repair
and verify again, and four model calls the fewest for a proposal, a correction, a draft
and a rewrite. For V1 two chunks share a location, one is the subsection of what
another refers to, and the two larger locations do not fit together, so that
deduplication, the order of pulled sections and the character budget all bite, and a
third search is affordable. Three lines before the terminal one let a stream read
none, some or all of a journal at every stage. Three attempts let two ledger calls overlap with a third refused; two
interruptions allow a death during the recovery from a failed rewrite. Every cap is
reached in some state. In `a2a_task` a run shows two states more than the queue holds, so
phases are dropped and the run ends on a full queue; four messages allow two
clarifications, the one that starts the run and one that comes late. Four attempts for
three cases of two calls run out within a case; three starts allow a death, a resumption
with another configuration, and one with the right one. Three lines
hold a heading, its body and a sibling, and the longest body exceeds the budget of a chunk, so
that it is cut; two editions are enough for an index to be newer, older or half of
either. What the proofs cover holds for every value.

**Deadlock** is checked in the runs of McpSession and V2Graph, which stutter explicitly
when they are over, and in `offline`, where V1 does so and every other job may rest: a run of
V1 must reach its end. A journal whose run has ended, a task without messages, and what is left of an
export or a review simply stop.

**Fairness.** Only the program's own next steps are fair: the event loop runs ready
tasks (`OwnStep`, `RunStep`, `StreamStep`, the segments of a call; `ExecuteStep`, `DrainStep`
and the `RunStep` of an A2A task, whose research run is bounded by its own deadline), timers fire
(`DeadlinePasses`, `Tick`, `ReadTimesOut`), a call that was received is authorized or refused,
which awaits nothing, and tools that do not await anything return.
Nobody is obliged to answer, call, leave, die or start: a retriever and a model may hang
forever, and `EveryCallIsAnswered`, `RunTerminates` and `StreamEnds` hold nevertheless. The jobs
of `offline` are checked for safety only, V1 besides for deadlock.

## Proofs

Each theorem holds for every value of the constants under the module's named assumptions:
their types, and what the code fixes (V2 reserves one tool call for its gate, MCP none;
the offline client has a model call; a deadline is positive; an older ledger passed a cap
only by an overrun; a suite names each case once; a process serves finitely many calls).
`OfflineAssumption` says that reviewers write labels, suites hold tasks, the lexical arm loads no index, a
graded text is a sequence, and a judge who is asked answers or fails. The argument is type
correctness first, where it can be proved, then an inductive strengthening. With the exception of
what is listed at the end, every safety property the runs check is proved.

- **ToolPolicyProofs**: lemmas about the shared operators: what reservation,
  admission and recording do to the counters and that they keep `WithinLimits`; and about
  totals of a function over a finite set (`TotalType`, `TotalAdd`, ...), which TLA+ defines by a
  choice: that the chosen function exists (`AddsExists`) is shown from the smallest subset
  without one, and that the order of adding does not matter likewise.
- **McpSessionProofs**: `TypeCorrect`; `CountsWithinLimits`; `RefundsNothing`;
  `ContainersAgree` (the three evidence containers hold the same chunks);
  `DispatchesBounded`, from `DeadlinesFit` (a deadline in use is at most the call timeout after
  the authorization, and later than the session's end by no more than passed between the two
  readings of the clock); `RepliesAreCitable`, from `ReadsAreSound` (hits that wait to be
  admitted are in scope and genuine); `ChunksAreNewOnce` (what calls report as new is
  disjoint and admitted); the last two together are `RepliesExact`. `CapacityKept` adds the sums:
  the tool calls paid are those of the dispatches, and the characters admitted those of the
  evidence, which stay below their limit.
- **V2GraphProofs**: `TypeCorrect`. `GateAffordable` from
  `GateInv`: wherever research goes on a model call is left, and a run with evidence has
  a tool call left; "a run with evidence" is needed because an abstention without any
  spends no verification. `StepsBounded` from `StepInv`: `Rounds` is three supersteps
  per paid tool call or correction, and each place adds a constant; this is why
  `recursion_limit` need not end a run. `JournalCovers` from `JournalInv`.
  `TerminatesOnce` from `TerminalInv`, which ties the number of terminal events to the
  phase of the run. `OutagesAreFailures`, `LostUsageIsUnknown` from `LostInv`.
  `CompletedVerified` from `ApprovalInv`: the verdict is true only at the places after
  `verify`, where the draft no longer changes. `BudgetsKept` is all of the budgets, with the
  characters of the evidence as a total. `ContractKept`: every step is a step of
  RunContract or leaves it alone (`ProgressStep`).
- **V1GraphProofs**: `LoopBounded`, from `LoopInv`, which ties the queries that were asked
  to the place in the loop (`QueriesInv`), and the supersteps and the model calls to the
  place in the run. The two search budgets do not appear in the bound on supersteps: the
  refiner's running out is what stops the loop. `FailuresKept`, from `FailInv`: a run is
  marked failed only on an edge to the `fail` node. `CompletedVerified`, from
  `CompletionInv`: between `verify` and `finalize` neither draft nor chunks change, and the
  judge's verdict holds from `write` on.
  `FindingsReach`, from `FindingsInv`: what was found stays retrieved, each chunk once and by a
  search until references are resolved, the pulled ones then in the order of their sections,
  and whoever asks a model has whole evidence, which is shown of the folds that merge hits and
  fill the evidence by unrolling them over the places they fold (`MergeSteps`, `ShowSteps`, `FoldExists`).
  `TypeCorrect` needs `FindingsInv` too, and that retrieval only grows (`RestTypes`).
- **RunJournalProofs**: `TypeCorrect`, `OneHistory` and `EndsWhole`, for any number of
  processes that start and recover, at once too. Neither of the last two is inductive alone:
  `HistoryInv` says which lines count, end the run, say that again or may be torn (`MarksInv`;
  of a living process the stricter `LinesInv`), what the run and `v2_states` have written at
  each place, and that nobody else writes while the process lives (`RunInv`), that a stream which
  saw the run over has read or will read all of it (`StreamInv`), and that a recovery appends to
  what it read, or what another recovery has said since (`StartInv`).
- **BudgetLedgerProofs**: `TypeCorrect`, `CapsAreKept`, `SendsAreCounted` and
  `StopsAreFinal`, from `LedgerInv`: what was sent is at most what the file counts, the
  file counts at most what memory does, and a ledger that has a breach is marked as
  stopped. `CapsHold` is not inductive without the comparison of the three. `BooksBalance`,
  from `BooksInv`: a resumed ledger is the file and a later file the ledger, so both must
  cover what was reported and estimated, a total over the calls.
- **A2ATaskProofs**: `TypeCorrect`; `OneRun`, from `RunInv`, which says where `execute` and
  the task's status are before, during and after the one run; `OutcomesFollowRuns` and
  `ProgressComesFirst`, from `OutcomeInv`, which ties the outcomes published to the place of
  `execute`, the terminal event and the drain: an outcome is published only once the drain
  has ended, and a drain never starts again. They hold for every capacity of the queue,
  number of messages and length of a run.
- **OfflineProofs**, the sweep: `ExecutesOnce`, from `SweepInv`: what the rows execute is what
  the process found executed at its start, or a case it has passed since. That needs the
  suite to name each case once, and a configuration that is not yet frozen, or was cut by
  a death, to have no rows. `ReportsComplete`, from `ReachInv` (all cases passed have been
  executed unless the process was stopped) and `Told` (what a report says of the rows there
  were, which no later row changes); `TypeCorrect`.
- **OfflineProofs**, the machines of Offline. A step of one machine leaves the others alone
  (`OfflineStep`), so each has an invariant of its own:
  `LoadedIsCurrent`, from `CorpusInv`: the chunks on disk and those a process is about to write
  are of sources the manifest names, and vectors are those of the fingerprint beside them
  unless a build was torn between the two (`tornBuild`, which the theorem excepts);
  `LabelsAreReviews` and `OutcomesFirst`, from `ReviewInv`: labels, frozen
  labels, keys, blind and bound sheets, whatever a command still has to write, and verdicts are of
  the reports they name;
  `SecondTraceExplained`, from `ExportInv`: of the processes between their check and their marker
  of a run, and of the traces left `unmarked`, those that were alone are told from those that
  raced, and no two of the first kind are behind the check;
  `AblationFair`, from `GateInv`: the k-th draft of a task is that of the schedule, and what an
  arm recorded follows from its drafts;
  `AnsweredAsAsked`, from `ServerInv`: every cached agent is of the arm and mode of its key.
  `LabelsAreReviews` speaks of the frozen labels: what corrections may make of them is the
  run `failures_win`.
- **OfflineProofs**, the graders: `GradersAgree` holds of any task, result and cut-off, and not
  only of the samples: scores of a growing set of hits grow (`ScoreMonotone`), a text that
  does not begin with an omission begins with a fragment (`FirstFragment`), so that a span whose
  fragments are all found is found by its probe unless an omission marker falls within that, and the
  first rank of a document is the least number of a set (`LeastOf`).
- **OfflineProofs**, support: `SupportEvidenced` holds of any answer, evidence, judge and audit.
  Claims are read by two nested folds over lines and sentences, which are unrolled into a run of
  states (`FoldExists`, `LineRuns`, `AnswerRuns`); the invariant of the run is `ReadUpTo`: each
  claim read so far carries what exactly the sentences for it cite (`Carries`), where the claims
  are numbered by counting and not by reading. It goes through a sentence that is a claim
  (`ReadClaim`), one that is not (`ReadCiting`) and the start of a line (`ReadStarts`), and needs
  what deduplication and flattening keep (`UniqueIs`, `AtPlaces`, `Flattened`). The same unrolling
  of the judge's calls (`CheckRuns`) says that the verdict on a claim takes a reply no later
  than its own number, hence one that exists; the rest is counting: an answer passes only if as
  many claims are supported as there are (`PassedIs`), no rate exceeds one (`AuditIs`,
  `CoverageIs`), and every claim is of sentences the audit has seen (`EveryClaim`).
- **OfflineProofs**, retrieval: `SearchAgrees` and `SearchCovers` hold of any corpus, scores,
  filters and constants. What is sorted is listed completely and once, for a strict total order
  counts what is before each member (`InOrderIs`); so each arm finds distinct chunks of its scope
  and `top_k` at most (`IsFound`), and what takes such lists gives one: the two dense cut-offs
  (`DenseFinds`, `WindowedIs`), fusion (`FusedOrderIs`), the round robin (`RoundRobinIs`), reranking
  (`RerankedIs`) and the selection (`SelectIs`). Comparing fractions across their denominators is an
  order (`HigherOrders`), and two ranks outweigh one if neither is beyond `RrfK + 1`
  (`TwoRanksWin`) or one of them is no lower than it: that such a chunk comes first is proved of
  every fusion of the lexical and a dense arm, as deep as they are searched (`ArmsAgree`).
  The best of a compared
  contract is in the pool because only the best of others come before it (`RoundRobinIs`), stays
  in it when it is reranked, and its place, or an earlier one of its contract, is reserved since
  no more places are reserved than contracts are named (`LeadsAre`, `LeastIs`).
- **OfflineProofs**, spans: `SpansAgree` holds of any journal of that form, cut off anywhere by its
  terminal event. The row after a started call closes its span (`CallsCloseNext`), so no call
  begins within another; and back over the admissions before it (`LeastOf`), a chunk's admission
  comes to the completed attempt it follows (`AdmissionsFollow`), which is the one it is recorded
  on (`AdmittedOnIt`).

**Only model-checked.** Liveness: `EveryCallIsAnswered`, `RunTerminates`, `StreamEnds`,
`EveryExecutionSettles`. And two properties of `offline`, of the chunker: `ChunksKeepText` and
`ChunksKeepSections`. What it packs and folds depends on pages of any length through folds
within folds and `SelectSeq`; a fold can be unrolled, which is not done here, and `SelectSeq`
means nothing to the provers. The type
invariants are proved and not repeated in the runs.

## Where code and documents disagree

1. `v1_unseen`: V1's verifier grounds citations on everything retrieved
   (`app/agent/graph.py:386`), also on the chunks that did not fit into the evidence the
   writer was shown, which its docstring calls what the agent actually saw.
2. `journal_torn`: a death within a line leaves a journal on which
   `recover_interrupted` raises (`events.py:138`), at this and every later start.
3. `a2a_cancel`: a task canceled while the last progress is flushed goes on, because
   `finish_drain` suppresses the cancellation of `execute` together with that of the drain
   (`app/a2a/executor.py:281`): its artifact and a second terminal status follow `canceled`,
   though the same function's comment calls a terminal state final.
4. `chunk_siblings`: a marker (b) after (a) is read as a descendant of (a)
   (`app/ingestion/chunker.py:217`), so the siblings whose merging
   `_fold_bare_headings` rules out (`:277`) become one chunk under the path of the last.
5. `two_recoverers`: `recover_interrupted` takes no lock between its check of a dead run and
   the event it appends (`events.py:130-146`): two processes that start together both append
   one, where `docs/v2_design.md:80` says there is exactly one terminal event. The second repeats the first,
   with its sequence.
6. `exported_twice`: `export` checks the marker before it emits and writes it after
   (`telemetry.py:70-78`): two exporters of a run both pass, and a process that dies between
   leaves a run to be exported again, although `scripts/export_run_telemetry.py:4` says each
   run is exported at most once, and `docs/decisions.md:180` calls the export idempotent.
7. `failures_win`: `apply_adjudications` accepts a correction of any field, also of `task_id`
   (`evals/v2_labels.py:177-191`). Two corrections that swap two cases, or several that change
   outcome, failure and success in turn, make a failed V2 run a win in the comparison
   (`evals/paired.py:182-186` asks only that the cases are covered), although
   `docs/evaluation_protocol.md:112` says execution failures cannot be labelled successes.

### Observations

What modelling showed, without a run of its own. None of it is part of a property that holds
above; where a property excludes the case, its comment says so.

- V2: when the writer's model call fails, nothing sets `stop_reason` (`v2.py:449`), although
  `docs/v2_design.md:76` lists a reason for every stop. Lines are split with `splitlines`, which
  also cuts at U+2028, U+2029 and U+0085 (`events.py:50`), which the journal's model leaves out.
  A response without usage is read as zero
  tokens (`llm.py:293`); `reserved_cost` is a float that is added to and taken from
  (`budget.py:223`).
- MCP: the remaining lifetime is read before a call is authorized (`mcp_server.py:264`) and counts
  from a clock read after it (`:296`), so an attempt can start after the session's end by what
  passed between, although `docs/V2_EXTENSION_AND_EVALUATION_PLAN.md:153` bounds a call by the
  remaining lifetime. `DispatchesAreBounded` states the bound with that delay.
- Chunking: packing counts one character for a joiner that is two, so a packed part can
  exceed the budget; an overlap above the maximum makes the step of the hard cut
  negative, and the settings allow it (`config.py:129`).
- Corpus: a plain dense index loads when its count and ids fit, also if the texts under
  those ids changed, though `scripts/build_index.py:3` says a stale one is refused. A build
  that died between vectors and metadata can leave an index that passes once the
  corpus is as it was (`tornBuild`). A store cut while it was written loads silently.
- Fusion: `fusion.py:35-38` wants a chunk both arms agree on before one that a single arm ranks
  first. With `k` = 60 that is so down to rank 61 in both; a reranked pool is fused from lists of
  160 (`rerank.py:119`, `fusion.py:136`), where a chunk deep in both can come after a first of
  one. `AgreementWins` says when it does not.
- Retrieval and the API: a later note about a degraded model overwrites the one about the arm
  (`api/main.py:49`); `POST /research` uses the agent of the start, whatever was
  built since; an agent built for another mode records the hash of the index now on
  disk, not of the one its retriever loaded. Reranked arms never recognise the
  agent of the start as theirs. Progress frames carry ids only from the first V2 event on.
  A valid citation may have no excerpt on the page.
- Grading: an outage of the judge takes its claim out of the score, and so raises it, where
  `claim_support.py:396` says it lowers it. A failed run without an answer
  scores 1.0 on abstention, forbidden claims, claim support and coverage, and one that failed with
  verified citations (`v2.py:420`) passes every grader of answers. A probe that runs into an
  omission marker misses a span whose fragments were all found (`evals/graders/retrieval.py:132`).
- The gate ablation: the ungated arm abstains on drafts without a parseable citation,
  although its verifier approves everything (`graph.py:526`); the exposure metric counts
  drafts that were never delivered; repairs can cost abstention on questions without an answer;
  a fault on every draft is never repaired.
- Telemetry: a run counts as exported when its spans were dropped. A torn marker or
  journal stops the script at that run, and every later one with it.
- Label review: a `sheet` that dies after it bound its source makes every later sheet fail; an
  `unblind` that dies between its two files refuses for ever; a judge that dies before
  its first row leaves a file neither a start nor `--resume` accepts.

## Assumptions and limits

- The pid of a dead process is not reused and the disk does not fail under the journal,
  the two limits `docs/v2_design.md` states. The ledger's disk may fail.
- Prices of the ledger are whole numbers, floats in the code.
- An overrun whose settling rewrite fails and whose process then dies is in no file; the
  resumed run cannot stop at it. `StoppedStaysStopped` is about what the ledger in
  memory knows, which after a resume is what the file says.
- V1's `Raise` stands for cancellation and for exceptions its nodes do not handle, which
  leave the run without a result. A draft that is the empty text passes and completes the
  run: `CompletedIsVerified` says so.
- In V2Graph several events of one step appear as the last: their snapshots have the
  same counters. `summary.json` is not a step of it.
- In A2ATask a V2 run ends, which `RunTerminates` shows of V2Graph. An artifact and its
  status are two publications, as in the code; the SDK stores them in order.
- In StandaloneSweep the ledger is BudgetLedger's promise, not the module.
- In the offline jobs reading a file is atomic, commands run one after the other, and a
  report is written whole; telemetry's processes do interleave. Floating scores are exact.
- Bounds in the guards, all named constants: `MaxNow`, `MaxDelay`, `MaxHits`, `MaxLines`,
  `MaxInterrupts`, `MaxMessages`, `MaxObserved`, `MaxStarts`, `MaxCalls`, `MaxEditions`,
  `MaxIngests`, `MaxBuilds`, `MaxReports`, `MaxEdits`, `MaxRounds`, `MaxTraces`, `LiveTasks`,
  `MaxIndexes`.

## Not modelled

- Dataset importers, task builders, demos, summaries, request schemas, static pages, configuration:
  straight-line conversions, declarations and output without state between steps.
- External code, represented by what the code sees of it: LangGraph, the MCP and A2A SDKs,
  OpenTelemetry, FAISS, model providers, embeddings and cross-encoders (their scores are
  inputs), PDF extraction and the regular expressions of headings and citations (their
  matches are inputs).
- Bootstrap intervals, dataset splits, and the experiments that run independent cases through
  modelled components and average the results.
- `summary.json`: a failure to write it after the terminal event turns a completed run into
  a failed result while the journal says completed (`v2.py:420`); nothing modelled reads it.

## Plan

Done, in this order: ToolPolicy, McpSession, V2Graph with RunContract, their proofs,
RunJournal, BudgetLedger and its proofs, V1Graph and its proofs, StandaloneSweep, A2ATask,
their proofs, Chunker, Retrieval, Corpus, LabelReview, ClaimSupport, Graders, Telemetry,
GateAblation, ApiServer, Offline; the sums of ToolPolicyProofs; the proofs of RunJournal, of
StandaloneSweep, of what V1 shows its models, and of Offline. Next, most important first:

1. `summary.json` as a step of V2Graph and RunJournal; MCP resources; the V1 stream.
2. Telemetry joined with RunJournal over one journal, which `IsJournal` only describes;
   StandaloneSweep with BudgetLedger.
3. Cross-references deeper than one; what a client makes of a provider's reply.
