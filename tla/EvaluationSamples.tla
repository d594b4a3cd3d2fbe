------------------------- MODULE EvaluationSamples -------------------------
(***************************************************************************)
(* What the graders and the exporter are given: answers with their         *)
(* evidence and judge, tasks with their results, and journals of V2 runs.  *)
(***************************************************************************)
EXTENDS Integers, Sequences, FiniteSets, SequencesExt

UpTo(n, S) == UNION {[1 .. k -> S] : k \in 0 .. n}

-----------------------------------------------------------------------------
\* Claims that cite nothing, one place, a list, a list that does not parse,
\* or say [sic]; citations alone: in two spellings, garbled, or of no evidence.
Locator(place, spelling) == [kind |-> "locator", place |-> place, spelling |-> spelling]
Other(kind) == [kind |-> kind, place |-> 0, spelling |-> kind]
X == Locator(1, "X")
Y == Locator(2, "Y")

Claim(spans) == [factual |-> TRUE, spans |-> spans]
Citing(part) == [factual |-> FALSE, spans |-> <<<<part>>>>]
Sentences ==
    {Claim(<<>>), Claim(<<<<X>>>>), Claim(<<<<X, Y>>>>), Claim(<<<<X, Other("garbled")>>>>),
     Claim(<<<<Other("aside")>>>>), Citing(Y), Citing(Locator(2, "y")),
     Citing(Other("garbled")), Citing(Locator(3, "Z"))}
PlainSentences == {Claim(<<<<X>>>>), Claim(<<<<X, Other("garbled")>>>>), Citing(Y), Claim(<<>>)}

SomeAnswers == {<<l>> : l \in UpTo(3, Sentences)}
               \cup {<<l, m>> : l \in UpTo(1, Sentences), m \in UpTo(2, PlainSentences)}

Excerpt(id, place, phrases) == [id |-> id, place |-> place, phrases |-> phrases]
SomeEvidence == {<<Excerpt("e1", 1, {"p"})>>, <<Excerpt("e1", 1, {"p"}), Excerpt("e2", 2, {"q"})>>,
                 <<Excerpt("e1", 1, {"p"}), Excerpt("e2", 1, {"q"}), Excerpt("e3", 3, {"q"})>>}

Reply(kind, quote, indices) == [kind |-> kind, quote |-> quote, indices |-> indices]
Judges ==
    {[live |-> l, ceiling |-> c, replies |-> r] : l \in {TRUE}, c \in {-1, 1},
       r \in {[n \in 1 .. 3 |-> Reply(k, q, <<1, 0>>)] :
                k \in {"supported", "contradicted", "outage"}, q \in {"p", "q"}}
             \cup {<<Reply("supported", "q", <<0, 0, 1>>), Reply("outage", "none", <<0, 1>>),
                     Reply("supported", "p", <<2, 0>>)>>}}
    \cup {[live |-> FALSE, ceiling |-> -1, replies |-> <<>>]}

-----------------------------------------------------------------------------
\* Retrieved chunks and spans over two pieces of text, in two documents: with
\* an omission before the probe, in it, after it, or none.
FoundChunks == [doc : {"A", "B"}, text : {<<1>>, <<2>>, <<1, 2>>, <<2, 1>>}]
Texts == {<<1>>, <<1, 2>>, <<1, 0, 2>>, <<1, 2, 0, 2>>, <<2, 1, 2>>, <<0, 2>>, <<0>>}
SpanSets == {S \in SUBSET ([doc : {"A"}, text : Texts] \cup [doc : {"B"}, text : {<<1, 2>>}]) :
               Cardinality(S) <= 2}

RankedTasks == [documents : {{}, {"A"}, {"A", "B"}}, spans : SpanSets]
RankedResults == {[retrieved |-> r] : r \in UpTo(2, FoundChunks)}

\* A run that failed, was cancelled or abstained may have a text, and keeps
\* the citations or the errors of a draft that was verified before.
DecidedTasks == [behavior : {"answer", "abstain"}, required : SUBSET {"point"},
                 forbidden : SUBSET {"claim"}]
DecidedResults ==
    {[status |-> s, answer |-> a, says |-> d, citations |-> c, errors |-> e] :
       s \in {"failed", "cancelled", "abstained"}, a \in {<<>>, <<<<Claim(<<>>)>>>>},
       d \in SUBSET {"point", "claim"}, c \in {<<>>, <<"X">>}, e \in SUBSET {"Y"}}
    \cup {[status |-> "completed", answer |-> <<<<a>>>>, says |-> d, citations |-> c,
           errors |-> e] :
            a \in Sentences, d \in SUBSET {"point", "claim"}, c \in {<<>>, <<"X">>, <<"X", "Y">>},
            e \in SUBSET {"Y", "Z"}}

AblatedAnswers ==
    {[ungated |-> <<u>>, gated |-> <<g>>, delivered |-> d, grounds |-> p] :
       u \in UpTo(2, Sentences), g \in UpTo(2, PlainSentences), d \in BOOLEAN,
       p \in {{1}, {1, 2}}}

-----------------------------------------------------------------------------
\* Suites of one or two tasks: nothing is found, the honest draft is good or bad, the
\* fault is one or happens to be right, the question has an answer or none.
SuiteTask(evidence, honest, fault, behavior) ==
    [evidence |-> evidence, honest |-> honest, fault |-> fault, behavior |-> behavior]
SuiteTasks ==
    {SuiteTask(FALSE, "good", "bad", "answer"), SuiteTask(TRUE, "bad", "bad", "answer"),
     SuiteTask(TRUE, "good", "bad", "answer"), SuiteTask(TRUE, "good", "bad", "abstain"),
     SuiteTask(TRUE, "bad", "good", "answer")}
SomeSuites == [1 .. 2 -> SuiteTasks] \cup [1 .. 1 -> SuiteTasks]

-----------------------------------------------------------------------------
\* Journals: decisions of a planner or none, calls that succeed, are retried
\* or fail, a draft and its repair, ended anywhere.
EventRow(event, node, call) == [event |-> event, node |-> node, call |-> call, ok |-> FALSE]

NodeDone(node) == EventRow("node_completed", node, 0)
Planned == <<EventRow("model_started", "decide", 0), NodeDone("decide"), NodeDone("authorize")>>
Attempt(outcome, call) ==
    <<EventRow("tool_started", "execute", call), EventRow(outcome, "execute", call)>>

Found == <<EventRow("evidence_added", "execute", 0)>>

Research(call) ==
    {Planned \o Attempt("tool_completed", call) \o Found \o Found \o <<NodeDone("execute")>>,
     Tail(Planned) \o Attempt("tool_failed", call) \o Attempt("tool_completed", call + 1)
       \o Found \o <<NodeDone("execute")>>,
     Planned \o Attempt("tool_failed", call) \o Attempt("tool_failed", call + 1)
       \o <<NodeDone("execute")>>}

Written(ok) ==
    <<EventRow("model_started", "write", 0), EventRow("draft_created", "write", 0),
      [EventRow("verification_completed", "verify", 0) EXCEPT !.ok = ok], NodeDone("verify")>>
Repaired(ok) == <<EventRow("repair_started", "repair", 0), NodeDone("repair")>> \o Written(ok)

Complete ==
    {<<EventRow("run_started", "initialize", 0), NodeDone("initialize")>> \o a \o b
       \o Planned \o w :
       a \in Research(1), b \in Research(3) \cup {<<>>},
       w \in {Written(TRUE)} \cup {Written(FALSE) \o Repaired(ok) : ok \in BOOLEAN}}

SomeJournals ==
    {Append(SubSeq(rows, 1, n), EventRow(end, "terminal", 0)) :
       <<rows, n, end>> \in {<<r, k, e>> \in Complete \X (1 .. 40) \X
                               {"run_completed", "run_failed", "run_cancelled"} :
                             IF e = "run_completed" THEN k = Len(r) ELSE k <= Len(r)}}

===============================================================================
