------------------------------ MODULE Telemetry ------------------------------
(***************************************************************************)
(* The export of V2 runs as traces: app/observability/telemetry.py and     *)
(* scripts/export_run_telemetry.py.                                        *)
(*                                                                         *)
(* A journal becomes a tree of spans (Spans).  A run is exported by the    *)
(* process that writes its terminal event, and by scripts for any run; a   *)
(* marker beside the journal says that it was.  The spans go into a queue  *)
(* of the process, from where they reach the backend, are dropped, or die  *)
(* with the process (external: the OpenTelemetry SDK).                     *)
(***************************************************************************)
EXTENDS Integers, Sequences, FiniteSets, SequencesExt, FiniteSetsExt

CONSTANTS
    Runs,
    None,
    Agents,      \* processes that run V2; each ends runs
    Scripts,     \* runs of export_run_telemetry
    MaxTraces    \* bound on the traces emitted

VARIABLES
    live,        \* the agent each open run is in, None once it has ended
    torn,        \* runs whose journal has a torn last line
    marker,      \* telemetry.json of each run: None, Cut or its trace
    doing,       \* what each process exports, and how far it is
    queue,       \* traces a process has not sent yet
    backend,     \* traces that arrived
    up,          \* processes that run
    emitted,     \* every trace emitted, in order: its run, and whether another
                 \* process was exporting the run when its own checked the marker
    unmarked     \* traces whose process died before it opened the marker

vars == <<live, torn, marker, doing, queue, backend, up, emitted, unmarked>>
runVars == <<live, torn>>
outVars == <<queue, backend, emitted>>

Processes == Agents \cup Scripts
Cut == 0         \* a marker opened and not written; traces are counted from 1
Idle == [run |-> None, step |-> "idle"]
Export(r, step) == [run |-> r, step |-> step]

-----------------------------------------------------------------------------
(***************************************************************************)
(* The spans of a journal.  A row tells its event, its node and the call   *)
(* it is about; its place in the journal is its time.                      *)
(***************************************************************************)

TERMINAL == {"run_completed", "run_abstained", "run_failed", "run_cancelled"}

Rows(rows, event) == {i \in DOMAIN rows : rows[i].event = event}

\* What one run writes, row by row: each attempt and each call of a model is
\* awaited, so the next row is its end or that of the run; chunks are admitted
\* after an attempt that was not an error.
IsJournal(rows) ==
    /\ rows \in Seq([event: STRING, node: STRING, call: Nat, ok: BOOLEAN]) /\ rows # <<>>
    /\ rows[1].event \in {"run_started"} \cup TERMINAL
    /\ \A i \in DOMAIN rows : rows[i].event \in TERMINAL <=> i = Len(rows)
    /\ \A i \in 2 .. Len(rows) - 1 :
         LET last == rows[i - 1]
         IN  /\ last.event = "model_started" => rows[i].node = last.node
             /\ last.event = "tool_started" <=> rows[i].event \in {"tool_completed", "tool_failed"}
             /\ last.event = "tool_started" => rows[i].call = last.call
             /\ rows[i].event = "evidence_added"
                  => last.event \in {"tool_completed", "evidence_added"}

\* The first later row that closes the span, or the terminal event.
NextRow(rows, index, closing) ==
    Min({Len(rows)} \cup {i \in index + 1 .. Len(rows) :
                            rows[i].event \in TERMINAL \/ i \in closing})

Span(kind, from, to, failed) == [kind |-> kind, from |-> from, to |-> to, failed |-> failed]

Failed(row) == row.event = "run_failed"

ModelSpan(rows, i) ==
    LET end == NextRow(rows, i, {j \in DOMAIN rows : rows[j].node = rows[i].node})
    IN  Span("chat", i, end, Failed(rows[end]))

\* Mutant: only success closes a call.
ToolSpanUntilCompleted(rows, i) ==
    LET end == NextRow(rows, i, {j \in Rows(rows, "tool_completed") : rows[j].call = rows[i].call})
    IN  Span("tool", i, end, rows[end].event # "tool_completed")

ToolSpan(rows, i) ==
    LET closing == {j \in Rows(rows, "tool_completed") \cup Rows(rows, "tool_failed") :
                      rows[j].call = rows[i].call}
        end == NextRow(rows, i, closing)
    IN  Span("tool", i, end, rows[end].event # "tool_completed")

VerifySpan(rows, i) == Span("verify", Max({1, i - 1}), i, ~ rows[i].ok)

\* _emit, below the root span.
Spans(rows) ==
    {ModelSpan(rows, i) : i \in Rows(rows, "model_started")}
    \cup {ToolSpan(rows, i) : i \in Rows(rows, "tool_started")}
    \cup {VerifySpan(rows, i) : i \in Rows(rows, "verification_completed")}

\* The call an admission is recorded on, if there was one.
AdmittedOn(rows, i) ==
    {Max({0} \cup {j \in Rows(rows, "tool_started") : j < i})} \ {0}

-----------------------------------------------------------------------------
(***************************************************************************)
(* Exporting.                                                              *)
(***************************************************************************)

Init ==
    /\ live \in [Runs -> Agents] /\ torn = {}
    /\ marker = [r \in Runs |-> None]
    /\ doing = [p \in Processes |-> Idle]
    /\ queue = [p \in Processes |-> {}] /\ backend = {}
    /\ up = Processes
    /\ emitted = <<>> /\ unmarked = {}

\* emit writes a terminal event, and the hook exports the run before anything
\* else happens in the agent.
EndRun(p, r) ==
    /\ p \in up /\ doing[p] = Idle
    /\ live[r] = p
    /\ live' = [live EXCEPT ![r] = None]
    /\ doing' = [doing EXCEPT ![p] = Export(r, "check")]
    /\ UNCHANGED <<torn, marker, outVars, up, unmarked>>

\* recover_interrupted of a starting agent ends the run of a dead one.
RecoverRun(p, r) ==
    /\ p \in up \cap Agents /\ doing[p] = Idle
    /\ live[r] \in Agents \ up /\ r \notin torn
    /\ live' = [live EXCEPT ![r] = None]
    /\ doing' = [doing EXCEPT ![p] = Export(r, "check")]
    /\ UNCHANGED <<torn, marker, outVars, up, unmarked>>

StartScript(p, r) ==
    /\ p \in up \cap Scripts /\ doing[p] = Idle
    /\ doing' = [doing EXCEPT ![p] = Export(r, "check")]
    /\ UNCHANGED <<runVars, marker, outVars, up, unmarked>>

Exporting(r) == {p \in up : doing[p].run = r /\ doing[p].step \in {"emit", "mark"}}

Emit(r) == [run |-> r, step |-> "emit", raced |-> Exporting(r) # {}]

\* A script reads the marker it found, and fails on one that was cut.
Fails(p, r) == p \in Scripts /\ marker[r] = Cut

\* Mutant: a marker counts once it names its trace.
CheckMarkerWritten(p) ==
    LET r == doing[p].run
    IN  /\ p \in up /\ doing[p].step = "check"
        /\ doing' = [doing EXCEPT ![p] = IF marker[r] \in {None, Cut} THEN Emit(r) ELSE Idle]
        /\ UNCHANGED <<runVars, marker, outVars, up, unmarked>>

CheckMarker(p) ==
    LET r == doing[p].run
    IN  /\ p \in up /\ doing[p].step = "check"
        /\ IF marker[r] = None
           THEN doing' = [doing EXCEPT ![p] = Emit(r)] /\ UNCHANGED up
           ELSE /\ doing' = [doing EXCEPT ![p] = Idle]
                /\ up' = IF Fails(p, r) THEN up \ {p} ELSE up
        /\ UNCHANGED <<runVars, marker, outVars, unmarked>>

\* A torn line raises: the hook swallows it, the script ends.
SkipRun(p) ==
    LET r == doing[p].run
    IN  /\ p \in up /\ doing[p].step = "emit"
        /\ live[r] # None \/ r \in torn
        /\ doing' = [doing EXCEPT ![p] = Idle]
        /\ up' = IF r \in torn /\ p \in Scripts THEN up \ {p} ELSE up
        /\ UNCHANGED <<runVars, marker, outVars, unmarked>>

EmitSpans(p) ==
    LET r == doing[p].run
        trace == Len(emitted) + 1
    IN  /\ p \in up /\ doing[p].step = "emit"
        /\ live[r] = None /\ r \notin torn
        /\ trace <= MaxTraces
        /\ emitted' = Append(emitted, [run |-> r, raced |-> doing[p].raced])
        /\ queue' = [queue EXCEPT ![p] = @ \cup {trace}]
        /\ doing' = [doing EXCEPT ![p] = [run |-> r, step |-> "mark", trace |-> trace]]
        /\ UNCHANGED <<runVars, marker, backend, up, unmarked>>

\* write_text truncates the file it opens, then writes.
OpenMarker(p) ==
    /\ p \in up /\ doing[p].step = "mark"
    /\ marker' = [marker EXCEPT ![doing[p].run] = Cut]
    /\ doing' = [doing EXCEPT ![p].step = "write"]
    /\ UNCHANGED <<runVars, outVars, up, unmarked>>

WriteMarker(p) ==
    /\ p \in up /\ doing[p].step = "write"
    /\ marker' = [marker EXCEPT ![doing[p].run] = doing[p].trace]
    /\ doing' = [doing EXCEPT ![p] = Idle]
    /\ UNCHANGED <<runVars, outVars, up, unmarked>>

\* The batch processor sends what is queued; a slow backend drops it.
Send(p) ==
    /\ p \in up /\ queue[p] # {}
    /\ queue' = [queue EXCEPT ![p] = {}]
    /\ backend' \in {backend, backend \cup queue[p]}
    /\ UNCHANGED <<runVars, marker, doing, up, emitted, unmarked>>

\* A process dies; an agent perhaps in the middle of a line.
Die(p) ==
    /\ p \in up
    /\ up' = up \ {p}
    /\ doing' = [doing EXCEPT ![p] = Idle]
    /\ queue' = [queue EXCEPT ![p] = {}]
    /\ unmarked' = IF doing[p].step = "mark" THEN unmarked \cup {doing[p].trace} ELSE unmarked
    /\ torn' \in {torn} \cup {torn \cup {r} : r \in {q \in Runs : live[q] = p}}
    /\ UNCHANGED <<live, marker, backend, emitted>>

Next ==
    \/ \E p \in Processes : \/ CheckMarker(p) \/ SkipRun(p) \/ EmitSpans(p)
                            \/ OpenMarker(p) \/ WriteMarker(p) \/ Send(p) \/ Die(p)
    \/ \E p \in Processes, r \in Runs : EndRun(p, r) \/ RecoverRun(p, r) \/ StartScript(p, r)

Spec == Init /\ [][Next]_vars

-----------------------------------------------------------------------------
(***************************************************************************)
(* Properties.                                                             *)
(***************************************************************************)

TracesOf(r) == {t \in DOMAIN emitted : emitted[t].run = r}

\* A run has a second trace only where one process checked the marker while
\* another was between its check and its marker (export takes no lock), or where
\* the process of the earlier trace died before it opened the marker; and the
\* marker is of a trace of the run, and there once an exporter got to it.
ExportsRaceOrDie ==
    \A r \in Runs :
      /\ \A t, u \in TracesOf(r) :
           t < u => emitted[t].raced \/ emitted[u].raced \/ t \in unmarked
      /\ marker[r] \in {None, Cut} \cup TracesOf(r)
      /\ TracesOf(r) \ unmarked # {} /\ Exporting(r) = {} => marker[r] # None

\* "Each run is exported at most once" (export_run_telemetry.py:4-5), seen from
\* the backend.
ExportedAtMostOnce == \A r \in Runs : Cardinality(TracesOf(r) \cap backend) <= 1

\* The spans of a journal are its calls, one after the other: each started
\* one is closed by its own end or the run's, none begins within another, and
\* what a call found is recorded on that call, which has ended (_emit).
SpansAreTheCalls(rows) ==
    LET calls == {s \in Spans(rows) : s.kind # "verify"}
        Started == Rows(rows, "model_started") \cup Rows(rows, "tool_started")
    IN  /\ {s.from : s \in calls} = Started
        /\ \A s \in Spans(rows) : s.from < s.to
        /\ \A s \in calls : \A i \in s.from + 1 .. s.to - 1 : i \notin Started
        /\ \A s \in calls : s.kind = "tool" /\ ~ s.failed => rows[s.to].call = rows[s.from].call
        /\ \A i \in Rows(rows, "evidence_added") :
             /\ AdmittedOn(rows, i) # {}
             /\ \A s \in calls : s.from \in AdmittedOn(rows, i) => s.to < i /\ ~ s.failed

===============================================================================
