------------------------------ MODULE RunJournal ------------------------------
(***************************************************************************)
(* The journal of one V2 run, events.jsonl, and everything that appends to *)
(* it or reads it: the run itself, v2_states closing it, the SSE stream    *)
(* that tails it from the same process, the death of that process, and the *)
(* processes that start later and mark the runs of dead ones failed.       *)
(*                                                                         *)
(* A line is appended in two steps, because a snapshot is larger than the  *)
(* write buffer: other readers see, and a death leaves behind, a line that *)
(* is not whole.  The same holds of manifest.json.  The pid of a dead      *)
(* process is not given to a new one and disks do not fail, the two limits *)
(* docs/v2_design.md states.                                               *)
(***************************************************************************)
EXTENDS Naturals, Sequences, FiniteSets, FiniteSetsExt

CONSTANTS
    Starters,        \* processes that start while or after the run
    MaxLines         \* bound on the lines the graph writes

ASSUME JournalAssumption == MaxLines \in Nat \ {0}

VARIABLES
    manifest,   \* manifest.json: absent, torn or whole
    journal,    \* lines of events.jsonl
    alive,      \* the run's process exists
    run,        \* where the run is
    sequence,   \* its state's last_event_sequence
    result,     \* how v2_states ended
    stream,     \* where the SSE stream is
    finished,   \* its sample of task.done()
    view,       \* whole lines its last read found
    delivered,  \* events it has sent
    startup,    \* where each starting process is
    found,      \* sequence of the last event it read
    sawDead     \* whether it found the run's process gone

runVars == <<run, sequence, result>>
streamVars == <<stream, finished, view, delivered>>
startVars == <<startup, found, sawDead>>
vars == <<manifest, journal, alive, runVars, streamVars, startVars>>

GraphOutcomes == {"run_completed", "run_abstained", "run_failed"}
TerminalEvents == GraphOutcomes \cup {"run_cancelled"}
Events == {"run_started", "node_completed"} \cup TerminalEvents
Line == [sequence: Nat, event: Events, whole: BOOLEAN]

RunStates == {"start", "manifest", "graph", "emit", "close", "closeEmit",
              "over"}
StreamStates == {"sample", "read", "publish", "finish", "done", "error",
                 "left"}
StartStates == {"off", "scan", "read", "append", "emit", "up", "failed",
                "gone"}

Init ==
    /\ manifest = "absent"
    /\ journal = <<>>
    /\ alive = TRUE
    /\ run = "start"
    /\ sequence = 0
    /\ result = "none"
    /\ stream = "sample"
    /\ finished = FALSE
    /\ view = 0
    /\ delivered = 0
    /\ startup = [s \in Starters |-> "off"]
    /\ found = [s \in Starters |-> 0]
    /\ sawDead = [s \in Starters |-> FALSE]

-------------------------------------------------------------------------------
(* emit: the first and the last write of one line. *)
BeginLine(n, event) ==
    journal' = Append(journal, [sequence |-> n, event |-> event,
                                whole |-> FALSE])

\* The line being written is the last whose writer has not finished it.
FinishLine(n) ==
    journal' = [i \in DOMAIN journal |->
                   IF i = n THEN [journal[i] EXCEPT !.whole = TRUE]
                   ELSE journal[i]]

Last == journal[Len(journal)]
IsTerminal(line) == line.event \in TerminalEvents

(* json.loads of one of the lines splitlines returns. *)
Parses(line) == line.whole

-------------------------------------------------------------------------------
(* The run *)

BeginManifest ==
    /\ alive /\ run = "start"
    /\ run' = "manifest"
    /\ manifest' = "torn"
    /\ UNCHANGED <<journal, alive, sequence, result, streamVars, startVars>>

FinishManifest ==
    /\ alive /\ run = "manifest"
    /\ run' = "graph"
    /\ manifest' = "whole"
    /\ UNCHANGED <<journal, alive, sequence, result, streamVars, startVars>>

GraphEvent(event) ==
    /\ sequence' = sequence + 1
    /\ BeginLine(sequence + 1, event)
    /\ run' = "emit"
    /\ UNCHANGED <<manifest, alive, result, streamVars, startVars>>

(* A node may still go on for a while after the stream cancelled the run. *)
Progress ==
    /\ alive /\ run = "graph"
    /\ Len(journal) < MaxLines
    /\ GraphEvent(IF journal = <<>> THEN "run_started" ELSE "node_completed")

Conclude ==
    /\ alive /\ run = "graph"
    /\ journal # <<>>
    /\ \E event \in GraphOutcomes : GraphEvent(event)

(* The node awaiting when the task is cancelled records it; between nodes *)
(* the generator is closed and nothing is recorded yet.                   *)
CancelInNode ==
    /\ alive /\ run = "graph" /\ stream = "left"
    /\ journal # <<>>
    /\ GraphEvent("run_cancelled")

CloseGenerator ==
    /\ alive /\ run = "graph" /\ stream = "left"
    /\ run' = "close"
    /\ result' = "cancelled"
    /\ UNCHANGED <<manifest, journal, alive, sequence, streamVars, startVars>>

(* An exception outside the containment boundary ends the graph. *)
GraphRaises ==
    /\ alive /\ run = "graph"
    /\ run' = "close"
    /\ result' = "raised"
    /\ UNCHANGED <<manifest, journal, alive, sequence, streamVars, startVars>>

FinishEvent ==
    /\ alive /\ run = "emit"
    /\ FinishLine(Len(journal))
    /\ IF IsTerminal(Last)
       THEN /\ run' = "close"
            /\ result' = IF Last.event = "run_cancelled" THEN "cancelled"
                         ELSE "returned"
       ELSE /\ run' = "graph"
            /\ UNCHANGED result
    /\ UNCHANGED <<manifest, alive, sequence, streamVars, startVars>>

(* close_incomplete continues the last snapshot. *)
ClosingSequence == Last.sequence + 1

ClosingEvent == IF result = "raised" THEN "run_failed" ELSE "run_cancelled"

NothingToClose == journal = <<>> \/ IsTerminal(Last)

CloseIncomplete ==
    /\ alive /\ run = "close"
    /\ IF NothingToClose
       THEN run' = "over" /\ UNCHANGED journal
       ELSE run' = "closeEmit" /\ BeginLine(ClosingSequence, ClosingEvent)
    /\ UNCHANGED <<manifest, alive, sequence, result, streamVars, startVars>>

FinishClosing ==
    /\ alive /\ run = "closeEmit"
    /\ FinishLine(Len(journal))
    /\ run' = "over"
    /\ UNCHANGED <<manifest, alive, sequence, result, streamVars, startVars>>

Die ==
    /\ alive
    /\ alive' = FALSE
    /\ UNCHANGED <<manifest, journal, runVars, streamVars, startVars>>

-------------------------------------------------------------------------------
(* The SSE stream *)

\* Mutation: only a run that returned counts as finished.
SampleReturned ==
    /\ alive /\ stream = "sample"
    /\ stream' = "read"
    /\ finished' = (run = "over" /\ result = "returned")
    /\ UNCHANGED <<manifest, journal, alive, runVars, view, delivered,
                   startVars>>

(* task.done() is sampled before the journal is read, in a thread. *)
Sample ==
    /\ alive /\ stream = "sample"
    /\ stream' = "read"
    /\ finished' = (run = "over")
    /\ UNCHANGED <<manifest, journal, alive, runVars, view, delivered,
                   startVars>>

(* The lines up to one that does not parse. *)
ReadTail ==
    /\ alive /\ stream = "read"
    /\ view' = Max({0} \cup
          {n \in DOMAIN journal : \A i \in 1 .. n : Parses(journal[i])})
    /\ stream' = "publish"
    /\ UNCHANGED <<manifest, journal, alive, runVars, finished, delivered,
                   startVars>>

\* Mutation: whether the run has ended is looked at after the read.
PublishThenSample ==
    /\ alive /\ stream = "publish"
    /\ delivered' = view
    /\ stream' = IF run = "over" THEN "finish" ELSE "sample"
    /\ UNCHANGED <<manifest, journal, alive, runVars, finished, view,
                   startVars>>

(* Events are sent in the order of their lines, each once. *)
Publish ==
    /\ alive /\ stream = "publish"
    /\ delivered' = view
    /\ stream' = IF finished THEN "finish" ELSE "sample"
    /\ UNCHANGED <<manifest, journal, alive, runVars, finished, view,
                   startVars>>

FinishStream ==
    /\ alive /\ stream = "finish"
    /\ stream' = IF result = "raised" THEN "error" ELSE "done"
    /\ UNCHANGED <<manifest, journal, alive, runVars, finished, view,
                   delivered, startVars>>

(* The client disconnects; the stream cancels the run and waits for it. *)
Leave ==
    /\ alive /\ stream \in {"sample", "read", "publish", "finish"}
    /\ stream' = "left"
    /\ UNCHANGED <<manifest, journal, alive, runVars, finished, view,
                   delivered, startVars>>

-------------------------------------------------------------------------------
(* recover_interrupted, in the constructor of a later process's agent *)

Recovering == {s \in Starters : startup[s] \in {"scan", "read", "append",
                                                "emit"}}

StartFrame == UNCHANGED <<alive, runVars, streamVars, manifest>>

Launch(s) ==
    /\ startup[s] = "off"
    /\ startup' = [startup EXCEPT ![s] = "scan"]
    /\ UNCHANGED <<journal, found, sawDead>>
    /\ StartFrame

\* Mutation: whether the recorded process still exists is not looked at.
TreatedAsDead == TRUE

(* os.kill(pid, 0) raises ProcessLookupError. *)
TakenForDead == ~ alive

Scan(s) ==
    /\ startup[s] = "scan"
    /\ startup' = [startup EXCEPT ![s] =
                      CASE manifest = "absent" -> "up"
                        [] manifest = "torn" -> "failed"
                        [] manifest = "whole" /\ TakenForDead -> "read"
                        [] OTHER -> "up"]
    /\ sawDead' = [sawDead EXCEPT ![s] = manifest = "whole" /\ ~ alive]
    /\ UNCHANGED <<journal, found>>
    /\ StartFrame

(* Any line of the journal that fails to parse fails the whole startup. *)
ReadLast(s) ==
    /\ startup[s] = "read"
    /\ startup' = [startup EXCEPT ![s] =
                      CASE journal = <<>> -> "up"
                        [] journal # <<>> /\ ~ Parses(Last) -> "failed"
                        [] journal # <<>> /\ Parses(Last) /\ IsTerminal(Last)
                              -> "up"
                        [] OTHER -> "append"]
    /\ found' = [found EXCEPT ![s] = IF journal = <<>> THEN 0
                                     ELSE Last.sequence]
    /\ UNCHANGED <<journal, sawDead>>
    /\ StartFrame

MarkFailed(s) ==
    /\ startup[s] = "append"
    /\ BeginLine(found[s] + 1, "run_failed")
    /\ startup' = [startup EXCEPT ![s] = "emit"]
    /\ UNCHANGED <<found, sawDead>>
    /\ StartFrame

(* Nothing keeps two starting processes apart: a line begun in the middle of *)
(* another leaves neither readable.  Who finds the line before the last one  *)
(* whole has begun the last one itself.                                      *)
FinishMark(s) ==
    /\ startup[s] = "emit"
    /\ IF journal[Len(journal) - 1].whole THEN FinishLine(Len(journal))
       ELSE UNCHANGED journal
    /\ startup' = [startup EXCEPT ![s] = "up"]
    /\ UNCHANGED <<found, sawDead>>
    /\ StartFrame

StarterDies(s) ==
    /\ s \in Recovering
    /\ startup' = [startup EXCEPT ![s] = "gone"]
    /\ UNCHANGED <<journal, found, sawDead>>
    /\ StartFrame

-------------------------------------------------------------------------------
RunStep ==
    \/ BeginManifest \/ FinishManifest \/ Progress \/ Conclude \/ CancelInNode
    \/ CloseGenerator \/ FinishEvent \/ CloseIncomplete \/ FinishClosing
StreamStep == Sample \/ ReadTail \/ Publish \/ FinishStream
Recover(s) == Scan(s) \/ ReadLast(s) \/ MarkFailed(s) \/ FinishMark(s)

Next ==
    \/ RunStep \/ GraphRaises \/ Die
    \/ StreamStep \/ Leave
    \/ \E s \in Starters : Launch(s) \/ Recover(s) \/ StarterDies(s)

Spec == Init /\ [][Next]_vars

(* The event loop runs the graph and the stream; nobody has to start, leave *)
(* or die.                                                                  *)
FairSpec == Spec /\ WF_vars(RunStep) /\ WF_vars(StreamStep)

-------------------------------------------------------------------------------
TypeOK ==
    /\ manifest \in {"absent", "torn", "whole"}
    /\ journal \in Seq(Line)
    /\ alive \in BOOLEAN
    /\ run \in RunStates
    /\ sequence \in Nat
    /\ result \in {"none", "returned", "raised", "cancelled"}
    /\ stream \in StreamStates
    /\ finished \in BOOLEAN
    /\ view \in Nat
    /\ delivered \in Nat
    /\ startup \in [Starters -> StartStates]
    /\ found \in [Starters -> Nat]
    /\ sawDead \in [Starters -> BOOLEAN]

(* Processes that recover a dead run at a time each read it unfinished, and  *)
(* each then says the same last word: line i is that of the line before.     *)
SaidAgain(i) ==
    /\ ~ alive
    /\ {i - 1, i} \subseteq DOMAIN journal
    /\ \A j \in {i - 1, i} : journal[j].event = "run_failed"
    /\ journal[i].sequence = journal[i - 1].sequence

(***************************************************************************)
(* Whoever ends the run, the graph, the cancelled node, v2_states or a     *)
(* later startup, nothing follows a terminal event; only recoveries of one *)
(* dead run that overlap may say it again (events.py:124-154).             *)
(***************************************************************************)
TerminalEventIsLast ==
    \A i \in DOMAIN journal :
        IsTerminal(journal[i]) => i = Len(journal) \/ SaidAgain(i + 1)

(***************************************************************************)
(* Event ids are made of the run id and the sequence, which three writers  *)
(* in several processes continue: the i-th line carries sequence i, so     *)
(* that ids are unique and a reader can tell a gap, and a last word said   *)
(* again carries the id of the first.                                      *)
(***************************************************************************)
SequencesCountLines ==
    \A i \in DOMAIN journal : journal[i].sequence = i \/ SaidAgain(i)

(***************************************************************************)
(* The journal reads as one history, whoever wrote its lines.              *)
(***************************************************************************)
JournalIsOneHistory == TerminalEventIsLast /\ SequencesCountLines

(***************************************************************************)
(* "There is exactly one terminal event" (docs/v2_design.md:80), as far as *)
(* its lines can be read.                                                  *)
(***************************************************************************)
OneTerminalEvent ==
    Cardinality({i \in DOMAIN journal : Parses(journal[i])
                                        /\ IsTerminal(journal[i])}) <= 1

(***************************************************************************)
(* "Persist first, then publish": a stream that says done has sent every   *)
(* event of the journal, the terminal one included, although it polls.     *)
(***************************************************************************)
DoneMeansAllDelivered ==
    /\ delivered <= Cardinality({i \in DOMAIN journal : journal[i].whole})
    /\ stream = "done" => /\ delivered = Len(journal)
                          /\ IsTerminal(Last)

(***************************************************************************)
(* A run whose journal has events ends with a terminal event, unless its   *)
(* process died; a process that came up has left no such run open, and one *)
(* that recovered it alone has left its end readable.                      *)
(***************************************************************************)
EndedRunsAreClosed ==
    /\ run = "over" /\ journal # <<>> => IsTerminal(Last) /\ Parses(Last)
    /\ \A s \in Starters :
          startup[s] = "up" /\ sawDead[s] /\ journal # <<>>
             => IsTerminal(Last) /\ (Parses(Last) \/ SaidAgain(Len(journal)))

(***************************************************************************)
(* What has ended, has ended whole: the stream and the journal agree on    *)
(* the last event, and no run that is over stays open.                     *)
(***************************************************************************)
RunsEndWhole == DoneMeansAllDelivered /\ EndedRunsAreClosed

(***************************************************************************)
(* "On next V2 agent startup, traces whose recorded process is gone are    *)
(* marked failed" (docs/v2_design.md).                                     *)
(***************************************************************************)
StartupMarksDeadRuns ==
    \A s \in Starters :
        startup[s] \in {"up", "failed"} /\ sawDead[s] /\ journal # <<>>
           => IsTerminal(Last)

(***************************************************************************)
(* A stream comes to an end with its run.                                  *)
(***************************************************************************)
StreamEnds == <>(~ alive \/ stream \in {"done", "error", "left"})

===============================================================================
