--------------------------- MODULE StandaloneSweep ---------------------------
(***************************************************************************)
(* A live standalone evaluation run, experiments/v2_standalone.py: cases   *)
(* one after another under a spend ledger and, with the CLI backend, a     *)
(* provider limit; a row per case appended to the predictions; a frozen    *)
(* configuration; deaths at any point and later resumptions.               *)
(*                                                                         *)
(* The ledger is what BudgetLedger promises of a sequential client: it     *)
(* counts an attempt before it is sent, survives the process, and stays    *)
(* exhausted.  Of a case only its model calls are shown.                   *)
(***************************************************************************)
EXTENDS Naturals, Sequences, FiniteSets, SequencesExt

CONSTANTS
    Tasks,          \* the suite, in its order
    Settings,       \* configurations a process may be started with
    Cli,            \* whether the backend is the CLI, which shows its limit
    AttemptCap,    \* attempt cap of the preflight
    MaxCalls,       \* bound on the model calls of a case
    MaxStarts       \* bound on the processes started

Missing == "missing"   \* a file that is not there
Cut == "cut"           \* one whose writing did not end

ASSUME SweepAssumption ==
    /\ Tasks \in Seq(Range(Tasks)) /\ IsInjective(Tasks)
    /\ {Missing, Cut} \cap Settings = {} /\ Settings # {}
    /\ Cli \in BOOLEAN
    /\ AttemptCap \in Nat /\ MaxCalls \in Nat /\ MaxStarts \in Nat

VARIABLES
    config,          \* the frozen configuration file
    rows,            \* whole lines of the predictions
    torn,            \* a line without its end is behind them
    ledger,          \* the ledger, the same in memory and file
    pc,              \* where the process is
    setting,         \* the configuration it was started with
    done,            \* tasks it found executed
    at,              \* index of the task it is at
    limitReached,    \* its client hit the provider's limit
    calls,           \* model calls of the case
    refusedBefore,   \* refusals before the case
    report,          \* the last report written
    starts

fileVars == <<config, rows, torn, ledger, report>>
caseVars == <<calls, refusedBefore>>
vars == <<fileVars, pc, setting, done, at, limitReached, caseVars, starts>>

Suite == Range(Tasks)
RERUN == {"budget_stopped", "provider_limit_stopped"}
Executions == RERUN \cup {"completed", "budget_refused_call"}
Row == [task: Suite, execution: Executions, setting: Settings]
Gap == {"not_reached", "provider_limit", "budget_exhausted"}
NoReport == [executed |-> {}, gaps |-> {}, reason |-> "not_reached",
             summarized |-> {}, lines |-> 0]

TypeOK ==
    /\ config \in {Missing, Cut} \cup Settings
    /\ rows \in Seq(Row) /\ torn \in BOOLEAN
    /\ ledger \in [attempts: 0 .. AttemptCap, refused: Nat, exhausted: BOOLEAN]
    /\ pc \in {"off", "freeze", "loop", "case", "row", "report"}
    /\ setting \in Settings
    /\ done \subseteq Suite /\ at \in 1 .. Len(Tasks) + 1
    /\ limitReached \in BOOLEAN
    /\ calls \in 0 .. MaxCalls /\ refusedBefore \in Nat
    /\ report.executed \subseteq Suite /\ report.gaps \subseteq Suite
    /\ report.reason \in Gap

Init ==
    /\ config = Missing /\ rows = <<>> /\ torn = FALSE
    /\ ledger = [attempts |-> 0, refused |-> 0, exhausted |-> FALSE]
    /\ pc = "off" /\ setting \in Settings /\ done = {} /\ at = 1
    /\ limitReached = FALSE /\ calls = 0 /\ refusedBefore = 0
    /\ report = NoReport /\ starts = 0

-----------------------------------------------------------------------------
(***************************************************************************)
(* run(), up to its loop.                                                  *)
(***************************************************************************)

IsExecuted(row) == row.execution \notin RERUN
\* Mutant: a case whose prompt was refused is tried again.
ExecutedCompletely(s) ==
    {row.task : row \in {r \in Range(s) : r.execution = "completed"}}

Executed(s) == {row.task : row \in {r \in Range(s) : IsExecuted(r)}}

\* Whether a start goes on to the loop: a resumption of the same frozen
\* configuration whose predictions can be read.
Resumes(resume, s) == resume /\ config = s /\ ~torn

Start(resume, s) ==
    /\ pc = "off" /\ starts < MaxStarts
    /\ starts' = starts + 1
    /\ setting' = s
    /\ at' = 1 /\ limitReached' = FALSE
    /\ \/ /\ config = Missing
          /\ config' = Cut /\ pc' = "freeze" /\ done' = {}
       \/ /\ config # Missing /\ Resumes(resume, s)
          /\ done' = Executed(rows) /\ pc' = "loop"
          /\ UNCHANGED config
       \/ /\ config # Missing /\ ~Resumes(resume, s)
          /\ UNCHANGED <<config, pc, done>>
    /\ UNCHANGED <<rows, torn, ledger, report, caseVars>>

Freeze ==
    /\ pc = "freeze"
    /\ config' = setting
    /\ pc' = "loop"
    /\ UNCHANGED <<rows, torn, ledger, report, setting, done, at, limitReached,
                   caseVars, starts>>

-----------------------------------------------------------------------------
(***************************************************************************)
(* The loop: one case, and its row.                                        *)
(***************************************************************************)

Remaining == {i \in at .. Len(Tasks) : Tasks[i] \notin done}
Stopped == ledger.exhausted \/ limitReached

NextCase ==
    /\ pc = "loop"
    /\ IF Remaining = {} \/ Stopped
       THEN pc' = "report" /\ UNCHANGED <<at, caseVars>>
       ELSE /\ pc' = "case"
            /\ \E i \in Remaining : (\A j \in Remaining : i <= j) /\ at' = i
            /\ calls' = 0 /\ refusedBefore' = ledger.refused
    /\ UNCHANGED <<fileVars, setting, done, limitReached, starts>>

\* What one CLI process printed: a result or none, and of a result whether it
\* reports success, the requested model and a text.
Answer == [result: BOOLEAN, success: BOOLEAN, limit: BOOLEAN,
           served: BOOLEAN, text: BOOLEAN]

\* parse: only an answer without a result, or one that is an error, is looked
\* at for the markers of a limit.
LimitShown(a) == a.limit /\ ~(a.result /\ a.success)

\* A granted attempt.  It may overrun its reservation, which exhausts the
\* ledger once it is settled, whether or not the client can use the answer.
CallGranted(a) ==
    /\ pc = "case" /\ calls < MaxCalls
    /\ ~ledger.exhausted /\ ledger.attempts < AttemptCap
    /\ \E overrun \in {FALSE, a.result /\ a.success /\ a.served /\ a.text} :
         ledger' = [ledger EXCEPT !.attempts = @ + 1, !.exhausted = overrun]
    /\ calls' = calls + 1
    /\ limitReached' = (limitReached \/ (Cli /\ LimitShown(a)))
    /\ UNCHANGED <<config, rows, torn, report, pc, setting, done, at,
                   refusedBefore, starts>>

\* A refused attempt: the ledger is exhausted or becomes so at a cap, or the
\* prompt alone is too long.
CallRefused(tooLong) ==
    /\ pc = "case" /\ calls < MaxCalls
    /\ tooLong \/ ledger.exhausted \/ ledger.attempts = AttemptCap
    /\ ledger' = [ledger EXCEPT !.refused = @ + 1,
                                !.exhausted = @ \/ ~tooLong]
    /\ calls' = calls + 1
    /\ UNCHANGED <<config, rows, torn, report, pc, setting, done, at,
                   limitReached, refusedBefore, starts>>

Execution ==
    IF limitReached THEN "provider_limit_stopped"
    ELSE IF ledger.exhausted THEN "budget_stopped"
    ELSE IF ledger.refused > refusedBefore THEN "budget_refused_call"
    ELSE "completed"

BeginRow ==
    /\ pc = "case"
    /\ torn' = TRUE
    /\ pc' = "row"
    /\ UNCHANGED <<config, rows, ledger, report, setting, done, at,
                   limitReached, caseVars, starts>>

FinishRow ==
    /\ pc = "row"
    /\ rows' = Append(rows, [task |-> Tasks[at], execution |-> Execution,
                             setting |-> setting])
    /\ torn' = FALSE
    /\ at' = at + 1
    /\ pc' = "loop"
    /\ UNCHANGED <<config, ledger, report, setting, done, limitReached,
                   caseVars, starts>>

-----------------------------------------------------------------------------
(***************************************************************************)
(* The report.                                                             *)
(***************************************************************************)

\* Mutant: the first row of a task wins.
FirstRows == {i \in DOMAIN rows : \A j \in 1 .. i - 1 : rows[j].task # rows[i].task}

\* The last row of a task wins.
Latest ==
    {i \in DOMAIN rows : \A j \in i + 1 .. Len(rows) : rows[j].task # rows[i].task}

GapReason ==
    IF limitReached THEN "provider_limit"
    ELSE IF ledger.exhausted THEN "budget_exhausted" ELSE "not_reached"

WriteReport ==
    /\ pc = "report"
    /\ LET kept == {i \in Latest : IsExecuted(rows[i])}
           executed == {rows[i].task : i \in kept}
       IN  report' = [executed |-> executed, gaps |-> Suite \ executed,
                      reason |-> GapReason, summarized |-> kept,
                      lines |-> Len(rows)]
    /\ pc' = "off"
    /\ UNCHANGED <<config, rows, torn, ledger, setting, done, at, limitReached,
                   caseVars, starts>>

\* The process dies, or a case raises.
Die ==
    /\ pc # "off"
    /\ pc' = "off"
    /\ UNCHANGED <<fileVars, setting, done, at, limitReached, caseVars, starts>>

Next ==
    \/ \E resume \in BOOLEAN, s \in Settings : Start(resume, s)
    \/ Freeze \/ NextCase
    \/ \E a \in Answer : CallGranted(a)
    \/ \E tooLong \in BOOLEAN : CallRefused(tooLong)
    \/ BeginRow \/ FinishRow \/ WriteReport
    \/ Die

Spec == Init /\ [][Next]_vars

-----------------------------------------------------------------------------
\* Whatever dies and is resumed, a case that was executed, also one that
\* failed because a prompt was refused, is not run again and gets no second
\* row; the rows of one file are of one configuration (run()'s done set and
\* its comparison with the frozen configuration).
ExecutedOnce ==
    /\ \A i, j \in DOMAIN rows :
         i < j /\ rows[i].task = rows[j].task => ~IsExecuted(rows[i])
    /\ \A i \in DOMAIN rows : rows[i].setting = config

\* A report splits the suite into executed cases and gaps, loses no executed
\* row to a later interrupted one of the same case or the other way round,
\* summarizes one row of each executed case, and gives for its gaps the cap or
\* the limit that made them: not_reached never stands for a case.
ReportsAreComplete ==
    report # NoReport =>
    /\ report.executed = {rows[i].task : i \in {k \in 1 .. report.lines :
                                                IsExecuted(rows[k])}}
    /\ report.gaps = Suite \ report.executed
    /\ Cardinality(report.summarized) = Cardinality(report.executed)
    /\ report.gaps # {} => report.reason # "not_reached"

===============================================================================
