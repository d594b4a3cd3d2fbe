----------------------------- MODULE LabelReview -----------------------------
(***************************************************************************)
(* The blind review of a V1 and a V2 report and what is published of it:   *)
(* scripts/paired_review.py, scripts/v2_labels.py, evals/v2_labels.py,     *)
(* evals/paired.py, experiments/v2_judge.py and scripts/compare_v1_v2.py.  *)
(*                                                                         *)
(* The state is the files.  A report stands for its own bytes: whatever    *)
(* records its hash holds it.  Each command is started when the operator   *)
(* likes, may die between two of its writes or within one, and finds what  *)
(* an earlier one left.  Reports are written again by a later run, and     *)
(* reviewers edit label files by hand.  A label remembers the report whose *)
(* answer its reviewer was shown and whether the judge's verdicts on it    *)
(* had been unsealed by then; labeled_at makes both part of its bytes.     *)
(***************************************************************************)
EXTENDS Naturals, Sequences, FiniteSets, SequencesExt

CONSTANTS
    Tasks,       \* the cases
    None,        \* no value, or no file
    Opinions,    \* judgements a reviewer may come to
    Judged,      \* the arms whose report is judged
    MaxReports,  \* bound on the reports written
    MaxEdits,    \* bound on the lines edited by hand
    MaxRounds    \* bound on the adjudication records of an arm

Modes == {"v1", "v2"}
Slots == {"A", "B"}
Answers == Tasks \X Slots

VARIABLES
    report,      \* of each arm
    source,      \* report its labels are bound to (.source.json)
    labels,      \* its labels
    frozen,      \* its freeze record
    key,         \* of the blind sheet
    blind,       \* the blind labels
    sealed,      \* each arm's verdicts, judged but not read
    judge,       \* the judge pass under way
    unsealed,    \* the log of unsealings
    command,     \* the writes a command has left
    written,     \* number of reports written
    edits        \* number of lines edited

reviewVars == <<source, labels, key, blind, command>>
judgeVars == <<sealed, judge>>
resultVars == <<frozen, unsealed>>
bounds == <<written, edits>>
vars == <<report, reviewVars, judgeVars, resultVars, bounds>>

Report == [version: Nat, failed: SUBSET Tasks]
Idle == [todo |-> <<>>]

-----------------------------------------------------------------------------
(***************************************************************************)
(* Labels.                                                                 *)
(***************************************************************************)

Success == {"yes", "no", None}
Label == [task_success: Success, outcome: {"execution_failure", "answered", None},
          primary_failure: {"cause", None}]
Blank == [task_success |-> None, outcome |-> None, primary_failure |-> None]

\* HumanLabel.consistent
Consistent(l) ==
    l.task_success # None =>
      /\ l.outcome # None
      /\ l.task_success = "no" <=> l.primary_failure # None
      /\ l.outcome = "execution_failure" => l.task_success = "no"

Complete(l) == l.task_success # None
Judgements == {l \in Opinions : Complete(l) /\ Consistent(l)}

Unseals(m, r) == \E u \in unsealed : u.mode = m /\ u.report = r

\* A label as written by someone shown r's answer, in arm m.
Given(l, m, r) == [label |-> l, mode |-> m, report |-> r, late |-> Unseals(m, r)]

-----------------------------------------------------------------------------
(***************************************************************************)
(* Commands.  The first refusals of a command are the guard of its start;  *)
(* its writes follow one by one.                                           *)
(***************************************************************************)

Init ==
    /\ report = [m \in Modes |-> None] /\ source = [m \in Modes |-> None]
    /\ labels = [m \in Modes |-> None] /\ frozen = [m \in Modes |-> None]
    /\ sealed = [m \in Modes |-> None]
    /\ key = None /\ blind = None /\ judge = None /\ unsealed = {}
    /\ command = Idle /\ written = 0 /\ edits = 0

\* v2_standalone: a run, or a resumed one, writes the report of its arm.
WriteReport(m, failed) ==
    /\ written < MaxReports
    /\ written' = written + 1
    /\ report' = [report EXCEPT ![m] = [version |-> written', failed |-> failed]]
    /\ UNCHANGED <<reviewVars, judgeVars, resultVars, edits>>

\* scripts.v2_labels sheet: the review of one arm.
StartSheet(m) ==
    /\ command = Idle /\ report[m] # None /\ labels[m] = None
    /\ command' = [todo |-> <<<<"bind", m>>, <<"labels", m>>>>, reports |-> report,
                   labels |-> [n \in Modes |->
                                 [t \in Tasks |-> Given(Blank, m, report[m])]]]
    /\ UNCHANGED <<report, source, labels, key, blind, judgeVars, resultVars, bounds>>

\* scripts.paired_review sheet; slots[t] is the arm in slot A.
StartBlindSheet(slots) ==
    /\ command = Idle /\ key = None /\ blind = None
    /\ \A m \in Modes : report[m] # None /\ labels[m] = None
    /\ command' = [todo |-> <<<<"bind", "v1">>, <<"bind", "v2">>, <<"key">>, <<"blind">>>>,
                   reports |-> report, slots |-> slots]
    /\ UNCHANGED <<report, source, labels, key, blind, judgeVars, resultVars, bounds>>

ModeIn(slots, a) ==
    IF a[2] = "A" THEN slots[a[1]] ELSE CHOOSE m \in Modes : m # slots[a[1]]

\* Mutant: the answers in slot A are taken for the first arm's.
UnblindedInOrder(slots) ==
    [m \in Modes |-> [t \in Tasks |-> blind[<<t, IF m = "v1" THEN "A" ELSE "B">>]]]

\* unblind: the labels of each arm, from complete blind ones.
Unblinded(slots) ==
    [m \in Modes |->
       [t \in Tasks |-> blind[CHOOSE a \in Answers : a[1] = t /\ ModeIn(slots, a) = m]]]

StartUnblind ==
    /\ command = Idle /\ key # None /\ blind # None
    /\ DOMAIN blind = Answers /\ \A a \in Answers : Complete(blind[a].label)
    /\ \A m \in Modes : report[m] = key.reports[m] /\ labels[m] = None
    /\ command' = [todo |-> <<<<"labels", "v1">>, <<"labels", "v2">>>>,
                   labels |-> Unblinded(key.slots)]
    /\ UNCHANGED <<report, source, labels, key, blind, judgeVars, resultVars, bounds>>

Next1 == [command EXCEPT !.todo = Tail(@)]
Writing(file) == command.todo # <<>> /\ Head(command.todo) = file

\* bind_source_report: a binding that is there stops the command.
Bind(m) ==
    /\ Writing(<<"bind", m>>)
    /\ \/ /\ source[m] = None
          /\ source' = [source EXCEPT ![m] = command.reports[m]]
          /\ command' = Next1
       \/ /\ source[m] # None
          /\ command' = Idle /\ UNCHANGED source
    /\ UNCHANGED <<report, labels, key, blind, judgeVars, resultVars, bounds>>

WriteKey ==
    /\ Writing(<<"key">>)
    /\ key' = [reports |-> command.reports, slots |-> command.slots]
    /\ command' = Next1
    /\ UNCHANGED <<report, source, labels, blind, judgeVars, resultVars, bounds>>

WriteBlind ==
    /\ Writing(<<"blind">>)
    /\ blind' = [a \in Answers |->
                   Given(Blank, ModeIn(command.slots, a),
                         command.reports[ModeIn(command.slots, a)])]
    /\ command' = Next1
    /\ UNCHANGED <<report, source, labels, key, judgeVars, resultVars, bounds>>

WriteLabels(m) ==
    /\ Writing(<<"labels", m>>)
    /\ labels' = [labels EXCEPT ![m] = command.labels[m]]
    /\ command' = Next1
    /\ UNCHANGED <<report, source, key, blind, judgeVars, resultVars, bounds>>

EndCommand ==
    /\ command # Idle /\ command.todo = <<>>
    /\ command' = Idle
    /\ UNCHANGED <<report, source, labels, key, blind, judgeVars, resultVars, bounds>>

\* The process dies, between two writes or with a label file cut after some
\* of its lines.
Dies ==
    /\ command # Idle
    /\ \/ UNCHANGED labels
       \/ \E m \in Modes, kept \in SUBSET Tasks :
            /\ Writing(<<"labels", m>>)
            /\ labels' = [labels EXCEPT ![m] = [t \in kept |-> command.labels[m][t]]]
    /\ command' = Idle
    /\ UNCHANGED <<report, source, key, blind, judgeVars, resultVars, bounds>>

-----------------------------------------------------------------------------
(***************************************************************************)
(* Reviewing, freezing and correcting.                                     *)
(***************************************************************************)

\* label: an answer that has no judgement yet is shown from the report as it
\* is now; the file is replaced in one rename.
LabelBlind(a, l) ==
    /\ key # None /\ blind # None /\ a \in DOMAIN blind
    /\ ~Complete(blind[a].label)
    /\ LET m == ModeIn(key.slots, a)
       IN  blind' = [blind EXCEPT ![a] = Given(l, m, report[m])]
    /\ UNCHANGED <<report, source, labels, key, command, judgeVars, resultVars, bounds>>

\* A reviewer fills in or changes a line of a label file, from its sheet.
EditLabel(m, t, l) ==
    /\ edits < MaxEdits /\ edits' = edits + 1
    /\ labels[m] # None /\ t \in DOMAIN labels[m] /\ source[m] # None
    /\ labels' = [labels EXCEPT ![m][t] = Given(l, m, source[m])]
    /\ UNCHANGED <<report, source, key, blind, command, judgeVars, resultVars, written>>

MayFreeze(m) == frozen[m] = None

Freeze(m) ==
    /\ MayFreeze(m)
    /\ report[m] # None /\ source[m] = report[m] /\ labels[m] # None
    /\ DOMAIN labels[m] = Tasks
    /\ \A t \in Tasks : /\ Complete(labels[m][t].label)
                        /\ ~(t \in report[m].failed /\ labels[m][t].label.task_success = "yes")
    /\ frozen' = [frozen EXCEPT ![m] = [labels |-> labels[m], report |-> report[m]]]
    /\ UNCHANGED <<report, reviewVars, judgeVars, unsealed, bounds>>

\* Mutant: the labels may have changed since.
CheckFrozenReport(m) == frozen[m] # None /\ frozen[m].report = report[m]

CheckFrozen(m) ==
    /\ frozen[m] # None
    /\ frozen[m].report = report[m]
    /\ labels[m] = frozen[m].labels

(***************************************************************************)
(* Corrections.  A record names a label by the case it was written for; it  *)
(* may change any field, the case that the label speaks of included.  The   *)
(* fields of a label left out here only keep a correction from applying.    *)
(***************************************************************************)

Fields == {"task_id", "task_success", "outcome", "primary_failure"}
Values == Tasks \cup Success \cup {"execution_failure", "answered", "cause"}
Adjudication == [task: Tasks, field: Fields, old: Values, new: Values]

Named(l, t) == [task_id |-> t, task_success |-> l.task_success, outcome |-> l.outcome,
                primary_failure |-> l.primary_failure]
NamedLabel == {Named(l, t) : l \in {k \in Label : Consistent(k)}, t \in Tasks}

\* A correction applies to a label that reads as it says, and leaves a valid
\* one; otherwise none of them does.
Applies(l, r) == l[r.field] = r.old /\ [l EXCEPT ![r.field] = r.new] \in NamedLabel
Applied(of, r) == [of EXCEPT ![r.task][r.field] = r.new]

\* apply_adjudications: what up to n records may make of the labels.
Adjudicated(given, n) ==
    LET after[k \in 0 .. n] ==
          IF k = 0 THEN {[t \in Tasks |-> Named(given[t].label, t)]}
          ELSE after[k - 1] \cup
               UNION {{Applied(of, r) : r \in {c \in Adjudication : Applies(of[c.task], c)}} :
                        of \in after[k - 1]}
    IN  after[n]

-----------------------------------------------------------------------------
(***************************************************************************)
(* The judge pass of an arm: a verdict per case, appended and flushed; one *)
(* a provider limit stopped is given again when the pass is resumed.       *)
(***************************************************************************)

Open(file) == {t \in Tasks : file.verdicts[t] \in {None, "provider_limit"}}

\* The header goes out with the first verdict.
StartJudge(m, resume) ==
    /\ m \in Judged /\ judge = None /\ report[m] # None
    /\ \/ /\ sealed[m] = None
          /\ sealed' = [sealed EXCEPT ![m] = [header |-> None, cut |-> FALSE,
                                              verdicts |-> [t \in Tasks |-> None]]]
       \/ /\ sealed[m] # None /\ resume /\ ~sealed[m].cut
          /\ sealed[m].header = report[m]
          /\ UNCHANGED sealed
    /\ judge' = [mode |-> m, report |-> report[m], todo |-> Open(sealed'[m]),
                 limited |-> FALSE]
    /\ UNCHANGED <<report, reviewVars, resultVars, bounds>>

\* judge_row: a failed run is not judged, nor anything behind the limit.
Verdicts(t) ==
    IF judge.limited THEN {"provider_limit"}
    ELSE IF t \in judge.report.failed THEN {"execution_failure"}
    ELSE {"graded", "provider_limit"}

JudgeRow(t, verdict) ==
    /\ judge # None /\ t \in judge.todo /\ verdict \in Verdicts(t)
    /\ sealed' = [sealed EXCEPT ![judge.mode].header = judge.report,
                                ![judge.mode].verdicts[t] = verdict]
    /\ judge' = [judge EXCEPT !.todo = @ \ {t}, !.limited = verdict = "provider_limit"]
    /\ UNCHANGED <<report, reviewVars, resultVars, bounds>>

\* It is through, or dies, maybe within a line, which no reader gets past.
JudgeEnds ==
    /\ judge # None /\ judge' = None
    /\ \/ UNCHANGED sealed
       \/ judge.todo # {} /\ sealed' = [sealed EXCEPT ![judge.mode].cut = TRUE]
    /\ UNCHANGED <<report, reviewVars, resultVars, bounds>>

-----------------------------------------------------------------------------
(***************************************************************************)
(* Unsealing and publishing.                                               *)
(***************************************************************************)

\* load_sealed
Readable(m) ==
    sealed[m] # None /\ ~sealed[m].cut /\ sealed[m].header = frozen[m].report

Unsealing(m) == [mode |-> m, report |-> frozen[m].report, labels |-> frozen[m].labels,
                 verdicts |-> sealed[m].verdicts]

\* v2_labels agreement
Agreement(m) ==
    /\ CheckFrozen(m) /\ Readable(m)
    /\ unsealed' = unsealed \cup {Unsealing(m)}
    /\ UNCHANGED <<report, reviewVars, judgeVars, frozen, bounds>>

\* The labels of v2_labels report and compare_v1_v2, after some corrections.
\* Either writes a file that no command reads: what it would say of an arm is
\* a function of the files, and MayReport tells when it says it.
MayReport(m) == CheckFrozen(m)
MayCompare == \A m \in Modes : CheckFrozen(m)

Reported(m) == Adjudicated(labels[m], MaxRounds)

\* paired.compare refuses labels that do not speak of every case.
Covers(of) == {of[t].task_id : t \in Tasks} = Tasks
Spoken(of, t) == of[CHOOSE k \in Tasks : of[k].task_id = t]

\* wins_losses
WinsLosses(pairs) ==
    LET known == {t \in Tasks : None \notin {pairs[t].v1, pairs[t].v2}}
    IN  [v2_wins |-> {t \in known : pairs[t].v1 = "no" /\ pairs[t].v2 = "yes"},
         v2_losses |-> {t \in known : pairs[t].v1 = "yes" /\ pairs[t].v2 = "no"},
         ties |-> {t \in known : pairs[t].v1 = pairs[t].v2}]

Comparison(first, second) ==
    WinsLosses([t \in Tasks |-> [v1 |-> Spoken(first, t).task_success,
                                 v2 |-> Spoken(second, t).task_success]])

Next ==
    \/ \E m \in Modes :
         \/ \E failed \in SUBSET Tasks : WriteReport(m, failed)
         \/ StartSheet(m) \/ Bind(m) \/ WriteLabels(m) \/ Freeze(m) \/ Agreement(m)
         \/ \E t \in Tasks, l \in Judgements : EditLabel(m, t, l)
         \/ \E flag \in BOOLEAN : StartJudge(m, flag)
    \/ \E slots \in [Tasks -> Modes] : StartBlindSheet(slots)
    \/ StartUnblind \/ WriteKey \/ WriteBlind \/ EndCommand \/ Dies
    \/ \E a \in Answers, l \in Judgements : LabelBlind(a, l)
    \/ \E t \in Tasks, v \in {"graded", "execution_failure", "provider_limit"} : JudgeRow(t, v)
    \/ JudgeEnds

Spec == Init /\ [][Next]_vars

-----------------------------------------------------------------------------
(***************************************************************************)
(* Properties.                                                             *)
(***************************************************************************)

\* What may be reported of an arm rests on a whole set of judgements, each
\* given by someone who was shown that very arm's answer in the report, and
\* none of them calls a failed run a success: through reports that were
\* written again, commands that died and labels edited by hand.  It speaks of
\* the frozen labels, before any correction (for those see FailuresDoNotWin).
ReportedLabelsAreReviews ==
    \A m \in Modes : MayReport(m) =>
        /\ DOMAIN labels[m] = Tasks
        /\ \A t \in Tasks :
             LET given == labels[m][t]
             IN  /\ Complete(given.label)
                 /\ given.mode = m /\ given.report = report[m]
                 /\ ~(t \in report[m].failed /\ given.label.task_success = "yes")

\* "execution failures are never judged and cannot be labelled successes"
\* (docs/evaluation_protocol.md:112-113, said of what the code enforces): a
\* comparison counts no failed V2 run as a win, also after corrections.
FailuresDoNotWin ==
    MayCompare =>
      \A first \in Reported("v1"), second \in Reported("v2") :
        Covers(first) /\ Covers(second) =>
          Comparison(first, second).v2_wins \cap report["v2"].failed = {}

\* The labels that may be reported were all given before any verdict of the
\* judge on that report was unsealed, and no unsealed verdict grades a failed
\* run of the report it was unsealed for.
OutcomesPredateVerdicts ==
    /\ \A m \in Modes : MayReport(m) => \A t \in Tasks : ~labels[m][t].late
    /\ \A u \in unsealed : \A t \in Tasks :
         u.verdicts[t] = "graded" => t \notin u.report.failed

===============================================================================
