---------------------------- MODULE OfflineProofs ----------------------------
(***************************************************************************)
(* StandaloneSweep and the machines of Offline proved, for every suite,    *)
(* set of files, runs and requests, cap and number of deaths and           *)
(* resumptions: first the sweep that writes reports, then what keeps files *)
(* and caches beside it, machine by machine, and in the end the properties *)
(* of Offline.  Its graders are proved to agree as they are defined.       *)
(***************************************************************************)
EXTENDS StandaloneSweep, Offline, SequenceTheorems, FunctionTheorems,
        FiniteSetTheorems, NaturalsInduction, TLAPS

-----------------------------------------------------------------------------
(***************************************************************************)
(* The evaluation sweep.                                                   *)
(*                                                                         *)
(* A case that was executed completely is not executed again, and a report *)
(* tells of every case: see SweepInv, ReachInv and Told.                   *)
(***************************************************************************)

Running == {"loop", "case", "row", "report"}
Passed == {Tasks[i] : i \in 1 .. at - 1}

(***************************************************************************)
(* What the next case must not be: executed.  done is what the process     *)
(* found, and it has passed what it executed itself.                       *)
(***************************************************************************)
SweepInv ==
    /\ at \in Nat \ {0}
    /\ rows \in Seq([task: Range(Tasks), execution: Executions, setting: Settings])
    /\ setting \in Settings
    /\ config \in {Missing, Cut} => rows = <<>>
    /\ pc = "freeze" => config = Cut
    /\ pc \in Running => config = setting
    /\ pc \in {"loop", "case", "row"} => Executed(rows) \subseteq done \cup Passed
    /\ pc \in {"case", "row"} => at \in DOMAIN Tasks /\ Tasks[at] \notin done
    /\ ExecutedOnce

(* A task is one place of the suite. *)
LEMMA TaskOfOnePlace ==
    ASSUME NEW i \in DOMAIN Tasks, NEW j \in DOMAIN Tasks, Tasks[i] = Tasks[j]
    PROVE  i = j
  BY SweepAssumption DEF IsInjective

(* One more row adds its task to the executed ones if it is one. *)
LEMMA RowAdded ==
    ASSUME NEW R, NEW s \in Seq(R), NEW r \in R
    PROVE  /\ Append(s, r) \in Seq(R)
           /\ Len(s) \in Nat /\ DOMAIN s = 1 .. Len(s)
           /\ DOMAIN Append(s, r) = 1 .. Len(s) + 1
           /\ \A i \in 1 .. Len(s) : Append(s, r)[i] = s[i]
           /\ Append(s, r)[Len(s) + 1] = r
           /\ Executed(Append(s, r)) \subseteq Executed(s) \cup {r.task}
           /\ ~IsExecuted(r) => Executed(Append(s, r)) \subseteq Executed(s)
<1>1. /\ Append(s, r) \in Seq(R)
      /\ Len(Append(s, r)) = Len(s) + 1
      /\ \A i \in 1 .. Len(s) : Append(s, r)[i] = s[i]
      /\ Append(s, r)[Len(s) + 1] = r
  BY AppendProperties
<1>2. Len(s) \in Nat /\ DOMAIN s = 1 .. Len(s) /\ DOMAIN Append(s, r) = 1 .. Len(s) + 1
  BY <1>1
<1>3. ASSUME NEW x \in Range(Append(s, r)) PROVE x \in Range(s) \/ x = r
  BY <1>1, <1>2, <1>3 DEF Range
<1>4. Executed(Append(s, r)) \subseteq Executed(s) \cup {r.task}
  BY <1>3 DEF Executed
<1>5. ~IsExecuted(r) => Executed(Append(s, r)) \subseteq Executed(s)
  BY <1>3 DEF Executed
<1> QED BY <1>1, <1>2, <1>4, <1>5

(* An executed row makes its task an executed one. *)
LEMMA RowIsExecuted ==
    ASSUME NEW s, NEW i \in DOMAIN s, IsExecuted(s[i])
    PROVE  s[i].task \in Executed(s)
  BY DEF Executed, Range

(* The step that writes a row. *)
LEMMA FinishRowKeeps ==
    ASSUME SweepInv, FinishRow PROVE SweepInv'
<1> DEFINE R == [task: Range(Tasks), execution: Executions, setting: Settings]
           r == [task |-> Tasks[at], execution |-> Execution, setting |-> setting]
<1>1. /\ pc = "row" /\ pc' = "loop" /\ at' = at + 1 /\ rows' = Append(rows, r)
      /\ UNCHANGED <<config, setting, done>>
  BY DEF FinishRow
<1>2. /\ at \in Nat \ {0} /\ at \in DOMAIN Tasks /\ Tasks[at] \notin done
      /\ config = setting /\ setting \in Settings /\ rows \in Seq(R)
      /\ Executed(rows) \subseteq done \cup Passed /\ ExecutedOnce
  BY <1>1 DEF SweepInv, Running
<1>3. r \in R /\ r.task = Tasks[at] /\ r.setting = setting
  BY <1>2 DEF Range, Execution, Executions, RERUN
<1> HIDE DEF r, R
<1>4. /\ rows' \in Seq(R)
      /\ Len(rows) \in Nat /\ DOMAIN rows = 1 .. Len(rows)
      /\ DOMAIN rows' = 1 .. Len(rows) + 1
      /\ \A i \in 1 .. Len(rows) : rows'[i] = rows[i]
      /\ rows'[Len(rows) + 1] = r
      /\ Executed(rows') \subseteq Executed(rows) \cup {r.task}
  BY <1>1, <1>2, <1>3, RowAdded
<1>5. Tasks[at] \notin Passed
  <2>1. DOMAIN Tasks \subseteq Nat
    BY SweepAssumption
  <2>2. ASSUME NEW i \in 1 .. at - 1 PROVE Tasks[i] # Tasks[at]
    <3>1. DOMAIN Tasks = 1 .. Len(Tasks) /\ Len(Tasks) \in Nat
      BY SweepAssumption
    <3>2. i \in DOMAIN Tasks /\ i # at
      BY <1>2, <3>1
    <3> QED BY <1>2, <3>2, TaskOfOnePlace
  <2> QED BY <2>2 DEF Passed
<1>6. Passed' = Passed \cup {Tasks[at]}
  <2>1. 1 .. at' - 1 = (1 .. at - 1) \cup {at}
    BY <1>1, <1>2
  <2> QED BY <2>1 DEF Passed
<1>7. Executed(rows') \subseteq done' \cup Passed'
  BY <1>1, <1>2, <1>3, <1>4, <1>6
<1>8. ExecutedOnce'
  <2>1. ASSUME NEW i \in DOMAIN rows', NEW j \in DOMAIN rows',
               i < j, rows'[i].task = rows'[j].task
        PROVE  ~IsExecuted(rows'[i])
    <3>1. i \in 1 .. Len(rows)
      BY <1>4, <2>1
    <3>2. CASE j \in 1 .. Len(rows)
      BY <1>2, <1>4, <2>1, <3>1, <3>2 DEF ExecutedOnce
    <3>3. CASE j = Len(rows) + 1
      <4>1. rows[i].task = Tasks[at]
        BY <1>3, <1>4, <2>1, <3>1, <3>3
      <4>2. rows[i].task \notin Executed(rows)
        BY <1>2, <1>5, <4>1
      <4>3. ~IsExecuted(rows[i])
        BY <1>4, <3>1, <4>2, RowIsExecuted
      <4> QED BY <1>4, <3>1, <4>3
    <3> QED BY <1>4, <3>2, <3>3
  <2>2. ASSUME NEW i \in DOMAIN rows' PROVE rows'[i].setting = config'
    <3>1. CASE i \in 1 .. Len(rows)
      BY <1>1, <1>2, <1>4, <3>1 DEF ExecutedOnce
    <3>2. CASE i = Len(rows) + 1
      BY <1>1, <1>2, <1>3, <1>4, <3>2
    <3> QED BY <1>4, <3>1, <3>2
  <2> QED BY <2>1, <2>2 DEF ExecutedOnce
<1>9. config' \notin {Missing, Cut} /\ at' \in Nat \ {0}
  BY <1>1, <1>2, SweepAssumption
<1> QED BY <1>1, <1>2, <1>4, <1>7, <1>8, <1>9 DEF SweepInv, Running, R

(* Every step keeps the invariant. *)
LEMMA StepKeepsSweepInv ==
    ASSUME SweepInv, [Next]_vars PROVE SweepInv'
<1>0. /\ at \in Nat \ {0} /\ ExecutedOnce
  BY DEF SweepInv
<1>1. ASSUME NEW resume \in BOOLEAN, NEW s \in Settings, Start(resume, s)
      PROVE  SweepInv'
  <2>1. /\ pc = "off" /\ rows' = rows /\ at' = 1 /\ setting' = s
    BY <1>1 DEF Start
  <2>2. CASE config = Missing /\ config' = Cut /\ pc' = "freeze"
    <3>1. rows = <<>>
      BY <2>2 DEF SweepInv
    <3>2. DOMAIN rows' = {}
      BY <2>1, <3>1
    <3> QED BY <2>1, <2>2, <3>1, <3>2 DEF SweepInv, ExecutedOnce, Running
  <2>3. CASE Resumes(resume, s) /\ done' = Executed(rows) /\ pc' = "loop"
             /\ config' = config
    <3>1. config = s
      BY <2>3 DEF Resumes
    <3>2. ExecutedOnce'
      BY <1>0, <2>1, <2>3 DEF ExecutedOnce
    <3> QED BY <2>1, <2>3, <3>1, <3>2 DEF SweepInv, Running
  <2>4. CASE UNCHANGED <<config, pc, done>>
    <3>1. ExecutedOnce'
      BY <1>0, <2>1, <2>4 DEF ExecutedOnce
    <3> QED BY <2>1, <2>4, <3>1 DEF SweepInv, Running
  <2> QED BY <1>1, <2>2, <2>3, <2>4 DEF Start
<1>2. CASE Freeze
  <2>1. /\ pc = "freeze" /\ pc' = "loop" /\ config' = setting /\ config = Cut
        /\ UNCHANGED <<rows, setting, done, at>>
    BY <1>2 DEF Freeze, SweepInv
  <2>2. rows = <<>> /\ DOMAIN rows = {} /\ Range(rows) = {}
    BY <2>1 DEF SweepInv, Range
  <2>3. Executed(rows) = {}
    BY <2>2 DEF Executed
  <2> QED BY <2>1, <2>2, <2>3 DEF SweepInv, ExecutedOnce, Running
<1>3. CASE NextCase
  <2>1. /\ pc = "loop" /\ UNCHANGED <<rows, config, setting, done>>
    BY <1>3 DEF NextCase, fileVars
  <2>2. CASE pc' = "report" /\ at' = at
    <3>1. ExecutedOnce'
      BY <1>0, <2>1 DEF ExecutedOnce
    <3> QED BY <2>1, <2>2, <3>1 DEF SweepInv, Running
  <2>3. ASSUME NEW i \in Remaining, pc' = "case", at' = i PROVE SweepInv'
    <3>1. DOMAIN Tasks = 1 .. Len(Tasks) /\ Len(Tasks) \in Nat
      BY SweepAssumption
    <3>2. /\ i \in at .. Len(Tasks) /\ Tasks[i] \notin done
          /\ i \in Nat \ {0} /\ i \in DOMAIN Tasks /\ at <= i
      BY <1>0, <2>3, <3>1 DEF Remaining
    <3>3. Passed \subseteq Passed'
      BY <1>0, <2>3, <3>2 DEF Passed
    <3>4. ExecutedOnce'
      BY <1>0, <2>1 DEF ExecutedOnce
    <3> QED BY <2>1, <2>3, <3>2, <3>3, <3>4 DEF SweepInv, Running
  <2> QED BY <1>3, <2>2, <2>3 DEF NextCase
<1>4. CASE UNCHANGED <<rows, config, setting, done, at>> /\ pc' \in {pc, "off"}
  <2>1. ExecutedOnce' /\ Passed' = Passed
    BY <1>0, <1>4 DEF ExecutedOnce, Passed
  <2> QED BY <1>4, <2>1 DEF SweepInv, Running
<1>5. ASSUME NEW a \in Answer, CallGranted(a) PROVE SweepInv'
  BY <1>4, <1>5 DEF CallGranted
<1>6. ASSUME NEW tooLong \in BOOLEAN, CallRefused(tooLong) PROVE SweepInv'
  BY <1>4, <1>6 DEF CallRefused
<1>7. CASE BeginRow
  <2>1. ExecutedOnce' /\ Passed' = Passed
    BY <1>0, <1>7 DEF BeginRow, ExecutedOnce, Passed
  <2> QED BY <1>7, <2>1 DEF BeginRow, SweepInv, Running
<1>8. CASE FinishRow
  BY <1>8, FinishRowKeeps
<1>9. CASE WriteReport
  BY <1>4, <1>9 DEF WriteReport
<1>10. CASE Die
  BY <1>4, <1>10 DEF Die, fileVars
<1>11. CASE UNCHANGED vars
  BY <1>4, <1>11 DEF vars, fileVars
<1> QED BY <1>1, <1>2, <1>3, <1>5, <1>6, <1>7, <1>8, <1>9, <1>10, <1>11 DEF Next

(* SweepInv holds of every reachable state. *)
LEMMA SweepInvHolds == Spec => []SweepInv
<1>1. Init => SweepInv
  <2> SUFFICES ASSUME Init PROVE SweepInv OBVIOUS
  <2>1. DOMAIN rows = {} /\ rows = <<>>
    BY DEF Init
  <2> QED BY <2>1 DEF Init, SweepInv, ExecutedOnce, Running
<1> QED BY <1>1, StepKeepsSweepInv, PTL DEF Spec

(* Every step keeps the types: the loop never passes the end of the suite. *)
LEMMA TypeStep ==
    ASSUME TypeOK, SweepInv, [Next]_vars
    PROVE  TypeOK'
<1> USE DEF TypeOK, fileVars, caseVars
<1>0. /\ DOMAIN Tasks = 1 .. Len(Tasks) /\ Len(Tasks) \in Nat
      /\ AttemptCap \in Nat /\ MaxCalls \in Nat
  BY SweepAssumption
<1>1. ASSUME NEW resume \in BOOLEAN, NEW s \in Settings, Start(resume, s)
      PROVE  TypeOK'
  <2>1. \A i \in DOMAIN rows : rows[i].task \in Suite
    <3>1. \A i \in DOMAIN rows : rows[i] \in Row
      OBVIOUS
    <3> QED BY <3>1 DEF Row
  <2>2. Executed(rows) \subseteq Suite
    BY <2>1 DEF Executed, Range
  <2>3. 1 \in 1 .. Len(Tasks) + 1
    BY <1>0
  <2> QED BY <1>1, <2>2, <2>3 DEF Start
<1>2. CASE Freeze
  BY <1>2 DEF Freeze
<1>3. CASE NextCase
  <2>1. Remaining \subseteq 1 .. Len(Tasks) + 1
    BY <1>0 DEF Remaining
  <2>2. at' \in 1 .. Len(Tasks) + 1 /\ calls' \in 0 .. MaxCalls
        /\ refusedBefore' \in Nat /\ pc' \in {"report", "case"}
    BY <1>0, <1>3, <2>1 DEF NextCase
  <2> QED BY <1>3, <2>2 DEF NextCase
<1>4. ASSUME NEW a \in Answer, CallGranted(a) PROVE TypeOK'
  <2>1. PICK overrun \in BOOLEAN :
          ledger' = [ledger EXCEPT !.attempts = @ + 1, !.exhausted = overrun]
    BY <1>4 DEF CallGranted, Answer
  <2>2. ledger.attempts + 1 \in 0 .. AttemptCap /\ calls' \in 0 .. MaxCalls
    BY <1>0, <1>4 DEF CallGranted
  <2>3. ledger' \in [attempts: 0 .. AttemptCap, refused: Nat,
                     exhausted: BOOLEAN]
    BY <2>1, <2>2
  <2>4. limitReached' \in BOOLEAN
    BY <1>4 DEF CallGranted
  <2> QED BY <1>4, <2>2, <2>3, <2>4 DEF CallGranted
<1>5. ASSUME NEW tooLong \in BOOLEAN, CallRefused(tooLong) PROVE TypeOK'
  <2>1. PICK stopped \in BOOLEAN :
          ledger' = [ledger EXCEPT !.refused = @ + 1, !.exhausted = stopped]
    BY <1>5 DEF CallRefused
  <2>2. ledger.refused + 1 \in Nat
    OBVIOUS
  <2>4. ledger' \in [attempts: 0 .. AttemptCap, refused: Nat,
                     exhausted: BOOLEAN]
    BY <2>1, <2>2
  <2>3. calls' \in 0 .. MaxCalls
    BY <1>0, <1>5 DEF CallRefused
  <2> QED BY <1>5, <2>3, <2>4 DEF CallRefused
<1>6. CASE BeginRow
  BY <1>6 DEF BeginRow
<1>7. CASE FinishRow
  <2> DEFINE r == [task |-> Tasks[at], execution |-> Execution,
                   setting |-> setting]
  <2>1. /\ at \in DOMAIN Tasks /\ pc' = "loop" /\ torn' = FALSE /\ at' = at + 1
        /\ rows' = Append(rows, r)
        /\ UNCHANGED <<config, ledger, report, setting, done, limitReached,
                       caseVars, starts>>
    BY <1>7 DEF FinishRow, SweepInv
  <2>2. r \in Row
    BY <2>1 DEF Row, Suite, Range, Execution, Executions, RERUN
  <2> HIDE DEF r
  <2>3. rows' \in Seq(Row)
    BY <2>1, <2>2, RowAdded
  <2>4. at' \in 1 .. Len(Tasks) + 1
    BY <1>0, <2>1
  <2> QED BY <2>1, <2>3, <2>4
<1>8. CASE WriteReport
  <2> DEFINE kept == {i \in Latest : IsExecuted(rows[i])}
             executed == {rows[i].task : i \in kept}
  <2>1. /\ pc' = "off"
        /\ report' = [executed |-> executed, gaps |-> Suite \ executed,
                      reason |-> GapReason, summarized |-> kept,
                      lines |-> Len(rows)]
        /\ UNCHANGED <<config, rows, torn, ledger, setting, done, at,
                       limitReached, caseVars, starts>>
    BY <1>8 DEF WriteReport
  <2>2. executed \subseteq Suite
    <3>1. \A i \in DOMAIN rows : rows[i].task \in Suite
      <4>1. \A i \in DOMAIN rows : rows[i] \in Row
        OBVIOUS
      <4> QED BY <4>1 DEF Row
    <3>2. kept \subseteq DOMAIN rows
      BY DEF Latest
    <3> QED BY <3>1, <3>2
  <2> HIDE DEF kept, executed
  <2>3. /\ report'.executed \subseteq Suite /\ report'.gaps \subseteq Suite
        /\ report'.reason \in Gap
    BY <2>1, <2>2 DEF GapReason, Gap
  <2> QED BY <2>1, <2>3
<1>9. CASE Die
  BY <1>9 DEF Die
<1>10. CASE UNCHANGED vars
  BY <1>10 DEF vars
<1> QED BY <1>1, <1>2, <1>3, <1>4, <1>5, <1>6, <1>7, <1>8, <1>9, <1>10 DEF Next

(* The files and the process keep their forms: neither the suite nor a cap   *)
(* is ever passed.                                                           *)
THEOREM TypeCorrect == Spec => []TypeOK
<1>1. Init => TypeOK
  <2>1. /\ DOMAIN Tasks = 1 .. Len(Tasks) /\ Len(Tasks) \in Nat
        /\ AttemptCap \in Nat /\ MaxCalls \in Nat
    BY SweepAssumption
  <2> SUFFICES ASSUME Init PROVE TypeOK
    OBVIOUS
  <2>3. ledger \in [attempts: 0 .. AttemptCap, refused: Nat, exhausted: BOOLEAN]
    BY <2>1 DEF Init
  <2>4. /\ report.executed = {} /\ report.gaps = {}
        /\ report.reason = "not_reached"
    BY DEF Init, NoReport
  <2>5. at \in 1 .. Len(Tasks) + 1 /\ calls \in 0 .. MaxCalls /\ rows \in Seq(Row)
    BY <2>1 DEF Init
  <2> QED BY <2>3, <2>4, <2>5 DEF Init, TypeOK, Gap
<1> QED BY <1>1, TypeStep, SweepInvHolds, PTL DEF Spec

(* No case is executed twice, and all rows are of one configuration. *)
THEOREM ExecutesOnce == Spec => []ExecutedOnce
<1>1. SweepInv => ExecutedOnce
  BY DEF SweepInv
<1> QED BY <1>1, SweepInvHolds, PTL

-------------------------------------------------------------------------------
(* What the loop has passed was executed, unless the process is stopped: the *)
(* cases it stops at get rows too, of cases that were not executed.          *)
ReachInv ==
    /\ pc = "freeze" => done = {} /\ at = 1
    /\ pc \in Running => done \subseteq Executed(rows)
    /\ pc \in {"loop", "case", "row"} => Stopped \/ Passed \subseteq Executed(rows)
    /\ pc = "report" => Stopped \/ Suite \subseteq Executed(rows)

(* What a report tells of the first lines of the predictions, for good. *)
Told ==
    /\ report.lines \in 0 .. Len(rows)
    /\ report.summarized = {k \in 1 .. report.lines : IsExecuted(rows[k])}
    /\ report.executed = {rows[i].task : i \in report.summarized}
    /\ report.gaps = Suite \ report.executed
    /\ report.gaps # {} => report.reason # "not_reached"

ReportInv == report = NoReport \/ Told

(* A row that is written leaves the rows before it executed. *)
LEMMA RowsRemain ==
    ASSUME NEW R, NEW s \in Seq(R), NEW r \in R
    PROVE  /\ Executed(s) \subseteq Executed(Append(s, r))
           /\ IsExecuted(r) => r.task \in Executed(Append(s, r))
<1>1. /\ Len(s) \in Nat /\ DOMAIN s = 1 .. Len(s)
      /\ DOMAIN Append(s, r) = 1 .. Len(s) + 1
      /\ \A i \in 1 .. Len(s) : Append(s, r)[i] = s[i]
      /\ Append(s, r)[Len(s) + 1] = r
  BY RowAdded
<1>2. ASSUME NEW x \in Range(s) PROVE x \in Range(Append(s, r))
  <2>1. PICK i \in DOMAIN s : x = s[i]
    BY <1>2 DEF Range
  <2>2. i \in DOMAIN Append(s, r) /\ x = Append(s, r)[i]
    BY <1>1, <2>1
  <2> QED BY <2>2 DEF Range
<1>3. r \in Range(Append(s, r))
  <2>1. Len(s) + 1 \in DOMAIN Append(s, r)
    BY <1>1
  <2> QED BY <1>1, <2>1 DEF Range
<1> QED BY <1>2, <1>3 DEF Executed

(* The row of a case that ended without a stop is one of an executed case. *)
LEMMA FinishRowReaches ==
    ASSUME SweepInv, ReachInv, FinishRow
    PROVE  ReachInv'
<1> DEFINE R == [task: Range(Tasks), execution: Executions, setting: Settings]
           r == [task |-> Tasks[at], execution |-> Execution, setting |-> setting]
<1>1. /\ pc = "row" /\ pc' = "loop" /\ at' = at + 1 /\ rows' = Append(rows, r)
      /\ UNCHANGED <<ledger, done, limitReached>>
  BY DEF FinishRow
<1>2. /\ rows \in Seq(R) /\ at \in Nat \ {0} /\ at \in DOMAIN Tasks
      /\ setting \in Settings
  BY <1>1 DEF SweepInv
<1>3. r \in R /\ r.task = Tasks[at] /\ r.execution = Execution
  BY <1>2 DEF Range, Execution, Executions, RERUN
<1>4. Stopped \/ IsExecuted(r)
  BY <1>3 DEF IsExecuted, Stopped, Execution, RERUN
<1> HIDE DEF r, R
<1>5. /\ Executed(rows) \subseteq Executed(rows')
      /\ IsExecuted(r) => Tasks[at] \in Executed(rows')
  BY <1>1, <1>2, <1>3, RowsRemain
<1>6. Passed' = Passed \cup {Tasks[at]}
  <2>1. 1 .. at' - 1 = (1 .. at - 1) \cup {at}
    BY <1>1, <1>2
  <2> QED BY <2>1 DEF Passed
<1>7. Stopped' = Stopped
  BY <1>1 DEF Stopped
<1>8. done \subseteq Executed(rows) /\ (Stopped \/ Passed \subseteq Executed(rows))
  BY <1>1 DEF ReachInv, Running
<1> QED BY <1>1, <1>4, <1>5, <1>6, <1>7, <1>8 DEF ReachInv, Running

(* Every step keeps what the loop has reached. *)
LEMMA StepReaches ==
    ASSUME TypeOK, SweepInv, ReachInv, [Next]_vars
    PROVE  ReachInv'
<1>0. at \in Nat \ {0}
      /\ ledger \in [attempts: 0 .. AttemptCap, refused: Nat, exhausted: BOOLEAN]
  BY DEF SweepInv, TypeOK
<1>1. ASSUME NEW resume \in BOOLEAN, NEW s \in Settings, Start(resume, s)
      PROVE  ReachInv'
  <2>1. pc = "off" /\ at' = 1 /\ rows' = rows
    BY <1>1 DEF Start
  <2>2. Passed' = {}
    BY <2>1 DEF Passed
  <2>3. \/ pc' = "freeze" /\ done' = {}
        \/ pc' = "loop" /\ done' = Executed(rows)
        \/ pc' = pc
    BY <1>1 DEF Start
  <2> QED BY <2>1, <2>2, <2>3 DEF ReachInv, Running
<1>2. CASE Freeze
  <2>1. pc = "freeze" /\ pc' = "loop" /\ UNCHANGED <<done, at>>
    BY <1>2 DEF Freeze
  <2>2. done' = {} /\ Passed' = {}
    BY <2>1 DEF ReachInv, Passed
  <2> QED BY <2>1, <2>2 DEF ReachInv, Running
<1>3. CASE NextCase
  <2>1. /\ pc = "loop" /\ UNCHANGED <<rows, ledger, done, limitReached>>
    BY <1>3 DEF NextCase, fileVars
  <2>2. /\ done \subseteq Executed(rows)
        /\ Stopped \/ Passed \subseteq Executed(rows)
    BY <2>1 DEF ReachInv, Running
  <2>3. Stopped' = Stopped
    BY <2>1 DEF Stopped
  <2>4. DOMAIN Tasks = 1 .. Len(Tasks) /\ Len(Tasks) \in Nat
    BY SweepAssumption
  <2>5. CASE pc' = "report" /\ (Remaining = {} \/ Stopped)
    <3>1. ASSUME Remaining = {}, ~ Stopped, NEW t \in Suite
          PROVE  t \in Executed(rows)
      <4>1. PICK i \in DOMAIN Tasks : t = Tasks[i]
        BY DEF Suite, Range
      <4>2. CASE i < at
        <5>1. i \in 1 .. at - 1
          BY <1>0, <2>4, <4>2
        <5> QED BY <2>2, <3>1, <4>1, <5>1 DEF Passed
      <4>3. CASE ~ (i < at)
        <5>1. i \in at .. Len(Tasks)
          BY <1>0, <2>4, <4>3
        <5>2. Tasks[i] \in done
          BY <3>1, <5>1 DEF Remaining
        <5> QED BY <2>2, <4>1, <5>2
      <4> QED BY <4>2, <4>3
    <3>2. Stopped \/ Suite \subseteq Executed(rows)
      BY <2>5, <3>1
    <3> QED BY <2>1, <2>2, <2>3, <2>5, <3>2 DEF ReachInv, Running
  <2>6. ASSUME NEW i \in Remaining, \A j \in Remaining : i <= j,
               at' = i, pc' = "case"
        PROVE  ReachInv'
    <3>1. i \in Nat /\ i <= Len(Tasks) /\ at <= i
      BY <1>0, <2>4 DEF Remaining
    <3>2. ASSUME NEW j \in 1 .. i - 1 PROVE Tasks[j] \in done \cup Passed
      <4>1. CASE j < at
        <5>1. j \in 1 .. at - 1
          BY <1>0, <3>1, <4>1
        <5> QED BY <5>1 DEF Passed
      <4>2. CASE ~ (j < at)
        <5>1. j \in at .. Len(Tasks) /\ ~ (i <= j)
          BY <1>0, <2>4, <3>1, <4>2
        <5>2. j \notin Remaining
          BY <2>6, <5>1
        <5> QED BY <5>1, <5>2 DEF Remaining
      <4> QED BY <4>1, <4>2
    <3>3. Passed' \subseteq done \cup Passed
      BY <2>6, <3>2 DEF Passed
    <3> QED BY <2>1, <2>2, <2>3, <2>6, <3>3 DEF ReachInv, Running
  <2> QED BY <1>3, <2>5, <2>6 DEF NextCase
<1>4. ASSUME UNCHANGED <<rows, done, at>>, Stopped => Stopped',
             pc' \in {pc, "off"} \/ (pc = "case" /\ pc' = "row")
      PROVE  ReachInv'
  <2>1. Passed' = Passed
    BY <1>4 DEF Passed
  <2> QED BY <1>4, <2>1 DEF ReachInv, Running
<1>5. ASSUME NEW a \in Answer, CallGranted(a) PROVE ReachInv'
  <2>1. UNCHANGED <<rows, done, at, pc>>
    BY <1>5 DEF CallGranted
  <2>2. ~ ledger.exhausted /\ (limitReached => limitReached')
    BY <1>5, Zenon DEF CallGranted
  <2>3. Stopped => Stopped'
    BY <2>2, Zenon DEF Stopped
  <2>4. UNCHANGED <<rows, done, at>> /\ pc' \in {pc, "off"}
    BY <2>1
  <2> QED BY <1>4, <2>3, <2>4, Zenon
<1>6. ASSUME NEW tooLong \in BOOLEAN, CallRefused(tooLong) PROVE ReachInv'
  <2>1. UNCHANGED <<rows, done, at, pc, limitReached>>
    BY <1>6 DEF CallRefused
  <2>2. ledger'.exhausted = (ledger.exhausted \/ ~ tooLong)
    BY <1>0, <1>6 DEF CallRefused
  <2>3. Stopped => Stopped'
    BY <2>1, <2>2, Zenon DEF Stopped
  <2>4. UNCHANGED <<rows, done, at>> /\ pc' \in {pc, "off"}
    BY <2>1
  <2> QED BY <1>4, <2>3, <2>4, Zenon
<1>7. CASE BeginRow
  BY <1>4, <1>7 DEF BeginRow, Stopped
<1>8. CASE FinishRow
  BY <1>8, FinishRowReaches
<1>9. CASE WriteReport \/ Die \/ UNCHANGED vars
  <2>1. UNCHANGED <<rows, done, at, ledger, limitReached>> /\ pc' \in {pc, "off"}
    BY <1>9 DEF WriteReport, Die, vars, fileVars
  <2>2. Stopped => Stopped'
    BY <2>1 DEF Stopped
  <2>3. UNCHANGED <<rows, done, at>> /\ pc' \in {pc, "off"}
    BY <2>1
  <2> QED BY <1>4, <2>2, <2>3, Zenon
<1> QED BY <1>1, <1>2, <1>3, <1>5, <1>6, <1>7, <1>8, <1>9 DEF Next

(* A report written at the end of the loop tells what is in the rows. *)
LEMMA ReportTold ==
    ASSUME SweepInv, ReachInv, WriteReport
    PROVE  Told'
<1> DEFINE kept == {i \in Latest : IsExecuted(rows[i])}
           executed == {rows[i].task : i \in kept}
<1>1. /\ pc = "report" /\ rows' = rows
      /\ report' = [executed |-> executed, gaps |-> Suite \ executed,
                    reason |-> GapReason, summarized |-> kept,
                    lines |-> Len(rows)]
  BY DEF WriteReport
<1>2. Len(rows) \in Nat /\ DOMAIN rows = 1 .. Len(rows) /\ ExecutedOnce
  BY DEF SweepInv
<1>3. kept = {k \in 1 .. Len(rows) : IsExecuted(rows[k])}
  <2>1. ASSUME NEW k \in 1 .. Len(rows), IsExecuted(rows[k]) PROVE k \in Latest
    <3>1. ASSUME NEW j \in k + 1 .. Len(rows) PROVE rows[j].task # rows[k].task
      <4>1. j \in DOMAIN rows /\ k \in DOMAIN rows /\ k < j
        BY <1>2
      <4> QED BY <1>2, <2>1, <4>1 DEF ExecutedOnce
    <3> QED BY <1>2, <3>1 DEF Latest
  <2> QED BY <1>2, <2>1 DEF Latest
<1>4. executed = Executed(rows)
  <2>1. ASSUME NEW t \in Executed(rows) PROVE t \in executed
    <3>1. PICK i \in DOMAIN rows : IsExecuted(rows[i]) /\ t = rows[i].task
      BY DEF Executed, Range
    <3> QED BY <1>2, <1>3, <3>1
  <2>2. ASSUME NEW t \in executed PROVE t \in Executed(rows)
    BY <1>2, <1>3, <2>2, RowIsExecuted
  <2> QED BY <2>1, <2>2
<1>5. Suite \ executed # {} => GapReason # "not_reached"
  BY <1>1, <1>4 DEF ReachInv, GapReason, Stopped
<1> HIDE DEF kept, executed
<1>6. /\ report'.lines = Len(rows) /\ report'.summarized = kept
      /\ report'.executed = executed /\ report'.gaps = Suite \ executed
      /\ report'.reason = GapReason
  BY <1>1
<1>7. Len(rows) \in 0 .. Len(rows)
  BY <1>2
<1> QED BY <1>1, <1>3, <1>5, <1>6, <1>7 DEF Told, executed

(* A report stays true of the rows it was written from. *)
LEMMA ReportStaysTold ==
    ASSUME SweepInv, ReachInv, ReportInv, [Next]_vars
    PROVE  ReportInv'
<1>1. CASE WriteReport
  BY <1>1, ReportTold DEF ReportInv
<1>2. CASE FinishRow
  <2> DEFINE R == [task: Range(Tasks), execution: Executions, setting: Settings]
             r == [task |-> Tasks[at], execution |-> Execution,
                   setting |-> setting]
  <2>1. report' = report /\ rows' = Append(rows, r)
    BY <1>2 DEF FinishRow
  <2>2. rows \in Seq(R) /\ r \in R
    BY <1>2 DEF FinishRow, SweepInv, Range, Execution, Executions, RERUN
  <2> HIDE DEF r, R
  <2>3. /\ Len(rows) \in Nat /\ rows' \in Seq(R)
        /\ Len(rows') = Len(rows) + 1
        /\ \A i \in 1 .. Len(rows) : rows'[i] = rows[i]
    BY <2>1, <2>2, AppendProperties
  <2>4. CASE Told
    <3>1. report.lines \in 0 .. Len(rows') /\ report.lines \in 0 .. Len(rows)
      BY <2>3, <2>4 DEF Told
    <3>2. \A k \in 1 .. report.lines : rows'[k] = rows[k]
      BY <2>3, <3>1
    <3>3. report.summarized = {k \in 1 .. report.lines : IsExecuted(rows'[k])}
      BY <2>4, <3>2 DEF Told
    <3>4. {rows'[i].task : i \in report.summarized}
            = {rows[i].task : i \in report.summarized}
      BY <3>2, <3>3
    <3> QED BY <2>1, <2>4, <3>1, <3>3, <3>4 DEF Told, ReportInv
  <2> QED BY <2>1, <2>4 DEF ReportInv
<1>3. CASE UNCHANGED <<report, rows>>
  BY <1>3 DEF ReportInv, Told
<1> QED BY <1>1, <1>2, <1>3
        DEF Next, Start, Freeze, NextCase, CallGranted, CallRefused, BeginRow,
            Die, fileVars, vars

(* Rows of distinct executed cases are as many as the cases. *)
LEMMA OneRowEach ==
    ASSUME ExecutedOnce, rows \in Seq(Range(rows)), Told
    PROVE  Cardinality(report.summarized) = Cardinality(report.executed)
<1> DEFINE S == report.summarized
           T == report.executed
           F == [i \in S |-> rows[i].task]
<1>1. /\ Len(rows) \in Nat /\ DOMAIN rows = 1 .. Len(rows)
      /\ report.lines \in 0 .. Len(rows)
      /\ S = {k \in 1 .. report.lines : IsExecuted(rows[k])}
      /\ T = {rows[i].task : i \in S}
  BY DEF Told
<1>2. S \subseteq 1 .. report.lines /\ S \subseteq DOMAIN rows
      /\ S \subseteq Nat
  BY <1>1
<1>3. IsFiniteSet(S)
  <2>1. report.lines \in Int /\ 1 \in Int
    BY <1>1
  <2>2. IsFiniteSet(1 .. report.lines)
    BY <2>1, FS_Interval
  <2> QED BY <1>2, <2>2, FS_Subset
<1>4. ASSUME NEW i \in S, NEW j \in S, F[i] = F[j] PROVE i = j
  <2>1. rows[i].task = rows[j].task /\ IsExecuted(rows[i]) /\ IsExecuted(rows[j])
    BY <1>1, <1>4
  <2>2. ~ (i < j) /\ ~ (j < i)
    BY <1>2, <2>1 DEF ExecutedOnce
  <2> QED BY <1>2, <2>2
<1>5. F \in [S -> T] /\ \A t \in T : \E i \in S : F[i] = t
  BY <1>1
<1> HIDE DEF S, T, F
<1>6. F \in Bijection(S, T)
  BY <1>4, <1>5, Fun_IsBij
<1>7. Cardinality(T) = Cardinality(S)
  BY <1>3, <1>6, FS_Bijection DEF ExistsBijection
<1> QED BY <1>7 DEF S, T

(* Whatever died before it, a report accounts for the whole suite: every     *)
(* executed row and no other, one of each case, and a reason for the rest.   *)
THEOREM ReportsComplete == Spec => []ReportsAreComplete
<1>1. Init => ReachInv /\ ReportInv
  BY DEF Init, ReachInv, Running, ReportInv
<1>2. SweepInv /\ ReportInv => ReportsAreComplete
  <2> SUFFICES ASSUME SweepInv, Told PROVE ReportsAreComplete
    BY DEF ReportInv, ReportsAreComplete
  <2>1. ExecutedOnce /\ rows \in Seq(Range(rows))
    <3>1. rows \in Seq([task: Range(Tasks), execution: Executions,
                        setting: Settings])
      BY DEF SweepInv
    <3>2. Len(rows) \in Nat /\ rows \in [1 .. Len(rows) -> Range(rows)]
      BY <3>1 DEF Range
    <3>3. rows \in Seq(Range(rows))
      BY <3>2
    <3> QED BY <3>3 DEF SweepInv
  <2>2. Cardinality(report.summarized) = Cardinality(report.executed)
    BY <2>1, OneRowEach
  <2> QED BY <2>2 DEF Told, ReportsAreComplete
<1> QED BY <1>1, <1>2, StepReaches, ReportStaysTold, SweepInvHolds,
        TypeCorrect, PTL DEF Spec

-----------------------------------------------------------------------------
(***************************************************************************)
(* The corpus on disk.                                                     *)
(*                                                                         *)
(* What is proved inductive: the chunks on disk, and those on their way    *)
(* there, are of the sources the manifest names; and an index whose        *)
(* fingerprint is that of the chunks there are holds their vectors, unless *)
(* a build died behind its vectors.                                        *)
(***************************************************************************)

Entry == [source: Sources, retired: BOOLEAN]

ManifestInv ==
    /\ \E n \in Nat : DOMAIN documents = 1 .. n
    /\ \A id \in DOMAIN documents : documents[id] \in Entry

OfManifest(content) ==
    \A id \in DOMAIN content :
      id \in DOMAIN documents /\ documents[id].source = content[id].source

DocsLine(d) == [file |-> "docs", of |-> d]
ChunksLine(c) == [file |-> "chunks", of |-> c]
MetaLine(corpus) == [file |-> "meta", of |-> [ids |-> DOMAIN chunks, corpus |-> corpus]]

Built == chunks # None /\ vectors = chunks
HalfBuilt == writing = <<MetaLine(None), MetaLine(chunks)>>

(* What a process may have left to write. *)
WritingInv ==
    \/ writing = <<>>
    \/ \E d, c : writing = <<DocsLine(d), ChunksLine(c)>> /\ OfManifest(c)
    \/ \E c : writing = <<ChunksLine(c)>> /\ OfManifest(c)
    \/ /\ writing = <<[file |-> "vectors", of |-> chunks], MetaLine(None), MetaLine(chunks)>>
       /\ chunks # None
    \/ HalfBuilt /\ Built
    \/ writing = <<MetaLine(chunks)>> /\ Built /\ meta.corpus = None

IndexInv ==
    /\ vectors # None /\ meta # None /\ meta.corpus # None
    /\ ~ tornBuild /\ ~ HalfBuilt
    => vectors = meta.corpus

CorpusInv ==
    /\ ManifestInv /\ WritingInv /\ IndexInv
    /\ chunks # None => OfManifest(chunks)

(* A new entry is the next number. *)
LEMMA NextIdIsNew ==
    ASSUME NEW n \in Nat, DOMAIN documents = 1 .. n
    PROVE  Disk!NextId = n + 1
<1>1. Disk!Max({0} \cup 1 .. n) = n
  <2>1. n \in {0} \cup 1 .. n /\ \A y \in {0} \cup 1 .. n : n >= y
      OBVIOUS
  <2>2. \A x \in {0} \cup 1 .. n : (\A y \in {0} \cup 1 .. n : x >= y) => x = n
      OBVIOUS
  <2> QED BY <2>1, <2>2 DEF Disk!Max
<1> QED BY <1>1 DEF Disk!NextId

(* Nothing is on disk. *)
LEMMA CorpusInit == Disk!Init => CorpusInv
<1> SUFFICES ASSUME Disk!Init PROVE CorpusInv
    OBVIOUS
<1>1. DOMAIN documents = 1 .. 0
    BY DEF Disk!Init
<1>2. ManifestInv
  <2>1. 0 \in Nat /\ \A id \in DOMAIN documents : FALSE
      BY <1>1
  <2> QED BY <1>1, <2>1 DEF ManifestInv
<1> QED BY <1>2 DEF Disk!Init, CorpusInv, WritingInv, IndexInv

(* What concerns the manifest keeps its entries' sources. *)
LEMMA ManifestGrows ==
    ASSUME CorpusInv, UNCHANGED <<chunks, vectors, meta, writing, tornBuild>>, ManifestInv',
           \A id \in DOMAIN documents :
             id \in DOMAIN documents' /\ documents'[id].source = documents[id].source
    PROVE  CorpusInv'
<1>1. \A c : OfManifest(c) => OfManifest(c)'
    BY DEF OfManifest
<1>2. WritingInv'
    BY <1>1 DEF CorpusInv, WritingInv, HalfBuilt, Built, MetaLine
<1>3. chunks' # None => OfManifest(chunks)'
    BY DEF CorpusInv, OfManifest
<1>4. IndexInv'
    BY DEF CorpusInv, IndexInv, HalfBuilt, MetaLine
<1> QED BY <1>2, <1>3, <1>4 DEF CorpusInv

(* A source is registered under a new id. *)
LEMMA CorpusAdd ==
    ASSUME CorpusInv, NEW new \in Sources, Disk!Add(new)
    PROVE  CorpusInv'
<1>1. PICK n \in Nat : DOMAIN documents = 1 .. n
    BY DEF CorpusInv, ManifestInv
<1>2. Disk!NextId = n + 1
    BY <1>1, NextIdIsNew
<1>3. /\ documents' = [id \in 1 .. n \cup {n + 1} |->
                         IF id = n + 1 THEN [source |-> new, retired |-> FALSE]
                         ELSE documents[id]]
      /\ UNCHANGED <<chunks, vectors, meta, writing, tornBuild>>
    BY <1>1, <1>2 DEF Disk!Add, Disk!storeVars, Disk!indexVars
<1>4. DOMAIN documents' = 1 .. n + 1
    BY <1>3
<1>5. \A id \in 1 .. n : id # n + 1 /\ documents'[id] = documents[id]
    BY <1>3
<1>6. documents'[n + 1] = [source |-> new, retired |-> FALSE]
    BY <1>3
<1>7. ManifestInv'
  <2>1. \A id \in 1 .. n + 1 : documents'[id] \in Entry
    <3>1. \A id \in 1 .. n + 1 : id \in 1 .. n \/ id = n + 1
        OBVIOUS
    <3>2. \A id \in 1 .. n : documents[id] \in Entry
        BY <1>1 DEF CorpusInv, ManifestInv
    <3>3. documents'[n + 1] \in Entry
        BY <1>6 DEF Entry
    <3> QED BY <1>5, <3>1, <3>2, <3>3
  <2>2. n + 1 \in Nat
      OBVIOUS
  <2> QED BY <1>4, <2>1, <2>2 DEF ManifestInv
<1>8. \A id \in DOMAIN documents :
        id \in DOMAIN documents' /\ documents'[id].source = documents[id].source
    BY <1>1, <1>4, <1>5
<1> QED BY <1>3, <1>7, <1>8, ManifestGrows

(* An entry keeps its source when it is retired. *)
LEMMA CorpusRetire ==
    ASSUME CorpusInv, NEW i \in DOMAIN documents, Disk!Retire(i)
    PROVE  CorpusInv'
<1>1. /\ documents' = [documents EXCEPT ![i].retired = TRUE]
      /\ UNCHANGED <<chunks, vectors, meta, writing, tornBuild>>
    BY DEF Disk!Retire, Disk!storeVars, Disk!indexVars
<1>2. \A id \in DOMAIN documents : documents[id] \in Entry
    BY DEF CorpusInv, ManifestInv
<1>3. DOMAIN documents' = DOMAIN documents
    BY <1>1
<1>4. \A id \in DOMAIN documents :
        documents'[id] \in Entry /\ documents'[id].source = documents[id].source
    BY <1>1, <1>2 DEF Entry
<1>5. ManifestInv'
    BY <1>3, <1>4 DEF CorpusInv, ManifestInv
<1> QED BY <1>1, <1>3, <1>4, <1>5, ManifestGrows

(* An ingestion is going to write chunks of the manifest. *)
LEMMA CorpusIngest ==
    ASSUME CorpusInv, NEW limit, NEW bad, Disk!Ingest(limit, bad)
    PROVE  CorpusInv'
<1>0. PICK d : d = Disk!UpTo(Disk!Active, limit) \ bad
    OBVIOUS
<1>c. PICK c : c = [id \in d |-> [source |-> documents[id].source, edition |-> edition]]
    OBVIOUS
<1>1. /\ writing = <<>> /\ writing' = <<DocsLine(d), ChunksLine(c)>>
      /\ UNCHANGED <<documents, chunks, vectors, meta, tornBuild>>
    BY <1>0, <1>c DEF Disk!Ingest, DocsLine, ChunksLine, Disk!storeVars, Disk!indexVars
<1>2. d \subseteq DOMAIN documents
    BY <1>0 DEF Disk!UpTo, Disk!Active
<1>3. OfManifest(c)'
    BY <1>c, <1>1, <1>2 DEF OfManifest
<1>4. WritingInv'
    BY <1>1, <1>3 DEF WritingInv
<1>5. ~ HalfBuilt /\ ManifestInv' /\ (chunks' # None => OfManifest(chunks'))
  <2>1. ~ HalfBuilt
      BY <1>1 DEF HalfBuilt
  <2> QED BY <1>1, <2>1 DEF CorpusInv, ManifestInv
<1> QED BY <1>1, <1>4, <1>5 DEF CorpusInv, IndexInv, OfManifest

(* A build is going to write the chunks that load. *)
LEMMA CorpusBuild ==
    ASSUME CorpusInv, Disk!Build
    PROVE  CorpusInv'
<1>1. /\ writing = <<>>
      /\ writing' = <<[file |-> "vectors", of |-> chunks], MetaLine(None), MetaLine(chunks)>>
      /\ UNCHANGED <<documents, chunks, vectors, meta, tornBuild>> /\ chunks # None
    BY DEF Disk!Build, MetaLine, Disk!Fingerprint, Disk!Loads, Disk!storeVars, Disk!indexVars
<1>2. WritingInv'
    BY <1>1 DEF WritingInv, MetaLine
<1>3. ~ HalfBuilt
    BY <1>1 DEF HalfBuilt
<1> QED BY <1>1, <1>2, <1>3 DEF CorpusInv, IndexInv, OfManifest, ManifestInv

(* The manifest stays where only files change. *)
LEMMA FilesChange ==
    ASSUME CorpusInv, UNCHANGED documents, WritingInv', IndexInv',
           chunks' # None => OfManifest(chunks')
    PROVE  CorpusInv'
BY DEF CorpusInv, ManifestInv, OfManifest

(* A file is written whole. *)
LEMMA CorpusWrite ==
    ASSUME CorpusInv, Disk!Write
    PROVE  CorpusInv'
<1>1. /\ writing # <<>> /\ Disk!Put(Head(writing).file, Head(writing).of)
      /\ writing' = Tail(writing)
      /\ tornBuild' = (tornBuild /\ ~(Head(writing).file = "meta" /\ Tail(writing) = <<>>))
      /\ UNCHANGED documents
    BY DEF Disk!Write
<1>m. \A c : OfManifest(c) <=> OfManifest(c)'
    BY <1>1 DEF OfManifest
<1>2. ASSUME NEW d, NEW c, writing = <<DocsLine(d), ChunksLine(c)>>, OfManifest(c)
      PROVE  CorpusInv'
  <2>1. Head(writing) = DocsLine(d) /\ Tail(writing) = <<ChunksLine(c)>>
      BY <1>2
  <2>2. /\ writing' = <<ChunksLine(c)>> /\ UNCHANGED <<chunks, vectors, meta>>
        /\ ~ tornBuild' => ~ tornBuild
    <3>1. Head(writing).file = "docs" /\ Head(writing).of = d
        BY <2>1 DEF DocsLine
    <3>2. Disk!Put("docs", d)
        BY <1>1, <3>1
    <3>3. ~ tornBuild' => ~ tornBuild
        BY <1>1, <3>1
    <3> QED BY <1>1, <2>1, <3>2, <3>3 DEF Disk!Put
  <2>3. WritingInv'
      BY <1>2, <1>m, <2>2 DEF WritingInv
  <2>4. ~ HalfBuilt
      BY <1>2 DEF HalfBuilt, DocsLine, MetaLine
  <2>5. IndexInv'
      BY <2>2, <2>4 DEF CorpusInv, IndexInv
  <2> QED BY <1>1, <2>2, <2>3, <2>5, FilesChange DEF CorpusInv
<1>3. ASSUME NEW c, writing = <<ChunksLine(c)>>, OfManifest(c)
      PROVE  CorpusInv'
  <2>1. Head(writing) = ChunksLine(c) /\ Tail(writing) = <<>>
      BY <1>3
  <2>2. /\ writing' = <<>> /\ chunks' = c /\ UNCHANGED <<vectors, meta>>
        /\ ~ tornBuild' => ~ tornBuild
    <3>1. Head(writing).file = "chunks" /\ Head(writing).of = c
        BY <2>1 DEF ChunksLine
    <3>2. Disk!Put("chunks", c)
        BY <1>1, <3>1
    <3>3. ~ tornBuild' => ~ tornBuild
        BY <1>1, <3>1
    <3> QED BY <1>1, <2>1, <3>2, <3>3 DEF Disk!Put
  <2>3. WritingInv'
      BY <2>2 DEF WritingInv
  <2>4. ~ HalfBuilt
      BY <1>3 DEF HalfBuilt, ChunksLine, MetaLine
  <2>5. IndexInv'
      BY <2>2, <2>4 DEF CorpusInv, IndexInv
  <2> QED BY <1>1, <1>3, <2>2, <2>3, <2>5, FilesChange
<1>4. ASSUME writing = <<[file |-> "vectors", of |-> chunks], MetaLine(None), MetaLine(chunks)>>,
             chunks # None
      PROVE  CorpusInv'
  <2>1. /\ Head(writing) = [file |-> "vectors", of |-> chunks]
        /\ Tail(writing) = <<MetaLine(None), MetaLine(chunks)>>
      BY <1>4
  <2>2. /\ writing' = <<MetaLine(None), MetaLine(chunks)>> /\ vectors' = chunks
        /\ UNCHANGED <<chunks, meta>>
      BY <1>1, <2>1 DEF Disk!Put
  <2>3. HalfBuilt' /\ Built'
      BY <1>4, <2>2 DEF HalfBuilt, Built, MetaLine
  <2> QED BY <1>1, <2>2, <2>3, FilesChange DEF CorpusInv, WritingInv, IndexInv
<1>5. ASSUME HalfBuilt, Built PROVE CorpusInv'
  <2>1. Head(writing) = MetaLine(None) /\ Tail(writing) = <<MetaLine(chunks)>>
      BY <1>5 DEF HalfBuilt
  <2>2. /\ writing' = <<MetaLine(chunks)>> /\ UNCHANGED <<chunks, vectors>>
        /\ meta'.corpus = None
      BY <1>1, <2>1 DEF Disk!Put, MetaLine
  <2>3. WritingInv'
      BY <1>5, <2>2 DEF WritingInv, Built, MetaLine
  <2>4. IndexInv'
      BY <2>2 DEF IndexInv
  <2> QED BY <1>1, <2>2, <2>3, <2>4, FilesChange DEF CorpusInv
<1>6. ASSUME writing = <<MetaLine(chunks)>>, Built PROVE CorpusInv'
  <2>1. Head(writing) = MetaLine(chunks) /\ Tail(writing) = <<>>
      BY <1>6
  <2>2. /\ writing' = <<>> /\ UNCHANGED <<chunks, vectors>> /\ meta'.corpus = chunks
      BY <1>1, <2>1 DEF Disk!Put, MetaLine
  <2>3. WritingInv' /\ IndexInv'
      BY <1>6, <2>2 DEF WritingInv, IndexInv, Built
  <2> QED BY <1>1, <2>2, <2>3, FilesChange DEF CorpusInv
<1> QED BY <1>1, <1>2, <1>3, <1>4, <1>5, <1>6 DEF CorpusInv, WritingInv

(* A death leaves a part of a file, or the file as it was. *)
LEMMA CorpusDies ==
    ASSUME CorpusInv, Disk!Dies
    PROVE  CorpusInv'
<1>1. /\ writing # <<>> /\ writing' = <<>> /\ UNCHANGED documents
      /\ tornBuild' = (tornBuild \/ Head(writing).file = "meta")
    BY DEF Disk!Dies
<1>2. PICK kept \in Disk!Remains(Head(writing)) \cup {None} :
         \/ Disk!Put(Head(writing).file, kept)
         \/ UNCHANGED <<docs, chunks, vectors, meta>>
    BY DEF Disk!Dies
<1>3. WritingInv'
    BY <1>1 DEF WritingInv
<1>4. ASSUME UNCHANGED chunks, UNCHANGED vectors \/ vectors' = None, UNCHANGED meta, ~ HalfBuilt
      PROVE  CorpusInv'
    BY <1>1, <1>3, <1>4, FilesChange DEF CorpusInv, IndexInv
<1>5. ASSUME Head(writing).file = "meta" PROVE CorpusInv'
  <2>1. tornBuild' /\ UNCHANGED chunks
      BY <1>1, <1>2, <1>5 DEF Disk!Put
  <2> QED BY <1>1, <1>3, <2>1, FilesChange DEF CorpusInv, IndexInv
<1>6. ASSUME NEW d, NEW c, writing = <<DocsLine(d), ChunksLine(c)>> PROVE CorpusInv'
  <2>1. Head(writing) = DocsLine(d)
      BY <1>6
  <2>2. UNCHANGED <<chunks, vectors, meta>>
      BY <1>2, <2>1 DEF DocsLine, Disk!Put
  <2>3. ~ HalfBuilt
      BY <1>6 DEF HalfBuilt, DocsLine, MetaLine
  <2> QED BY <1>4, <2>2, <2>3
<1>7. ASSUME NEW c, writing = <<ChunksLine(c)>>, OfManifest(c) PROVE CorpusInv'
  <2>1. Head(writing) = ChunksLine(c)
      BY <1>7
  <2>2. UNCHANGED <<vectors, meta>> /\ (UNCHANGED chunks \/ chunks' = kept)
      BY <1>2, <2>1 DEF ChunksLine, Disk!Put
  <2>3. ~ HalfBuilt
      BY <1>7 DEF HalfBuilt, ChunksLine, MetaLine
  <2>4. ~ tornBuild' => ~ tornBuild
      BY <1>1
  <2>5. IndexInv'
      BY <2>2, <2>3, <2>4 DEF CorpusInv, IndexInv
  <2>6. kept = None \/ OfManifest(kept)
    <3>1. Disk!Remains(ChunksLine(c)) =
             {[id \in Disk!UpTo(DOMAIN c, n) |-> c[id]] : n \in 0 .. Disk!Cardinality(DOMAIN c)}
        BY DEF Disk!Remains, ChunksLine
    <3>2. ASSUME NEW n, kept = [id \in Disk!UpTo(DOMAIN c, n) |-> c[id]] PROVE OfManifest(kept)
      <4>1. Disk!UpTo(DOMAIN c, n) \subseteq DOMAIN c
          BY DEF Disk!UpTo
      <4> QED BY <1>7, <3>2, <4>1 DEF OfManifest
    <3> QED BY <2>1, <3>1, <3>2, <1>2
  <2>7. chunks' # None => OfManifest(chunks')
      BY <2>2, <2>6 DEF CorpusInv
  <2> QED BY <1>1, <1>3, <2>5, <2>7, FilesChange
<1>8. ASSUME writing = <<[file |-> "vectors", of |-> chunks], MetaLine(None), MetaLine(chunks)>>
      PROVE  CorpusInv'
  <2>1. Head(writing) = [file |-> "vectors", of |-> chunks]
      BY <1>8
  <2>2. kept = None
      BY <2>1, <1>2 DEF Disk!Remains
  <2>3. UNCHANGED <<chunks, meta>> /\ (UNCHANGED vectors \/ vectors' = None)
      BY <1>2, <2>1, <2>2 DEF Disk!Put
  <2>4. ~ HalfBuilt
      BY <1>8 DEF HalfBuilt, MetaLine
  <2> QED BY <1>4, <2>3, <2>4
<1>9. ASSUME HalfBuilt \/ writing = <<MetaLine(chunks)>> PROVE CorpusInv'
  <2>1. Head(writing).file = "meta"
      BY <1>9 DEF HalfBuilt, MetaLine
  <2> QED BY <1>5, <2>1
<1> QED BY <1>1, <1>6, <1>7, <1>8, <1>9 DEF CorpusInv, WritingInv

(* Every step of the corpus on disk. *)
LEMMA CorpusStep == CorpusInv /\ [Disk!Next]_diskVars => CorpusInv'
<1> SUFFICES ASSUME CorpusInv, [Disk!Next]_diskVars PROVE CorpusInv'
    OBVIOUS
<1>1. CASE UNCHANGED diskVars \/ Disk!Revise
  <2>1. UNCHANGED <<documents, chunks, vectors, meta, writing, tornBuild>>
      BY <1>1 DEF diskVars, Disk!Revise, Disk!storeVars, Disk!indexVars
  <2> QED BY <2>1, ManifestGrows DEF CorpusInv, ManifestInv
<1> QED
    BY <1>1, CorpusAdd, CorpusRetire, CorpusIngest, CorpusBuild, CorpusWrite, CorpusDies
       DEF Disk!Next

(* What loads with its fingerprint is a whole build of the chunks there are. *)
LEMMA CorpusTells == CorpusInv => Disk!WhatLoadsIsCurrent
<1> SUFFICES ASSUME CorpusInv, Disk!WindowsLoad
             PROVE  (vectors = chunks \/ tornBuild) /\ OfManifest(chunks)
    BY DEF Disk!WhatLoadsIsCurrent, OfManifest
<1>1. /\ chunks # None /\ vectors # None /\ meta # None /\ meta.corpus = chunks
    BY DEF Disk!WindowsLoad, Disk!DenseLoads, Disk!Loads, Disk!Fingerprint
<1>2. CASE HalfBuilt
  <2>1. writing = <<MetaLine(None), MetaLine(chunks)>>
      BY <1>2 DEF HalfBuilt
  <2>2. Len(writing) = 2 /\ writing[1].file = "meta"
      BY <2>1 DEF MetaLine
  <2>3. Built
      BY <2>1, <2>2 DEF CorpusInv, WritingInv, DocsLine, ChunksLine
  <2> QED BY <1>1, <2>3 DEF Built, CorpusInv
<1>3. CASE ~ HalfBuilt
    BY <1>1, <1>3 DEF CorpusInv, IndexInv
<1> QED BY <1>2, <1>3

-----------------------------------------------------------------------------
(***************************************************************************)
(* The label review.                                                       *)
(*                                                                         *)
(* What is proved inductive: whatever label file is there, or is going to  *)
(* be written, holds blanks and consistent judgements of the very report   *)
(* it is bound to; what is frozen is complete and was judged before any    *)
(* verdict was read; and a blind label is of the arm its slot stands for.  *)
(***************************************************************************)

Verdict == {None, "provider_limit", "execution_failure", "graded"}
SealedFile == [header: Review!Report \cup {None}, cut: BOOLEAN, verdicts: [Cases -> Verdict]]
Pass == [mode: Review!Modes, report: Review!Report, todo: SUBSET Cases, limited: BOOLEAN]
PerMode(f) == f = [m \in Review!Modes |-> f[m]]

(* A report that was there when w had been written. *)
Known(r, w) == r \in Review!Report /\ r # None /\ r.version <= w

(* A judgement of an answer of arm m in report r. *)
Sound(g, m, r) ==
    g.label \in Review!Label
    /\ (Review!Complete(g.label) => Review!Consistent(g.label) /\ g.mode = m /\ g.report = r)

FileOk(m, file, r, f) ==
    /\ DOMAIN file \subseteq Cases
    /\ \A t \in DOMAIN file : Sound(file[t], m, r) /\ (f = None => ~ file[t].late)

ReviewReportInv ==
    /\ written \in Nat /\ reports \in [Review!Modes -> Review!Report \cup {None}]
    /\ \A m \in Review!Modes : reports[m] # None => Known(reports[m], written)

LabelInv ==
    /\ PerMode(source) /\ PerMode(labels)
    /\ \A m \in Review!Modes : labels[m] # None =>
         source[m] # None /\ FileOk(m, labels[m], source[m], frozen[m])

FrozenOk(m, f) ==
    /\ DOMAIN f.labels = Cases
    /\ \A t \in Cases :
         /\ Review!Complete(f.labels[t].label) /\ Sound(f.labels[t], m, f.report)
         /\ ~ (t \in f.report.failed /\ f.labels[t].label.task_success = "yes")
         /\ ~ f.labels[t].late

FrozenInv == PerMode(frozen) /\ \A m \in Review!Modes : frozen[m] # None => FrozenOk(m, frozen[m])

KeyInv ==
    key # None =>
      /\ key.slots \in [Cases -> Review!Modes]
      /\ \A m \in Review!Modes : source[m] = key.reports[m] /\ Known(key.reports[m], written)

(* A blind label of arm m, whose report is r now and was s on the sheet. *)
BlindOk(g, m, r, s, f) ==
    /\ g.label \in Review!Label
    /\ Review!Complete(g.label) => Review!Consistent(g.label)
                                      /\ g.mode = m /\ (r = s => g.report = s)
    /\ f = None => ~ g.late

BlindInv ==
    blind # None /\ key # None =>
      /\ DOMAIN blind \subseteq Review!Answers
      /\ \A a \in DOMAIN blind : \A m \in Review!Modes : m = Review!ModeIn(key.slots, a) =>
           BlindOk(blind[a], m, reports[m], source[m], frozen[m])

Sheet(m) == <<<<"bind", m>>, <<"labels", m>>>>
OneFile(m) == <<<<"labels", m>>>>
BothFiles == <<<<"labels", "v1">>, <<"labels", "v2">>>>
Blind4 == <<<<"bind", "v1">>, <<"bind", "v2">>, <<"key">>, <<"blind">>>>
Blind3 == <<<<"bind", "v2">>, <<"key">>, <<"blind">>>>
Blind2 == <<<<"key">>, <<"blind">>>>
Blind1 == <<<<"blind">>>>
Todos == {<<>>, Sheet("v1"), Sheet("v2"), OneFile("v1"), OneFile("v2"), BothFiles,
          Blind4, Blind3, Blind2, Blind1}

SheetInv(m) ==
    command.todo = Sheet(m) =>
      /\ "labels" \in DOMAIN command /\ "reports" \in DOMAIN command
      /\ Known(command.reports[m], written) /\ DOMAIN command.labels[m] = Cases
      /\ FileOk(m, command.labels[m], command.reports[m], frozen[m])

FilesInv(m) ==
    command.todo \in {OneFile(m), BothFiles} =>
      /\ "labels" \in DOMAIN command /\ DOMAIN command.labels[m] = Cases
      /\ source[m] # None /\ FileOk(m, command.labels[m], source[m], frozen[m])

BlindSheetInv ==
    command.todo \in {Blind4, Blind3, Blind2, Blind1} =>
      /\ "slots" \in DOMAIN command /\ "reports" \in DOMAIN command
      /\ blind = None /\ command.slots \in [Cases -> Review!Modes]
      /\ \A m \in Review!Modes : Known(command.reports[m], written)
      /\ command.todo # Blind4 => source["v1"] = command.reports["v1"]
      /\ command.todo \in {Blind2, Blind1} => source["v2"] = command.reports["v2"]
      /\ command.todo = Blind1 => key.slots = command.slots

CommandInv ==
    /\ "todo" \in DOMAIN command /\ command.todo \in Todos
    /\ \A m \in Review!Modes : SheetInv(m) /\ FilesInv(m)
    /\ BlindSheetInv

(* The verdicts of a file are of the report it names. *)
SealedOk(file) == \A t \in Cases : file.verdicts[t] = "graded" => t \notin file.header.failed

JudgeInv ==
    /\ sealed \in [Review!Modes -> SealedFile \cup {None}]
    /\ \A m \in Review!Modes : sealed[m] # None => SealedOk(sealed[m])
    /\ judge # None =>
         /\ judge \in Pass /\ sealed[judge.mode] \in SealedFile
         /\ \/ sealed[judge.mode].header = judge.report /\ SealedOk(sealed[judge.mode])
            \/ \A t \in Cases : sealed[judge.mode].verdicts[t] # "graded"

UnsealInv ==
    \A u \in unsealed :
      /\ u.mode \in Review!Modes /\ frozen[u.mode] # None
      /\ \A t \in Cases : u.verdicts[t] = "graded" => t \notin u.report.failed

ReviewInv == /\ ReviewReportInv /\ LabelInv /\ FrozenInv /\ KeyInv /\ BlindInv /\ CommandInv
             /\ JudgeInv /\ UnsealInv

(* There is no file. *)
LEMMA ReviewInit == Review!Init => ReviewInv
<1> SUFFICES ASSUME Review!Init PROVE ReviewInv
    OBVIOUS
<1>1. ReviewReportInv
    BY DEF Review!Init, ReviewReportInv
<1>2. LabelInv
    BY DEF Review!Init, LabelInv, PerMode
<1>3. FrozenInv
    BY DEF Review!Init, FrozenInv, PerMode
<1>4. KeyInv /\ BlindInv
    BY DEF Review!Init, KeyInv, BlindInv
<1>5. CommandInv
  <2>1. "todo" \in DOMAIN command /\ command.todo = <<>>
      BY DEF Review!Init, Review!Idle
  <2> QED BY <2>1 DEF CommandInv, SheetInv, FilesInv, BlindSheetInv, Todos, Sheet, OneFile,
                      BothFiles, Blind4, Blind3, Blind2, Blind1
<1>6. JudgeInv
    BY DEF Review!Init, JudgeInv
<1>7. UnsealInv
    BY DEF Review!Init, UnsealInv
<1> QED BY <1>1, <1>2, <1>3, <1>4, <1>5, <1>6, <1>7 DEF ReviewInv

(* Nobody judges with the verdicts before them while nothing is frozen. *)
LEMMA NotLate ==
    ASSUME UnsealInv, NEW m \in Review!Modes, frozen[m] = None, NEW l, NEW r
    PROVE  ~ Review!Given(l, m, r).late
<1>1. ~ Review!Unseals(m, r)
    BY DEF UnsealInv, Review!Unseals
<1>2. Review!Given(l, m, r).late = Review!Unseals(m, r)
    BY DEF Review!Given
<1> QED BY <1>1, <1>2

(* What a label remembers. *)
LEMMA GivenIs ==
    ASSUME NEW l, NEW m, NEW r
    PROVE  Review!Given(l, m, r).label = l /\ Review!Given(l, m, r).mode = m
           /\ Review!Given(l, m, r).report = r
BY DEF Review!Given

(* A blank is no judgement. *)
LEMMA BlankIs == Review!Blank \in Review!Label /\ ~ Review!Complete(Review!Blank)
BY DEF Review!Blank, Review!Label, Review!Success, Review!Complete

(* The frozen labels of an arm stay. *)
LEMMA StaysOk ==
    ASSUME NEW m, NEW file, NEW r, NEW f, NEW g, FileOk(m, file, r, f), f # None => g = f
    PROVE  FileOk(m, file, r, g)
BY DEF FileOk

(* A report is written again: the labels stay with the older one. *)
LEMMA ReviewReport ==
    ASSUME ReviewInv, NEW m \in Review!Modes, NEW failed \in SUBSET Cases,
           Review!WriteReport(m, failed)
    PROVE  ReviewInv'
<1>1. /\ written \in Nat /\ reports \in [Review!Modes -> Review!Report \cup {None}]
      /\ written' = written + 1
      /\ reports' = [reports EXCEPT ![m] = [version |-> written', failed |-> failed]]
      /\ UNCHANGED <<source, labels, key, blind, command, sealed, judge, frozen, unsealed>>
    BY DEF ReviewInv, ReviewReportInv, Review!WriteReport, Review!reviewVars, Review!judgeVars,
           Review!resultVars
<1>2. /\ reports'[m] \in Review!Report /\ reports'[m].version = written + 1
      /\ \A n \in Review!Modes \ {m} : reports'[n] = reports[n]
    BY <1>1 DEF Review!Report
<1>3. \A r : Known(r, written) => Known(r, written')
    BY <1>1 DEF Known, Review!Report
<1>4. ReviewReportInv'
  <2>1. reports'[m] # None => Known(reports'[m], written')
      BY <1>1, <1>2 DEF Known
  <2>2. \A n \in Review!Modes \ {m} : reports'[n] # None => Known(reports'[n], written')
      BY <1>2, <1>3 DEF ReviewInv, ReviewReportInv
  <2> QED BY <1>1, <1>2, <2>1, <2>2 DEF ReviewReportInv
<1>5. LabelInv' /\ FrozenInv'
    BY <1>1 DEF ReviewInv, LabelInv, FrozenInv
<1>6. KeyInv'
    BY <1>1, <1>3 DEF ReviewInv, KeyInv
<1>7. BlindInv'
  <2> SUFFICES ASSUME blind # None, key # None, NEW a \in DOMAIN blind, NEW n \in Review!Modes,
                      n = Review!ModeIn(key.slots, a)
               PROVE  BlindOk(blind[a], n, reports'[n], source[n], frozen[n])
      BY <1>1 DEF ReviewInv, BlindInv
  <2>1. BlindOk(blind[a], n, reports[n], source[n], frozen[n])
      BY DEF ReviewInv, BlindInv
  <2>2. reports'[m] # source[m]
      BY <1>1, <1>2 DEF ReviewInv, KeyInv, Known, Review!Report
  <2> QED BY <1>2, <2>1, <2>2 DEF BlindOk
<1>8. CommandInv'
    BY <1>1, <1>3 DEF ReviewInv, CommandInv, SheetInv, FilesInv, BlindSheetInv
<1>9. JudgeInv' /\ UnsealInv'
    BY <1>1 DEF ReviewInv, JudgeInv, UnsealInv
<1> QED BY <1>4, <1>5, <1>6, <1>7, <1>8, <1>9 DEF ReviewInv

(* Only the command changes. *)
LEMMA ReviewStart ==
    ASSUME ReviewInv, CommandInv',
           UNCHANGED <<reports, source, labels, key, blind, Review!judgeVars, Review!resultVars,
                       Review!bounds>>
    PROVE  ReviewInv'
BY DEF ReviewInv, ReviewReportInv, LabelInv, FrozenInv, KeyInv, BlindInv, JudgeInv, UnsealInv,
       Review!judgeVars, Review!resultVars, Review!bounds

(* The heads of the lists are different commands. *)
LEMMA TodosApart ==
    /\ \A m \in Review!Modes : Sheet(m) # <<>> /\ Sheet(m) # BothFiles
         /\ Sheet(m) \notin {Blind4, Blind3, Blind2, Blind1}
         /\ OneFile(m) # <<>> /\ OneFile(m) # BothFiles
         /\ OneFile(m) \notin {Blind4, Blind3, Blind2, Blind1}
    /\ \A m, n \in Review!Modes : Sheet(m) # OneFile(n) /\ (m # n => Sheet(m) # Sheet(n))
         /\ (m # n => OneFile(m) # OneFile(n))
    /\ <<>> \notin {BothFiles, Blind4, Blind3, Blind2, Blind1}
    /\ BothFiles \notin {Blind4, Blind3, Blind2, Blind1}
    /\ Blind4 \notin {Blind3, Blind2, Blind1} /\ Blind3 \notin {Blind2, Blind1} /\ Blind2 # Blind1
<1>1. Len(<<>>) = 0
    OBVIOUS
<1>2. \A m \in Review!Modes : Len(Sheet(m)) = 2 /\ Len(OneFile(m)) = 1
        /\ Sheet(m)[1] = <<"bind", m>>
        /\ OneFile(m)[1] = <<"labels", m>>
    BY DEF Sheet, OneFile
<1>3. /\ Len(BothFiles) = 2 /\ BothFiles[1] = <<"labels", "v1">>
      /\ Len(Blind4) = 4 /\ Len(Blind3) = 3
      /\ Len(Blind2) = 2 /\ Blind2[1] = <<"key">> /\ Len(Blind1) = 1 /\ Blind1[1] = <<"blind">>
    BY DEF BothFiles, Blind4, Blind3, Blind2, Blind1
<1>4. \A m, n \in Review!Modes : /\ <<"bind", m>> # <<"labels", n>>
                                 /\ <<"bind", m>> # <<"key">> /\ <<"labels", m>> # <<"blind">>
                                 /\ m # n => <<"bind", m>> # <<"bind", n>>
                                             /\ <<"labels", m>> # <<"labels", n>>
    OBVIOUS
<1>5. "v1" \in Review!Modes
    BY DEF Review!Modes
<1>6. ASSUME NEW m \in Review!Modes
      PROVE  /\ Sheet(m) # <<>> /\ Sheet(m) # BothFiles
             /\ Sheet(m) \notin {Blind4, Blind3, Blind2, Blind1}
  <2>1. Len(Sheet(m)) = 2 /\ Sheet(m)[1] = <<"bind", m>>
      BY <1>2
  <2>2. <<"bind", m>> # <<"labels", "v1">> /\ <<"bind", m>> # <<"key">>
      BY <1>4, <1>5
  <2>3. Sheet(m) # BothFiles /\ Sheet(m) # Blind2
      BY <1>3, <2>1, <2>2
  <2>4. Sheet(m) # <<>> /\ Sheet(m) # Blind4 /\ Sheet(m) # Blind3 /\ Sheet(m) # Blind1
      BY <1>1, <1>3, <2>1
  <2> QED BY <2>3, <2>4
<1>7. ASSUME NEW m \in Review!Modes
      PROVE  /\ OneFile(m) # <<>> /\ OneFile(m) # BothFiles
             /\ OneFile(m) \notin {Blind4, Blind3, Blind2, Blind1}
  <2>1. Len(OneFile(m)) = 1 /\ OneFile(m)[1] = <<"labels", m>>
      BY <1>2
  <2>2. <<"labels", m>> # <<"blind">>
      BY <1>4
  <2> QED BY <1>1, <1>3, <2>1, <2>2
<1>8. ASSUME NEW m \in Review!Modes, NEW n \in Review!Modes
      PROVE  /\ Sheet(m) # OneFile(n)
             /\ m # n => Sheet(m) # Sheet(n) /\ OneFile(m) # OneFile(n)
  <2>1. /\ Len(Sheet(m)) = 2 /\ Sheet(m)[1] = <<"bind", m>> /\ Sheet(n)[1] = <<"bind", n>>
        /\ Len(OneFile(n)) = 1 /\ OneFile(n)[1] = <<"labels", n>> /\ OneFile(m)[1] = <<"labels", m>>
      BY <1>2
  <2>2. m # n => <<"bind", m>> # <<"bind", n>> /\ <<"labels", m>> # <<"labels", n>>
      BY <1>4
  <2> QED BY <2>1, <2>2
<1>9. /\ <<>> \notin {BothFiles, Blind4, Blind3, Blind2, Blind1}
      /\ BothFiles \notin {Blind4, Blind3, Blind2, Blind1}
      /\ Blind4 \notin {Blind3, Blind2, Blind1} /\ Blind3 \notin {Blind2, Blind1} /\ Blind2 # Blind1
  <2>1. <<"labels", "v1">> # <<"key">>
      OBVIOUS
  <2> QED BY <1>1, <1>3, <2>1
<1> QED BY <1>6, <1>7, <1>8, <1>9

(* A sheet of one arm is going to be bound to its report. *)
LEMMA ReviewSheet ==
    ASSUME ReviewInv, NEW m \in Review!Modes, Review!StartSheet(m)
    PROVE  ReviewInv'
<1>1. /\ reports[m] # None
      /\ command' = [todo |-> Sheet(m), reports |-> reports,
                     labels |-> [n \in Review!Modes |->
                                [t \in Cases |-> Review!Given(Review!Blank, m, reports[m])]]]
      /\ UNCHANGED <<reports, source, labels, key, blind, Review!judgeVars, Review!resultVars,
                     Review!bounds>>
    BY DEF Review!StartSheet, Sheet
<1>2. /\ command'.todo = Sheet(m) /\ command'.reports = reports
      /\ command'.labels[m] = [t \in Cases |-> Review!Given(Review!Blank, m, reports[m])]
      /\ {"todo", "labels", "reports"} \subseteq DOMAIN command'
    BY <1>1
<1>3. Known(reports[m], written)
    BY <1>1 DEF ReviewInv, ReviewReportInv
<1>4. FileOk(m, command'.labels[m], reports[m], frozen[m])
  <2> DEFINE file == [t \in Cases |-> Review!Given(Review!Blank, m, reports[m])]
  <2>1. ASSUME NEW t \in Cases
        PROVE  Sound(file[t], m, reports[m]) /\ (frozen[m] = None => ~ file[t].late)
      BY NotLate, GivenIs, BlankIs DEF Sound, ReviewInv
  <2>2. FileOk(m, file, reports[m], frozen[m])
      BY <2>1 DEF FileOk
  <2> QED BY <1>2, <2>2
<1>5. CommandInv'
  <2>1. UNCHANGED <<written, frozen>>
      BY <1>1 DEF Review!bounds, Review!resultVars
  <2>2. SheetInv(m)'
      BY <1>2, <1>3, <1>4, <2>1 DEF SheetInv
  <2>3. \A n \in Review!Modes : n # m => SheetInv(n)'
      BY <1>2, TodosApart DEF SheetInv
  <2>4. \A n \in Review!Modes : FilesInv(n)'
      BY <1>2, TodosApart DEF FilesInv
  <2>5. BlindSheetInv'
      BY <1>2, TodosApart DEF BlindSheetInv
  <2>6. Sheet(m) \in Todos
      BY DEF Todos, Review!Modes
  <2> QED BY <1>2, <2>2, <2>3, <2>4, <2>5, <2>6 DEF CommandInv
<1> QED BY <1>1, <1>5, ReviewStart

(* A blind sheet is going to be bound to both reports. *)
LEMMA ReviewBlindSheet ==
    ASSUME ReviewInv, NEW slots \in [Cases -> Review!Modes], Review!StartBlindSheet(slots)
    PROVE  ReviewInv'
<1>1. /\ blind = None /\ \A m \in Review!Modes : reports[m] # None
      /\ command' = [todo |-> Blind4, reports |-> reports, slots |-> slots]
      /\ UNCHANGED <<reports, source, labels, key, blind, Review!judgeVars, Review!resultVars,
                     Review!bounds>>
    BY DEF Review!StartBlindSheet, Blind4
<1>2. /\ command'.todo = Blind4 /\ command'.reports = reports /\ command'.slots = slots
      /\ {"todo", "slots", "reports"} \subseteq DOMAIN command'
    BY <1>1
<1>3. \A m \in Review!Modes : Known(reports[m], written)
    BY <1>1 DEF ReviewInv, ReviewReportInv
<1>4. CommandInv'
  <2>1. UNCHANGED <<written, frozen>>
      BY <1>1 DEF Review!bounds, Review!resultVars
  <2>2. \A n \in Review!Modes : SheetInv(n)'
      BY <1>2, TodosApart DEF SheetInv
  <2>3. \A n \in Review!Modes : FilesInv(n)'
      BY <1>2, TodosApart DEF FilesInv
  <2>4. BlindSheetInv'
      BY <1>1, <1>2, <1>3, <2>1, TodosApart DEF BlindSheetInv
  <2> QED BY <1>2, <2>2, <2>3, <2>4 DEF CommandInv, Todos
<1> QED BY <1>1, <1>4, ReviewStart

(* Every answer of an arm is in a slot. *)
LEMMA SlotOfArm ==
    ASSUME NEW slots \in [Cases -> Review!Modes], NEW t \in Cases, NEW m \in Review!Modes
    PROVE  \E a \in Review!Answers : a[1] = t /\ Review!ModeIn(slots, a) = m
<1>1. CASE slots[t] = m
  <2> DEFINE a == <<t, "A">>
  <2>1. a \in Review!Answers /\ a[1] = t /\ a[2] = "A"
      BY DEF Review!Answers, Review!Slots
  <2>2. Review!ModeIn(slots, a) = m
      BY <1>1, <2>1 DEF Review!ModeIn
  <2> QED BY <2>1, <2>2
<1>2. CASE slots[t] # m
  <2> DEFINE a == <<t, "B">>
  <2>1. a \in Review!Answers /\ a[1] = t /\ a[2] # "A"
      BY DEF Review!Answers, Review!Slots
  <2>2. (CHOOSE n \in Review!Modes : n # slots[t]) = m
      BY <1>2 DEF Review!Modes
  <2>3. Review!ModeIn(slots, a) = m
      BY <2>1, <2>2 DEF Review!ModeIn
  <2> QED BY <2>1, <2>3
<1> QED BY <1>1, <1>2

(* The blind labels go back to the arms their slots were of. *)
LEMMA ReviewUnblind ==
    ASSUME ReviewInv, Review!StartUnblind
    PROVE  ReviewInv'
<1>1. /\ key # None /\ blind # None /\ DOMAIN blind = Review!Answers
      /\ \A a \in Review!Answers : Review!Complete(blind[a].label)
      /\ \A m \in Review!Modes : reports[m] = key.reports[m]
      /\ UNCHANGED <<reports, source, labels, key, blind, Review!judgeVars, Review!resultVars,
                     Review!bounds>>
    BY DEF Review!StartUnblind
<1>a. command' = [todo |-> BothFiles, labels |-> Review!Unblinded(key.slots)]
    BY DEF Review!StartUnblind, BothFiles
<1>2. /\ command'.todo = BothFiles /\ command'.labels = Review!Unblinded(key.slots)
      /\ {"todo", "labels"} \subseteq DOMAIN command'
    BY <1>a
<1>3. key.slots \in [Cases -> Review!Modes]
      /\ \A m \in Review!Modes : source[m] = reports[m] /\ source[m] # None
    BY <1>1 DEF ReviewInv, KeyInv, Known
<1>4. ASSUME NEW m \in Review!Modes
      PROVE  /\ DOMAIN command'.labels[m] = Cases
             /\ FileOk(m, command'.labels[m], source[m], frozen[m])
  <2> DEFINE place(t) == CHOOSE a \in Review!Answers : a[1] = t /\ Review!ModeIn(key.slots, a) = m
             file == [t \in Cases |-> blind[place(t)]]
  <2>1. command'.labels[m] = file
      BY <1>2 DEF Review!Unblinded
  <2>2. ASSUME NEW t \in Cases
        PROVE  place(t) \in Review!Answers /\ Review!ModeIn(key.slots, place(t)) = m
      BY <1>3, SlotOfArm
  <2> HIDE DEF place
  <2>3. ASSUME NEW t \in Cases
        PROVE  Sound(file[t], m, source[m]) /\ (frozen[m] = None => ~ file[t].late)
    <3>1. BlindOk(blind[place(t)], m, reports[m], source[m], frozen[m])
        BY <1>1, <2>2 DEF ReviewInv, BlindInv
    <3> QED BY <1>3, <3>1 DEF BlindOk, Sound
  <2>4. DOMAIN file = Cases
      OBVIOUS
  <2>5. FileOk(m, file, source[m], frozen[m])
      BY <2>3, <2>4 DEF FileOk
  <2> QED BY <2>1, <2>4, <2>5
<1>5. CommandInv'
  <2>1. UNCHANGED <<written, frozen>>
      BY <1>1 DEF Review!bounds, Review!resultVars
  <2>2. \A n \in Review!Modes : SheetInv(n)'
      BY <1>2, TodosApart DEF SheetInv
  <2>3. \A n \in Review!Modes : FilesInv(n)'
      BY <1>1, <1>2, <1>3, <1>4, <2>1 DEF FilesInv
  <2>4. BlindSheetInv'
      BY <1>2, TodosApart DEF BlindSheetInv
  <2> QED BY <1>2, <2>2, <2>3, <2>4 DEF CommandInv, Todos
<1> QED BY <1>1, <1>5, ReviewStart

(* A write, and what is left to write. *)
LEMMA Advanced ==
    ASSUME CommandInv, command' = Review!Next1
    PROVE  /\ command'.todo = Tail(command.todo) /\ DOMAIN command' = DOMAIN command
           /\ "labels" \in DOMAIN command => command'.labels = command.labels
           /\ "reports" \in DOMAIN command => command'.reports = command.reports
           /\ "slots" \in DOMAIN command => command'.slots = command.slots
BY DEF CommandInv, Review!Next1

(* The lists, one write after the other. *)
LEMMA TodoHeads ==
    /\ \A m \in Review!Modes : /\ Head(Sheet(m)) = <<"bind", m>> /\ Tail(Sheet(m)) = OneFile(m)
                               /\ Head(OneFile(m)) = <<"labels", m>> /\ Tail(OneFile(m)) = <<>>
    /\ Head(BothFiles) = <<"labels", "v1">> /\ Tail(BothFiles) = OneFile("v2")
    /\ Head(Blind4) = <<"bind", "v1">> /\ Tail(Blind4) = Blind3
    /\ Head(Blind3) = <<"bind", "v2">> /\ Tail(Blind3) = Blind2
    /\ Head(Blind2) = <<"key">> /\ Tail(Blind2) = Blind1
    /\ Head(Blind1) = <<"blind">> /\ Tail(Blind1) = <<>>
BY DEF Sheet, OneFile, BothFiles, Blind4, Blind3, Blind2, Blind1

(* What a write finds. *)
LEMMA WritesBind ==
    ASSUME CommandInv, NEW m \in Review!Modes, Review!Writing(<<"bind", m>>)
    PROVE  \/ command.todo = Sheet(m) /\ Tail(command.todo) = OneFile(m)
           \/ m = "v1" /\ command.todo = Blind4 /\ Tail(command.todo) = Blind3
           \/ m = "v2" /\ command.todo = Blind3 /\ Tail(command.todo) = Blind2
<1>1. command.todo \in Todos /\ command.todo # <<>> /\ Head(command.todo) = <<"bind", m>>
    BY DEF CommandInv, Review!Writing
<1>2. /\ <<"bind", m>> # <<"labels", "v1">> /\ <<"bind", m>> # <<"labels", "v2">>
      /\ <<"bind", m>> # <<"key">> /\ <<"bind", m>> # <<"blind">>
      /\ <<"bind", m>> = <<"bind", "v1">> => m = "v1"
      /\ <<"bind", m>> = <<"bind", "v2">> => m = "v2"
    OBVIOUS
<1>3. "v1" \in Review!Modes /\ "v2" \in Review!Modes
    BY DEF Review!Modes
<1>4. command.todo \in {Sheet("v1"), Sheet("v2"), Blind4, Blind3}
    BY <1>1, <1>2, <1>3, TodoHeads DEF Todos
<1> QED BY <1>1, <1>2, <1>3, <1>4, TodoHeads

(* The key is written while the blind labels are not there yet. *)
LEMMA WritesKey ==
    ASSUME CommandInv, Review!Writing(<<"key">>)
    PROVE  command.todo = Blind2 /\ Tail(command.todo) = Blind1
<1>1. command.todo \in Todos /\ command.todo # <<>> /\ Head(command.todo) = <<"key">>
    BY DEF CommandInv, Review!Writing
<1>2. /\ <<"key">> # <<"blind">>
      /\ \A m \in Review!Modes : <<"bind", m>> # <<"key">> /\ <<"labels", m>> # <<"key">>
    OBVIOUS
<1>3. "v1" \in Review!Modes /\ "v2" \in Review!Modes
    BY DEF Review!Modes
<1> QED BY <1>1, <1>2, <1>3, TodoHeads DEF Todos

(* The blind labels are written last. *)
LEMMA WritesBlind ==
    ASSUME CommandInv, Review!Writing(<<"blind">>)
    PROVE  command.todo = Blind1 /\ Tail(command.todo) = <<>>
<1>1. command.todo \in Todos /\ command.todo # <<>> /\ Head(command.todo) = <<"blind">>
    BY DEF CommandInv, Review!Writing
<1>2. /\ <<"key">> # <<"blind">>
      /\ \A m \in Review!Modes : <<"bind", m>> # <<"blind">> /\ <<"labels", m>> # <<"blind">>
    OBVIOUS
<1>3. "v1" \in Review!Modes /\ "v2" \in Review!Modes
    BY DEF Review!Modes
<1> QED BY <1>1, <1>2, <1>3, TodoHeads DEF Todos

(* Labels are written of an arm that is bound. *)
LEMMA WritesLabels ==
    ASSUME CommandInv, NEW m \in Review!Modes, Review!Writing(<<"labels", m>>)
    PROVE  \/ command.todo = OneFile(m) /\ Tail(command.todo) = <<>>
           \/ m = "v1" /\ command.todo = BothFiles /\ Tail(command.todo) = OneFile("v2")
<1>1. command.todo \in Todos /\ command.todo # <<>> /\ Head(command.todo) = <<"labels", m>>
    BY DEF CommandInv, Review!Writing
<1>2. /\ \A n \in Review!Modes : <<"bind", n>> # <<"labels", m>>
      /\ <<"labels", m>> # <<"key">> /\ <<"labels", m>> # <<"blind">>
      /\ <<"labels", m>> = <<"labels", "v1">> => m = "v1"
      /\ <<"labels", m>> = <<"labels", "v2">> => m = "v2"
    OBVIOUS
<1>3. "v1" \in Review!Modes /\ "v2" \in Review!Modes
    BY DEF Review!Modes
<1>4. command.todo \in {OneFile("v1"), OneFile("v2"), BothFiles}
    BY <1>1, <1>2, <1>3, TodoHeads DEF Todos
<1> QED BY <1>1, <1>2, <1>3, <1>4, TodoHeads

(* The labels of an arm are bound to the report of the sheet. *)
LEMMA ReviewBind ==
    ASSUME ReviewInv, NEW m \in Review!Modes, Review!Bind(m)
    PROVE  ReviewInv'
<1>0. CASE source[m] # None /\ command' = Review!Idle /\ UNCHANGED source
  <2>1. command'.todo = <<>> /\ "todo" \in DOMAIN command'
      BY <1>0 DEF Review!Idle
  <2>2. CommandInv'
      BY <2>1, TodosApart DEF CommandInv, SheetInv, FilesInv, BlindSheetInv, Todos
  <2>3. UNCHANGED <<reports, source, labels, key, blind, Review!judgeVars, Review!resultVars,
                    Review!bounds>>
      BY <1>0 DEF Review!Bind
  <2> QED BY <2>2, <2>3, ReviewStart
<1>1. CASE /\ source[m] = None /\ source' = [source EXCEPT ![m] = command.reports[m]]
           /\ command' = Review!Next1
  <2>1. /\ Review!Writing(<<"bind", m>>) /\ CommandInv /\ PerMode(source)
        /\ UNCHANGED <<reports, labels, key, blind, sealed, judge, frozen, unsealed, written>>
      BY DEF Review!Bind, ReviewInv, LabelInv, Review!judgeVars, Review!resultVars, Review!bounds
  <2>2. source'[m] = command.reports[m] /\ (\A n \in Review!Modes : n # m => source'[n] = source[n])
        /\ PerMode(source')
      BY <1>1, <2>1 DEF PerMode
  <2>3. /\ command'.todo = Tail(command.todo) /\ DOMAIN command' = DOMAIN command
        /\ "labels" \in DOMAIN command => command'.labels = command.labels
        /\ "reports" \in DOMAIN command => command'.reports = command.reports
        /\ "slots" \in DOMAIN command => command'.slots = command.slots
      BY <1>1, <2>1, Advanced
  <2>4. key = None
      BY <1>1 DEF ReviewInv, KeyInv, Known
  <2>5. labels[m] = None
      BY <1>1 DEF ReviewInv, LabelInv
  <2>6. LabelInv'
      BY <2>1, <2>2, <2>5 DEF ReviewInv, LabelInv
  <2>7. CommandInv'
    <3>1. CASE command.todo = Sheet(m) /\ Tail(command.todo) = OneFile(m)
      <4>1. /\ "labels" \in DOMAIN command /\ "reports" \in DOMAIN command
            /\ Known(command.reports[m], written) /\ DOMAIN command.labels[m] = Cases
            /\ FileOk(m, command.labels[m], command.reports[m], frozen[m])
          BY <2>1, <3>1 DEF CommandInv, SheetInv
      <4>2. FilesInv(m)'
          BY <2>1, <2>2, <2>3, <4>1 DEF FilesInv, Known
      <4>3. \A n \in Review!Modes : n # m => FilesInv(n)'
          BY <2>3, <3>1, TodosApart DEF FilesInv
      <4>4. \A n \in Review!Modes : SheetInv(n)'
          BY <2>3, <3>1, TodosApart DEF SheetInv
      <4>5. BlindSheetInv'
          BY <2>3, <3>1, TodosApart DEF BlindSheetInv
      <4>6. OneFile(m) \in Todos
          BY DEF Todos, Review!Modes
      <4> QED BY <2>1, <2>3, <3>1, <4>2, <4>3, <4>4, <4>5, <4>6 DEF CommandInv
    <3>2. CASE m = "v1" /\ command.todo = Blind4 /\ Tail(command.todo) = Blind3
      <4>1. BlindSheetInv'
          BY <2>1, <2>2, <2>3, <3>2, TodosApart DEF CommandInv, BlindSheetInv
      <4>2. \A n \in Review!Modes : SheetInv(n)' /\ FilesInv(n)'
          BY <2>3, <3>2, TodosApart DEF SheetInv, FilesInv
      <4> QED BY <2>1, <2>3, <3>2, <4>1, <4>2 DEF CommandInv, Todos
    <3>3. CASE m = "v2" /\ command.todo = Blind3 /\ Tail(command.todo) = Blind2
      <4>0. "v1" # "v2" /\ "v1" \in Review!Modes
          BY DEF Review!Modes
      <4>1. BlindSheetInv'
          BY <2>1, <2>2, <2>3, <3>3, <4>0, TodosApart DEF CommandInv, BlindSheetInv
      <4>2. \A n \in Review!Modes : SheetInv(n)' /\ FilesInv(n)'
          BY <2>3, <3>3, TodosApart DEF SheetInv, FilesInv
      <4> QED BY <2>1, <2>3, <3>3, <4>1, <4>2 DEF CommandInv, Todos
    <3> QED BY <2>1, <3>1, <3>2, <3>3, WritesBind
  <2>8. ReviewReportInv' /\ FrozenInv' /\ KeyInv' /\ BlindInv' /\ JudgeInv' /\ UnsealInv'
      BY <2>1, <2>4 DEF ReviewInv, ReviewReportInv, FrozenInv, KeyInv, BlindInv, JudgeInv, UnsealInv
  <2> QED BY <2>6, <2>7, <2>8 DEF ReviewInv
<1> QED BY <1>0, <1>1 DEF Review!Bind

(* The key is that of the sheet. *)
LEMMA ReviewKey ==
    ASSUME ReviewInv, Review!WriteKey
    PROVE  ReviewInv'
<1>1. /\ Review!Writing(<<"key">>) /\ CommandInv /\ command' = Review!Next1
      /\ key' = [reports |-> command.reports, slots |-> command.slots]
      /\ UNCHANGED <<reports, source, labels, blind, sealed, judge, frozen, unsealed, written>>
    BY DEF Review!WriteKey, ReviewInv, Review!judgeVars, Review!resultVars, Review!bounds
<1>2. command.todo = Blind2 /\ Tail(command.todo) = Blind1
    BY <1>1, WritesKey
<1>3. /\ command'.todo = Blind1 /\ DOMAIN command' = DOMAIN command
      /\ "reports" \in DOMAIN command => command'.reports = command.reports
      /\ "slots" \in DOMAIN command => command'.slots = command.slots
    BY <1>1, <1>2, Advanced
<1>4. /\ "slots" \in DOMAIN command /\ "reports" \in DOMAIN command
      /\ blind = None /\ command.slots \in [Cases -> Review!Modes]
      /\ \A m \in Review!Modes : Known(command.reports[m], written)
           /\ source[m] = command.reports[m]
    BY <1>1, <1>2, TodosApart DEF CommandInv, BlindSheetInv, Review!Modes
<1>5. KeyInv'
    BY <1>1, <1>4 DEF KeyInv
<1>6. BlindSheetInv'
    BY <1>1, <1>3, <1>4, TodosApart DEF BlindSheetInv, Review!Modes
<1>7. \A n \in Review!Modes : SheetInv(n)' /\ FilesInv(n)'
    BY <1>3, TodosApart DEF SheetInv, FilesInv
<1>8. CommandInv'
    BY <1>1, <1>3, <1>6, <1>7 DEF CommandInv, Todos
<1>9. ReviewReportInv' /\ LabelInv' /\ FrozenInv' /\ BlindInv' /\ JudgeInv' /\ UnsealInv'
    BY <1>1, <1>4 DEF ReviewInv, ReviewReportInv, LabelInv, FrozenInv, BlindInv, JudgeInv, UnsealInv
<1> QED BY <1>5, <1>8, <1>9 DEF ReviewInv

(* The blind labels are blank. *)
LEMMA ReviewBlank ==
    ASSUME ReviewInv, Review!WriteBlind
    PROVE  ReviewInv'
<1>1. /\ Review!Writing(<<"blind">>) /\ CommandInv /\ command' = Review!Next1
      /\ UNCHANGED <<reports, source, labels, key, sealed, judge, frozen, unsealed, written>>
    BY DEF Review!WriteBlind, ReviewInv, Review!judgeVars, Review!resultVars, Review!bounds
<1>2. command.todo = Blind1 /\ Tail(command.todo) = <<>>
    BY <1>1, WritesBlind
<1>3. command'.todo = <<>> /\ DOMAIN command' = DOMAIN command
    BY <1>1, <1>2, Advanced
<1>4. key.slots = command.slots
    BY <1>1, <1>2, TodosApart DEF CommandInv, BlindSheetInv
<1>5. CommandInv'
    BY <1>1, <1>3, TodosApart DEF CommandInv, SheetInv, FilesInv, BlindSheetInv, Todos
<1>6. BlindInv'
  <2>1. DOMAIN blind' = Review!Answers
      BY DEF Review!WriteBlind
  <2>2. ASSUME NEW a \in Review!Answers, NEW m \in Review!Modes, m = Review!ModeIn(key.slots, a)
        PROVE  BlindOk(blind'[a], m, reports[m], source[m], frozen[m])
    <3>1. blind'[a] = Review!Given(Review!Blank, m, command.reports[m])
        BY <1>4, <2>2 DEF Review!WriteBlind
    <3> QED BY <3>1, NotLate, GivenIs, BlankIs DEF BlindOk, ReviewInv
  <2> QED BY <1>1, <2>1, <2>2 DEF BlindInv
<1>7. ReviewReportInv' /\ LabelInv' /\ FrozenInv' /\ KeyInv' /\ JudgeInv' /\ UnsealInv'
    BY <1>1 DEF ReviewInv, ReviewReportInv, LabelInv, FrozenInv, KeyInv, JudgeInv, UnsealInv
<1> QED BY <1>5, <1>6, <1>7 DEF ReviewInv

(* The labels of an arm are written whole. *)
LEMMA ReviewFiles ==
    ASSUME ReviewInv, NEW m \in Review!Modes, Review!WriteLabels(m)
    PROVE  ReviewInv'
<1>1. /\ Review!Writing(<<"labels", m>>) /\ CommandInv /\ PerMode(labels) /\ command' = Review!Next1
      /\ labels' = [labels EXCEPT ![m] = command.labels[m]]
      /\ UNCHANGED <<reports, source, key, blind, sealed, judge, frozen, unsealed, written>>
    BY DEF Review!WriteLabels, ReviewInv, LabelInv, Review!judgeVars, Review!resultVars,
           Review!bounds
<1>2. \/ command.todo = OneFile(m) /\ Tail(command.todo) = <<>>
      \/ m = "v1" /\ command.todo = BothFiles /\ Tail(command.todo) = OneFile("v2")
    BY <1>1, WritesLabels
<1>3. /\ command'.todo = Tail(command.todo) /\ DOMAIN command' = DOMAIN command
      /\ "labels" \in DOMAIN command => command'.labels = command.labels
    BY <1>1, Advanced
<1>4. /\ "labels" \in DOMAIN command /\ DOMAIN command.labels[m] = Cases
      /\ source[m] # None /\ FileOk(m, command.labels[m], source[m], frozen[m])
    BY <1>1, <1>2 DEF CommandInv, FilesInv
<1>5. /\ labels'[m] = command.labels[m] /\ PerMode(labels')
      /\ \A n \in Review!Modes : n # m => labels'[n] = labels[n]
    BY <1>1 DEF PerMode
<1>6. LabelInv'
    BY <1>1, <1>4, <1>5 DEF ReviewInv, LabelInv
<1>7. CommandInv'
  <2>1. CASE command.todo = OneFile(m) /\ Tail(command.todo) = <<>>
      BY <1>1, <1>3, <2>1, TodosApart DEF CommandInv, SheetInv, FilesInv, BlindSheetInv, Todos
  <2>2. CASE command.todo = BothFiles /\ Tail(command.todo) = OneFile("v2")
    <3>0. "v2" \in Review!Modes
        BY DEF Review!Modes
    <3>1. FilesInv("v2")'
        BY <1>1, <1>3, <2>2, <3>0 DEF CommandInv, FilesInv
    <3>2. \A n \in Review!Modes : n # "v2" => FilesInv(n)'
        BY <1>3, <2>2, <3>0, TodosApart DEF FilesInv
    <3>3. \A n \in Review!Modes : SheetInv(n)'
        BY <1>3, <2>2, <3>0, TodosApart DEF SheetInv
    <3>4. BlindSheetInv'
        BY <1>3, <2>2, <3>0, TodosApart DEF BlindSheetInv
    <3> QED BY <1>1, <1>3, <2>2, <3>1, <3>2, <3>3, <3>4 DEF CommandInv, Todos
  <2> QED BY <1>2, <2>1, <2>2
<1>8. ReviewReportInv' /\ FrozenInv' /\ KeyInv' /\ BlindInv' /\ JudgeInv' /\ UnsealInv'
    BY <1>1 DEF ReviewInv, ReviewReportInv, FrozenInv, KeyInv, BlindInv, JudgeInv, UnsealInv
<1> QED BY <1>6, <1>7, <1>8 DEF ReviewInv

(* A command that is over, or dead, has nothing left to write. *)
LEMMA IdleCommand == CommandInv /\ command' = Review!Idle => CommandInv'
<1> SUFFICES ASSUME CommandInv, command' = Review!Idle PROVE CommandInv'
    OBVIOUS
<1>1. command'.todo = <<>> /\ "todo" \in DOMAIN command'
    BY DEF Review!Idle
<1> QED BY <1>1, TodosApart DEF CommandInv, SheetInv, FilesInv, BlindSheetInv, Todos

(* A command ends. *)
LEMMA ReviewEnd ==
    ASSUME ReviewInv, Review!EndCommand
    PROVE  ReviewInv'
<1>1. CommandInv'
    BY IdleCommand DEF ReviewInv, Review!EndCommand
<1> QED BY <1>1, ReviewStart DEF Review!EndCommand

(* A death leaves the first labels of a file, or the file as it was. *)
LEMMA ReviewDies ==
    ASSUME ReviewInv, Review!Dies
    PROVE  ReviewInv'
<1>0. CommandInv' /\ UNCHANGED <<reports, source, key, blind, Review!judgeVars, Review!resultVars,
                                 Review!bounds>>
    BY IdleCommand DEF ReviewInv, Review!Dies
<1>1. CASE UNCHANGED labels
    BY <1>0, <1>1, ReviewStart
<1>2. CASE \E m \in Review!Modes, kept \in SUBSET Cases :
             /\ Review!Writing(<<"labels", m>>)
             /\ labels' = [labels EXCEPT ![m] = [t \in kept |-> command.labels[m][t]]]
  <2>1. PICK m \in Review!Modes, kept \in SUBSET Cases :
             /\ Review!Writing(<<"labels", m>>)
             /\ labels' = [labels EXCEPT ![m] = [t \in kept |-> command.labels[m][t]]]
      BY <1>2
  <2>2. CommandInv /\ PerMode(labels)
        /\ UNCHANGED <<reports, source, key, blind, sealed, judge, frozen, unsealed, written>>
      BY <1>0 DEF ReviewInv, LabelInv, Review!judgeVars, Review!resultVars, Review!bounds
  <2>3. /\ DOMAIN command.labels[m] = Cases /\ source[m] # None
        /\ FileOk(m, command.labels[m], source[m], frozen[m])
      BY <2>1, <2>2, WritesLabels DEF CommandInv, FilesInv
  <2>4. FileOk(m, [t \in kept |-> command.labels[m][t]], source[m], frozen[m])
      BY <2>3 DEF FileOk
  <2>5. /\ labels'[m] = [t \in kept |-> command.labels[m][t]] /\ PerMode(labels')
        /\ \A n \in Review!Modes : n # m => labels'[n] = labels[n]
      BY <2>1, <2>2 DEF PerMode
  <2>6. LabelInv'
      BY <2>2, <2>3, <2>4, <2>5 DEF ReviewInv, LabelInv
  <2>7. ReviewReportInv' /\ FrozenInv' /\ KeyInv' /\ BlindInv' /\ JudgeInv' /\ UnsealInv'
      BY <2>2 DEF ReviewInv, ReviewReportInv, FrozenInv, KeyInv, BlindInv, JudgeInv, UnsealInv
  <2> QED BY <1>0, <2>6, <2>7 DEF ReviewInv
<1> QED BY <1>1, <1>2 DEF Review!Dies

(* Judgements are complete and consistent labels. *)
LEMMA JudgementIs ==
    ASSUME NEW l \in Review!Judgements PROVE l \in Review!Label /\ Review!Consistent(l)
BY OfflineAssumption DEF Review!Judgements

(* A reviewer judges a blind answer. *)
LEMMA ReviewBlindLabel ==
    ASSUME ReviewInv, NEW a \in Review!Answers, NEW l \in Review!Judgements, Review!LabelBlind(a, l)
    PROVE  ReviewInv'
<1>1. /\ key # None /\ blind # None /\ a \in DOMAIN blind
      /\ UNCHANGED <<reports, source, labels, key, command, sealed, judge, frozen, unsealed,
                     written>>
    BY DEF Review!LabelBlind, Review!judgeVars, Review!resultVars, Review!bounds
<1>2. PICK m : m = Review!ModeIn(key.slots, a)
    OBVIOUS
<1>3. blind' = [blind EXCEPT ![a] = Review!Given(l, m, reports[m])]
    BY <1>2 DEF Review!LabelBlind
<1>4. BlindInv'
  <2>1. /\ DOMAIN blind' = DOMAIN blind /\ blind'[a] = Review!Given(l, m, reports[m])
        /\ \A b \in DOMAIN blind : b # a => blind'[b] = blind[b]
      BY <1>1, <1>3
  <2>2. ASSUME NEW n \in Review!Modes, n = m
        PROVE  BlindOk(blind'[a], n, reports[n], source[n], frozen[n])
      BY <2>1, <2>2, NotLate, GivenIs, JudgementIs DEF BlindOk, ReviewInv
  <2>3. ASSUME NEW b \in DOMAIN blind, b # a, NEW n \in Review!Modes,
               n = Review!ModeIn(key.slots, b)
        PROVE  BlindOk(blind'[b], n, reports[n], source[n], frozen[n])
      BY <1>1, <2>1, <2>3 DEF BlindInv, ReviewInv
  <2>4. DOMAIN blind \subseteq Review!Answers
      BY <1>1 DEF BlindInv, ReviewInv
  <2> QED BY <1>1, <1>2, <2>1, <2>2, <2>3, <2>4 DEF BlindInv
<1>5. CommandInv'
    BY <1>1 DEF ReviewInv, CommandInv, SheetInv, FilesInv, BlindSheetInv
<1>6. ReviewReportInv' /\ LabelInv' /\ FrozenInv' /\ KeyInv' /\ JudgeInv' /\ UnsealInv'
    BY <1>1 DEF ReviewInv, ReviewReportInv, LabelInv, FrozenInv, KeyInv, JudgeInv, UnsealInv
<1> QED BY <1>4, <1>5, <1>6 DEF ReviewInv

(* A reviewer judges, or judges again, an answer of an arm. *)
LEMMA ReviewEdit ==
    ASSUME ReviewInv, NEW m \in Review!Modes, NEW t \in Cases, NEW l \in Review!Judgements,
           Review!EditLabel(m, t, l)
    PROVE  ReviewInv'
<1>1. /\ labels[m] # None /\ t \in DOMAIN labels[m] /\ source[m] # None /\ PerMode(labels)
      /\ UNCHANGED <<reports, source, key, blind, command, sealed, judge, frozen, unsealed,
                     written>>
    BY DEF Review!EditLabel, Review!judgeVars, Review!resultVars, Review!bounds, ReviewInv, LabelInv
<1>2. PICK g : g = Review!Given(l, m, source[m])
    OBVIOUS
<1>3. labels' = [labels EXCEPT ![m] = [labels[m] EXCEPT ![t] = g]]
    BY <1>2 DEF Review!EditLabel
<1>4. /\ labels'[m] = [labels[m] EXCEPT ![t] = g] /\ PerMode(labels')
      /\ \A n \in Review!Modes : n # m => labels'[n] = labels[n]
    BY <1>1, <1>3 DEF PerMode
<1>5. Sound(g, m, source[m]) /\ (frozen[m] = None => ~ g.late)
    BY <1>2, NotLate, GivenIs, JudgementIs DEF Sound, ReviewInv
<1>6. FileOk(m, labels[m], source[m], frozen[m])
    BY <1>1 DEF ReviewInv, LabelInv
<1>7. FileOk(m, [labels[m] EXCEPT ![t] = g], source[m], frozen[m])
    BY <1>1, <1>5, <1>6 DEF FileOk
<1>8. LabelInv'
    BY <1>1, <1>4, <1>7 DEF ReviewInv, LabelInv
<1>9. CommandInv'
    BY <1>1 DEF ReviewInv, CommandInv, SheetInv, FilesInv, BlindSheetInv
<1>10. ReviewReportInv' /\ BlindInv' /\ FrozenInv' /\ KeyInv' /\ JudgeInv' /\ UnsealInv'
    BY <1>1 DEF ReviewInv, ReviewReportInv, BlindInv, FrozenInv, KeyInv, JudgeInv, UnsealInv
<1> QED BY <1>8, <1>9, <1>10 DEF ReviewInv

(* What is frozen is complete, consistent and of the report there is. *)
LEMMA ReviewFreeze ==
    ASSUME ReviewInv, NEW m \in Review!Modes, Review!Freeze(m)
    PROVE  ReviewInv'
<1>1. /\ frozen[m] = None /\ reports[m] # None /\ source[m] = reports[m] /\ labels[m] # None
      /\ DOMAIN labels[m] = Cases
      /\ \A t \in Cases : /\ Review!Complete(labels[m][t].label)
                          /\ ~(t \in reports[m].failed /\ labels[m][t].label.task_success = "yes")
    BY DEF Review!Freeze, Review!MayFreeze
<1>2. /\ UNCHANGED <<reports, source, labels, key, blind, command, sealed, judge, unsealed,
                     written>>
      /\ frozen' = [frozen EXCEPT ![m] = [labels |-> labels[m], report |-> reports[m]]]
      /\ PerMode(frozen)
    BY DEF Review!Freeze, Review!reviewVars, Review!judgeVars, Review!bounds, ReviewInv, FrozenInv
<1>3. /\ frozen'[m] = [labels |-> labels[m], report |-> reports[m]] /\ PerMode(frozen')
      /\ \A n \in Review!Modes : n # m => frozen'[n] = frozen[n]
    BY <1>2 DEF PerMode
<1>4. \A n \in Review!Modes : frozen[n] # None => frozen'[n] = frozen[n]
    BY <1>1, <1>3
<1>5. \A n \in Review!Modes : \A file, r :
        FileOk(n, file, r, frozen[n]) => FileOk(n, file, r, frozen'[n])
    BY <1>4 DEF FileOk
<1>6. \A n \in Review!Modes : \A g, r, s :
        BlindOk(g, n, r, s, frozen[n]) => BlindOk(g, n, r, s, frozen'[n])
    BY <1>4 DEF BlindOk
<1>7. LabelInv'
    BY <1>2, <1>5 DEF ReviewInv, LabelInv
<1>8. BlindInv'
    BY <1>2, <1>6 DEF ReviewInv, BlindInv
<1>9. CommandInv'
  <2>1. \A n \in Review!Modes : SheetInv(n)' /\ FilesInv(n)'
      BY <1>2, <1>5 DEF ReviewInv, CommandInv, SheetInv, FilesInv
  <2>2. BlindSheetInv'
      BY <1>2 DEF ReviewInv, CommandInv, BlindSheetInv
  <2> QED BY <1>2, <2>1, <2>2 DEF ReviewInv, CommandInv
<1>10. FrozenInv'
  <2>1. FileOk(m, labels[m], reports[m], None)
      BY <1>1 DEF ReviewInv, LabelInv
  <2>2. FrozenOk(m, frozen'[m])
      BY <1>1, <1>3, <2>1 DEF FrozenOk, FileOk
  <2> QED BY <1>2, <1>3, <2>2 DEF ReviewInv, FrozenInv
<1>11. UnsealInv'
    BY <1>2, <1>4 DEF ReviewInv, UnsealInv
<1>12. ReviewReportInv' /\ KeyInv' /\ JudgeInv'
    BY <1>2 DEF ReviewInv, ReviewReportInv, KeyInv, JudgeInv
<1> QED BY <1>7, <1>8, <1>9, <1>10, <1>11, <1>12 DEF ReviewInv

(* What the judge pass does is not seen by the reviewers. *)
LEMMA ReviewJudge ==
    ASSUME ReviewInv, JudgeInv', UNCHANGED <<reports, Review!reviewVars, Review!resultVars,
                                             Review!bounds>>
    PROVE  ReviewInv'
<1>1. UNCHANGED <<reports, source, labels, key, blind, command, frozen, unsealed, written>>
    BY DEF Review!reviewVars, Review!resultVars, Review!bounds
<1>2. CommandInv'
    BY <1>1 DEF ReviewInv, CommandInv, SheetInv, FilesInv, BlindSheetInv
<1> QED BY <1>1, <1>2 DEF ReviewInv, ReviewReportInv, LabelInv, BlindInv, FrozenInv, KeyInv,
                          UnsealInv

(* A judge pass starts, or is resumed on the report it judged. *)
LEMMA ReviewPassStarts ==
    ASSUME ReviewInv, NEW m \in Review!Modes, NEW resume \in BOOLEAN, Review!StartJudge(m, resume)
    PROVE  ReviewInv'
<1>1. /\ reports[m] # None /\ UNCHANGED <<reports, Review!reviewVars, Review!resultVars,
                                          Review!bounds>>
      /\ judge' = [mode |-> m, report |-> reports[m],
                  todo |-> Review!Open(sealed'[m]), limited |-> FALSE]
    BY DEF Review!StartJudge
<1>2. reports[m] \in Review!Report /\ Review!Open(sealed'[m]) \subseteq Cases
    BY <1>1 DEF ReviewInv, ReviewReportInv, Known, Review!Open
<1>3. judge' \in Pass /\ judge'.mode = m /\ judge'.report = reports[m]
    BY <1>1, <1>2 DEF Pass
<1>4. CASE sealed[m] = None /\ sealed' = [sealed EXCEPT ![m] = [header |-> None, cut |-> FALSE,
                                              verdicts |-> [t \in Cases |-> None]]]
  <2>1. /\ sealed'[m] = [header |-> None, cut |-> FALSE, verdicts |-> [t \in Cases |-> None]]
        /\ \A n \in Review!Modes : n # m => sealed'[n] = sealed[n]
      BY <1>4 DEF ReviewInv, JudgeInv
  <2>2. sealed'[m] \in SealedFile /\ \A t \in Cases : sealed'[m].verdicts[t] # "graded"
      BY <2>1, OfflineAssumption DEF SealedFile, Verdict
  <2>3. sealed' \in [Review!Modes -> SealedFile \cup {None}]
      BY <1>4, <2>1, <2>2 DEF ReviewInv, JudgeInv
  <2>4. \A n \in Review!Modes : sealed'[n] # None => SealedOk(sealed'[n])
      BY <2>1, <2>2 DEF ReviewInv, JudgeInv, SealedOk
  <2>5. JudgeInv'
      BY <1>3, <2>2, <2>3, <2>4 DEF JudgeInv
  <2> QED BY <1>1, <2>5, ReviewJudge
<1>5. CASE sealed[m] # None /\ sealed[m].header = reports[m] /\ UNCHANGED sealed
  <2>1. sealed[m] \in SealedFile /\ SealedOk(sealed[m])
      BY <1>5 DEF ReviewInv, JudgeInv
  <2>2. JudgeInv'
      BY <1>3, <1>5, <2>1 DEF ReviewInv, JudgeInv
  <2> QED BY <1>1, <2>2, ReviewJudge
<1> QED BY <1>4, <1>5 DEF Review!StartJudge

(* A verdict is appended, after the name of the report. *)
LEMMA ReviewVerdict ==
    ASSUME ReviewInv, NEW t \in Cases, NEW verdict \in Verdict, Review!JudgeRow(t, verdict)
    PROVE  ReviewInv'
<1>1. /\ judge # None /\ t \in judge.todo /\ verdict \in Review!Verdicts(t)
      /\ judge' = [judge EXCEPT !.todo = @ \ {t}, !.limited = verdict = "provider_limit"]
      /\ UNCHANGED <<reports, Review!reviewVars, Review!resultVars, Review!bounds>>
    BY DEF Review!JudgeRow
<1>2. PICK m \in Review!Modes : m = judge.mode
    BY <1>1 DEF ReviewInv, JudgeInv, Pass
<1>3. /\ judge \in Pass /\ sealed[m] \in SealedFile
      /\ \/ sealed[m].header = judge.report /\ SealedOk(sealed[m])
         \/ \A k \in Cases : sealed[m].verdicts[k] # "graded"
      /\ sealed \in [Review!Modes -> SealedFile \cup {None}]
    BY <1>1, <1>2 DEF ReviewInv, JudgeInv
<1>4. PICK file : file = [header |-> judge.report, cut |-> sealed[m].cut,
                          verdicts |-> [sealed[m].verdicts EXCEPT ![t] = verdict]]
    OBVIOUS
<1>5. sealed' = [sealed EXCEPT ![m] = file]
  <2>1. PICK mid : mid = [sealed[m] EXCEPT !.header = judge.report]
      OBVIOUS
  <2>2. PICK v : v = [sealed[m].verdicts EXCEPT ![t] = verdict]
      OBVIOUS
  <2>3. mid = [header |-> judge.report, cut |-> sealed[m].cut, verdicts |-> sealed[m].verdicts]
      BY <1>3, <2>1 DEF SealedFile
  <2>4. sealed' = [sealed EXCEPT ![m] = [mid EXCEPT !.verdicts = v]]
      BY <1>2, <1>3, <2>1, <2>2 DEF Review!JudgeRow, SealedFile
  <2>5. [mid EXCEPT !.verdicts = v]
          = [header |-> judge.report, cut |-> sealed[m].cut, verdicts |-> v]
      BY <2>3
  <2>6. [mid EXCEPT !.verdicts = v] = file
      BY <1>4, <2>2, <2>5
  <2> QED BY <2>4, <2>6
<1>6. file \in SealedFile
  <2>1. judge.report \in Review!Report
      BY <1>3 DEF Pass
  <2>2. [sealed[m].verdicts EXCEPT ![t] = verdict] \in [Cases -> Verdict]
      BY <1>3 DEF SealedFile
  <2> QED BY <1>3, <1>4, <2>1, <2>2 DEF SealedFile
<1>7. SealedOk(file)
  <2>1. verdict = "graded" => t \notin judge.report.failed
      BY <1>1 DEF Review!Verdicts
  <2>2. ASSUME NEW k \in Cases, k # t, file.verdicts[k] = "graded"
        PROVE  k \notin file.header.failed
      BY <1>3, <1>4, <2>2 DEF SealedOk, SealedFile
  <2>3. file.header = judge.report /\ file.verdicts[t] = verdict
      BY <1>3, <1>4 DEF SealedFile
  <2> QED BY <2>1, <2>2, <2>3 DEF SealedOk
<1>8. judge' \in Pass /\ judge'.mode = m /\ judge'.report = judge.report
    BY <1>1, <1>2, <1>3 DEF Pass
<1>9. sealed'[m] = file /\ \A n \in Review!Modes : n # m => sealed'[n] = sealed[n]
    BY <1>3, <1>5
<1>10. sealed' \in [Review!Modes -> SealedFile \cup {None}]
    BY <1>3, <1>5, <1>6
<1>11. file.header = judge.report
    BY <1>4
<1>12. JudgeInv'
    BY <1>6, <1>7, <1>8, <1>9, <1>10, <1>11 DEF ReviewInv, JudgeInv
<1> QED BY <1>1, <1>12, ReviewJudge

(* A judge pass ends or dies. *)
LEMMA ReviewPassEnds ==
    ASSUME ReviewInv, Review!JudgeEnds
    PROVE  ReviewInv'
<1>1. judge # None /\ judge' = None /\ UNCHANGED <<reports, Review!reviewVars, Review!resultVars,
                                                   Review!bounds>>
    BY DEF Review!JudgeEnds
<1>2. CASE UNCHANGED sealed
  <2>1. JudgeInv'
      BY <1>1, <1>2 DEF ReviewInv, JudgeInv
  <2> QED BY <1>1, <2>1, ReviewJudge
<1>3. CASE sealed' = [sealed EXCEPT ![judge.mode].cut = TRUE]
  <2>1. PICK m \in Review!Modes : m = judge.mode
      BY <1>1 DEF ReviewInv, JudgeInv, Pass
  <2>2. /\ sealed[m] \in SealedFile /\ SealedOk(sealed[m]) /\ judge.mode = m
        /\ sealed \in [Review!Modes -> SealedFile \cup {None}]
      BY <1>1, <2>1 DEF ReviewInv, JudgeInv, SealedOk
  <2>3. PICK file : file = [sealed[m] EXCEPT !.cut = TRUE]
      OBVIOUS
  <2>4. file \in SealedFile /\ file.header = sealed[m].header /\ file.verdicts = sealed[m].verdicts
      BY <2>2, <2>3 DEF SealedFile
  <2>5. sealed' = [sealed EXCEPT ![m] = file]
      BY <1>3, <2>1, <2>3
  <2>6. JudgeInv'
    <3>1. sealed'[m] = file /\ \A n \in Review!Modes : n # m => sealed'[n] = sealed[n]
        BY <2>2, <2>5
    <3>2. SealedOk(file)
        BY <2>2, <2>4 DEF SealedOk
    <3>3. sealed' \in [Review!Modes -> SealedFile \cup {None}]
        BY <2>2, <2>4, <2>5
    <3> QED BY <1>1, <3>1, <3>2, <3>3 DEF ReviewInv, JudgeInv
  <2> QED BY <1>1, <2>6, ReviewJudge
<1> QED BY <1>2, <1>3 DEF Review!JudgeEnds

(* Verdicts are unsealed once the labels are frozen. *)
LEMMA ReviewAgreement ==
    ASSUME ReviewInv, NEW m \in Review!Modes, Review!Agreement(m)
    PROVE  ReviewInv'
<1>1. /\ frozen[m] # None /\ sealed[m] # None /\ sealed[m].header = frozen[m].report
      /\ unsealed' = unsealed \cup {Review!Unsealing(m)}
      /\ UNCHANGED <<reports, Review!reviewVars, Review!judgeVars, frozen, Review!bounds>>
    BY DEF Review!Agreement, Review!CheckFrozen, Review!Readable
<1>2. UNCHANGED <<reports, source, labels, key, blind, command, sealed, judge, frozen, written>>
    BY <1>1 DEF Review!reviewVars, Review!judgeVars, Review!bounds
<1>3. SealedOk(sealed[m])
    BY <1>1 DEF ReviewInv, JudgeInv
<1>4. UnsealInv'
    BY <1>1, <1>3 DEF ReviewInv, UnsealInv, Review!Unsealing, SealedOk
<1>5. CommandInv'
    BY <1>2 DEF ReviewInv, CommandInv, SheetInv, FilesInv, BlindSheetInv
<1> QED BY <1>2, <1>4, <1>5
        DEF ReviewInv, ReviewReportInv, LabelInv, BlindInv, FrozenInv, KeyInv, JudgeInv

(* Every step of the review. *)
LEMMA ReviewStep == ReviewInv /\ [Review!Next]_reviewVars => ReviewInv'
<1> SUFFICES ASSUME ReviewInv, [Review!Next]_reviewVars PROVE ReviewInv'
    OBVIOUS
<1>1. CASE UNCHANGED reviewVars
  <2>1. UNCHANGED <<reports, source, labels, frozen, key, blind, sealed, judge, unsealed, command,
                    written>>
      BY <1>1 DEF reviewVars, Review!reviewVars, Review!judgeVars, Review!resultVars, Review!bounds
  <2> QED BY <2>1 DEF ReviewInv, ReviewReportInv, LabelInv, BlindInv, FrozenInv, KeyInv, JudgeInv,
                      UnsealInv, CommandInv, SheetInv, FilesInv, BlindSheetInv
<1>2. ASSUME NEW t \in Cases, NEW v \in {"graded", "execution_failure", "provider_limit"},
             Review!JudgeRow(t, v)
      PROVE  ReviewInv'
    BY <1>2, ReviewVerdict DEF Verdict
<1> QED BY <1>1, <1>2, ReviewReport, ReviewSheet, ReviewBlindSheet, ReviewUnblind, ReviewBind,
           ReviewKey, ReviewBlank, ReviewFiles, ReviewEnd, ReviewDies, ReviewBlindLabel,
           ReviewEdit, ReviewFreeze, ReviewPassStarts, ReviewPassEnds, ReviewAgreement
        DEF Review!Next

(* What may be reported of an arm is what was frozen of the report there is. *)
LEMMA Reportable ==
    ASSUME ReviewInv, NEW m \in Review!Modes, Review!MayReport(m)
    PROVE  FrozenOk(m, [labels |-> labels[m], report |-> reports[m]])
<1>1. frozen[m] # None /\ frozen[m].report = reports[m] /\ labels[m] = frozen[m].labels
    BY DEF Review!MayReport, Review!CheckFrozen
<1>2. FrozenOk(m, frozen[m])
    BY <1>1 DEF ReviewInv, FrozenInv
<1> QED BY <1>1, <1>2 DEF FrozenOk

(* It rests on judgements of the answers reported. *)
LEMMA ReviewReported == ReviewInv => Review!ReportedLabelsAreReviews
<1> SUFFICES ASSUME ReviewInv, NEW m \in Review!Modes, Review!MayReport(m)
             PROVE  /\ DOMAIN labels[m] = Cases
                    /\ \A t \in Cases :
                         LET given == labels[m][t]
                         IN  /\ Review!Complete(given.label)
                             /\ given.mode = m /\ given.report = reports[m]
                             /\ ~(t \in reports[m].failed /\ given.label.task_success = "yes")
    BY DEF Review!ReportedLabelsAreReviews
<1> QED BY Reportable DEF FrozenOk, Sound

(* It was judged before a verdict was read. *)
LEMMA ReviewOutcomes == ReviewInv => Review!OutcomesPredateVerdicts
<1> SUFFICES ASSUME ReviewInv PROVE Review!OutcomesPredateVerdicts
    OBVIOUS
<1>1. ASSUME NEW m \in Review!Modes, Review!MayReport(m), NEW t \in Cases PROVE ~ labels[m][t].late
    BY <1>1, Reportable DEF FrozenOk
<1> QED BY <1>1 DEF Review!OutcomesPredateVerdicts, ReviewInv, UnsealInv

-----------------------------------------------------------------------------
(***************************************************************************)
(* The export of runs.                                                     *)
(*                                                                         *)
(* What is proved inductive: while a run has no marker, each of its traces *)
(* is that of a process about to open the marker, or of one that died      *)
(* there; and of the processes that found nobody else exporting the run,   *)
(* one at most is to emit spans, and none once such a trace is out.        *)
(***************************************************************************)

ExportSteps == {Exports!Idle} \cup [run: Runs, step: {"check"}]
               \cup [run: Runs, step: {"emit"}, raced: BOOLEAN]
               \cup [run: Runs, step: {"mark", "write"}, trace: Nat \ {0}]

Emissions == [run: Runs, raced: BOOLEAN]

ExportTypes ==
    /\ doing \in [Exports!Processes -> ExportSteps]
    /\ emitted \in Seq(Emissions) /\ marker \in [Runs -> {None} \cup Nat]
    /\ \A p \in Exports!Processes \ up : doing[p] = Exports!Idle

IsAt(p, r, step) == doing[p].run = r /\ doing[p].step = step

\* Process p is to emit the spans of r, and found nobody else at it.
EmitsAlone(p, r) == IsAt(p, r, "emit") /\ ~ doing[p].raced

\* Trace t of r is one of a process that found nobody else at it.
Alone(t, r) == t \in Exports!TracesOf(r) /\ ~ emitted[t].raced

ExportOf(r) ==
    /\ \A p \in Exports!Processes : IsAt(p, r, "mark") \/ IsAt(p, r, "write")
          => doing[p].trace \in Exports!TracesOf(r)
    /\ marker[r] = None => \A t \in Exports!TracesOf(r) :
          t \in unmarked \/ \E p \in Exports!Processes : IsAt(p, r, "mark") /\ doing[p].trace = t
    /\ \A p, q \in Exports!Processes : EmitsAlone(p, r) /\ EmitsAlone(q, r) => p = q
    /\ \A p \in Exports!Processes, t \in DOMAIN emitted :
          EmitsAlone(p, r) /\ Alone(t, r) => t \in unmarked
    /\ \A t, u \in DOMAIN emitted : t < u /\ Alone(t, r) /\ Alone(u, r) => t \in unmarked
    /\ marker[r] \in {None, Exports!Cut} \cup Exports!TracesOf(r)

ExportInv == ExportTypes /\ \A r \in Runs : ExportOf(r)

(* A trace more is one of its run, after all others. *)
LEMMA TraceAdded ==
    ASSUME emitted \in Seq(Emissions), NEW e \in Emissions, emitted' = Append(emitted, e)
    PROVE  \E t \in Nat \ {0} :
             /\ t = Len(emitted) + 1 /\ emitted' \in Seq(Emissions)
             /\ t \notin DOMAIN emitted /\ DOMAIN emitted' = DOMAIN emitted \cup {t}
             /\ emitted'[t] = e
             /\ \A u \in DOMAIN emitted : u \in Nat /\ u < t /\ emitted'[u] = emitted[u]
             /\ \A r : Exports!TracesOf(r)' =
                    IF r = e.run THEN Exports!TracesOf(r) \cup {t} ELSE Exports!TracesOf(r)
<1>1. /\ Len(emitted) \in Nat /\ DOMAIN emitted = 1 .. Len(emitted)
      /\ emitted' \in Seq(Emissions) /\ DOMAIN emitted' = 1 .. Len(emitted) + 1
      /\ \A i \in 1 .. Len(emitted) : emitted'[i] = emitted[i]
      /\ emitted'[Len(emitted) + 1] = e
    BY AppendProperties
<1> DEFINE n == Len(emitted)
<1> HIDE DEF n
<1>2. n \in Nat /\ DOMAIN emitted = 1 .. n /\ DOMAIN emitted' = 1 .. n + 1
      /\ (\A i \in 1 .. n : emitted'[i] = emitted[i]) /\ emitted'[n + 1] = e
    BY <1>1 DEF n
<1>3. /\ n + 1 \in Nat \ {0} /\ n + 1 \notin DOMAIN emitted
      /\ DOMAIN emitted' = DOMAIN emitted \cup {n + 1}
      /\ \A u \in DOMAIN emitted : u \in Nat /\ u < n + 1 /\ emitted'[u] = emitted[u]
    BY <1>2
<1>4. \A r : Exports!TracesOf(r)' =
          IF r = e.run THEN Exports!TracesOf(r) \cup {n + 1} ELSE Exports!TracesOf(r)
    BY <1>2, <1>3 DEF Exports!TracesOf
<1>5. n + 1 = Len(emitted) + 1
    BY DEF n
<1> QED BY <1>1, <1>2, <1>3, <1>4, <1>5

(* Nothing has been exported. *)
LEMMA ExportInit == Exports!Init => ExportInv
<1> SUFFICES ASSUME Exports!Init PROVE ExportInv
    OBVIOUS
<1>1. ExportTypes
    BY DEF Exports!Init, ExportTypes, ExportSteps
<1>2. \A r \in Runs : Exports!TracesOf(r) = {}
    BY DEF Exports!Init, Exports!TracesOf
<1>3. ASSUME NEW r \in Runs PROVE ExportOf(r)
    BY <1>2, <1>3 DEF Exports!Init, ExportOf, IsAt, EmitsAlone, Alone, Exports!Idle
<1> QED BY <1>1, <1>3 DEF ExportInv

(* A process that takes up a run, or leaves one without a trace to mark,      *)
(* changes nothing for the runs.                                              *)
LEMMA ExportLeaves ==
    ASSUME ExportTypes, NEW r \in Runs, ExportOf(r), NEW p \in Exports!Processes,
           UNCHANGED <<marker, emitted>>, unmarked \subseteq unmarked',
           \A q \in Exports!Processes \ {p} : doing'[q] = doing[q],
           doing'[p].step \in {"idle", "check"},
           doing[p].step = "mark" => doing[p].trace \in unmarked'
    PROVE  ExportOf(r)'
<1>1. Exports!TracesOf(r)' = Exports!TracesOf(r)
    BY DEF Exports!TracesOf
<1>2. \A t : Alone(t, r)' <=> Alone(t, r)
    BY <1>1 DEF Alone
<1>3. \A q \in Exports!Processes : EmitsAlone(q, r)' => EmitsAlone(q, r) /\ q # p
    BY DEF EmitsAlone, IsAt
<1>4. \A q \in Exports!Processes : IsAt(q, r, "mark")' \/ IsAt(q, r, "write")'
          => /\ IsAt(q, r, "mark") \/ IsAt(q, r, "write")
             /\ doing'[q] = doing[q]
    BY DEF IsAt
<1>5. \A q \in Exports!Processes : IsAt(q, r, "mark")
          => \/ doing[q].trace \in unmarked'
             \/ IsAt(q, r, "mark")' /\ doing'[q].trace = doing[q].trace
    BY DEF IsAt
<1>6. marker[r] = None => \A t \in Exports!TracesOf(r) :
          t \in unmarked' \/ \E q \in Exports!Processes : IsAt(q, r, "mark")' /\ doing'[q].trace = t
    BY <1>5 DEF ExportOf
<1>7. \A q \in Exports!Processes : IsAt(q, r, "mark")' \/ IsAt(q, r, "write")'
          => doing'[q].trace \in Exports!TracesOf(r)
    BY <1>4 DEF ExportOf
<1>8. \A q \in Exports!Processes, t \in DOMAIN emitted :
          EmitsAlone(q, r)' /\ Alone(t, r) => t \in unmarked'
    BY <1>3 DEF ExportOf
<1>9. \A t, u \in DOMAIN emitted : t < u /\ Alone(t, r) /\ Alone(u, r) => t \in unmarked'
    BY DEF ExportOf
<1>10. \A q, o \in Exports!Processes : EmitsAlone(q, r)' /\ EmitsAlone(o, r)' => q = o
    BY <1>3 DEF ExportOf
<1>11. marker[r] \in {None, Exports!Cut} \cup Exports!TracesOf(r)
    BY DEF ExportOf
<1> QED BY <1>1, <1>2, <1>6, <1>7, <1>8, <1>9, <1>10, <1>11 DEF ExportOf

(* One process takes a step of its export; the others and the other runs stay. *)
LEMMA ExportStep == ExportInv /\ [Exports!Next]_traceVars => ExportInv'
<1> SUFFICES ASSUME ExportInv, [Exports!Next]_traceVars PROVE ExportInv'
    OBVIOUS
<1>0. ExportTypes /\ \A r \in Runs : ExportOf(r)
    BY DEF ExportInv
<1>t. ASSUME UNCHANGED emitted
      PROVE  /\ \A r : Exports!TracesOf(r)' = Exports!TracesOf(r)
             /\ \A t, r : Alone(t, r)' <=> Alone(t, r)
    BY <1>t DEF Exports!TracesOf, Alone
<1>1. ASSUME UNCHANGED <<doing, emitted, marker, up, unmarked>> PROVE ExportInv'
  <2>1. \A q, r, x : IsAt(q, r, x)' <=> IsAt(q, r, x)
      BY <1>1 DEF IsAt
  <2>2. \A q, r : EmitsAlone(q, r)' <=> EmitsAlone(q, r)
      BY <1>1, <2>1 DEF EmitsAlone
  <2>3. ASSUME NEW r \in Runs PROVE ExportOf(r)'
      BY <1>0, <1>1, <1>t, <2>1, <2>2 DEF ExportOf
  <2> QED BY <1>0, <1>1, <2>3 DEF ExportInv, ExportTypes
<1>2. ASSUME NEW p \in Exports!Processes, NEW r \in Runs,
             Exports!EndRun(p, r) \/ Exports!RecoverRun(p, r) \/ Exports!StartScript(p, r)
      PROVE  ExportInv'
  <2>1. /\ doing' = [doing EXCEPT ![p] = Exports!Export(r, "check")]
        /\ UNCHANGED <<marker, emitted, up, unmarked>> /\ p \in up /\ doing[p] = Exports!Idle
      BY <1>2 DEF Exports!EndRun, Exports!RecoverRun, Exports!StartScript, Exports!outVars
  <2>2. ExportTypes'
      BY <1>0, <2>1 DEF ExportTypes, Exports!Export, ExportSteps
  <2>3. /\ \A q \in Exports!Processes \ {p} : doing'[q] = doing[q]
        /\ doing'[p].step \in {"idle", "check"} /\ doing[p].step # "mark"
      BY <1>0, <2>1 DEF ExportTypes, Exports!Export, Exports!Idle
  <2>4. \A s \in Runs : ExportOf(s)'
      BY <1>0, <2>1, <2>3, ExportLeaves
  <2> QED BY <2>2, <2>4 DEF ExportInv
<1>3. ASSUME NEW p \in Exports!Processes, Exports!CheckMarker(p) PROVE ExportInv'
  <2> DEFINE r == doing[p].run
  <2>0. r \in Runs /\ doing[p].step = "check"
      BY <1>0, <1>3 DEF ExportTypes, ExportSteps, Exports!CheckMarker, Exports!Idle
  <2>a. UNCHANGED <<marker, emitted, unmarked>> /\ p \in up /\ doing[p].step = "check"
      BY <1>3 DEF Exports!CheckMarker, Exports!outVars
  <2>1. CASE marker[r] = None
    <3>1. doing' = [doing EXCEPT ![p] = Exports!Emit(r)] /\ UNCHANGED up
        BY <1>3, <2>1 DEF Exports!CheckMarker
    <3> HIDE DEF r
    <3>2. Exports!Emit(r) \in [run: Runs, step: {"emit"}, raced: BOOLEAN]
        BY <2>0 DEF Exports!Emit
    <3>3. ExportTypes'
        BY <1>0, <2>a, <3>1, <3>2 DEF ExportTypes, ExportSteps
    <3>4. /\ \A q \in Exports!Processes \ {p} : doing'[q] = doing[q]
          /\ doing'[p].run = r /\ doing'[p].step = "emit"
          /\ ~ doing'[p].raced => Exports!Exporting(r) = {}
        BY <1>0, <3>1 DEF ExportTypes, Exports!Emit
    <3>5. ASSUME NEW s \in Runs PROVE ExportOf(s)'
      <4>1. ExportOf(s)
          BY <1>0
      <4>2. \A q \in Exports!Processes \ {p} : EmitsAlone(q, s)' <=> EmitsAlone(q, s)
          BY <3>4 DEF EmitsAlone, IsAt
      <4>3. \A q \in Exports!Processes, x \in {"mark", "write"} :
                (IsAt(q, s, x)' <=> IsAt(q, s, x)) /\ (IsAt(q, s, x) => doing'[q] = doing[q])
          BY <2>a, <3>4 DEF IsAt
      <4>4. EmitsAlone(p, s)'
              => /\ \A q \in Exports!Processes : ~ EmitsAlone(q, s) /\ ~ IsAt(q, s, "mark")
                 /\ marker[s] = None
        <5>1. SUFFICES ASSUME EmitsAlone(p, s)', NEW q \in Exports!Processes,
                              IsAt(q, s, "emit") \/ IsAt(q, s, "mark")
                       PROVE  FALSE
          <6>1. EmitsAlone(p, s)' => marker[s] = None
              BY <2>1, <3>4 DEF EmitsAlone, IsAt, r
          <6> QED BY <6>1 DEF EmitsAlone
        <5>2. s = r /\ Exports!Exporting(r) = {}
            BY <3>4, <5>1 DEF EmitsAlone, IsAt
        <5>3. q \in up
            BY <1>0, <5>1 DEF ExportTypes, IsAt, Exports!Idle
        <5> QED BY <5>1, <5>2, <5>3 DEF Exports!Exporting, IsAt
      <4>5. \A q, o \in Exports!Processes : EmitsAlone(q, s)' /\ EmitsAlone(o, s)' => q = o
          BY <4>1, <4>2, <4>4 DEF ExportOf
      <4>6. \A q \in Exports!Processes, t \in DOMAIN emitted :
                EmitsAlone(q, s)' /\ Alone(t, s) => t \in unmarked
        <5>1. ASSUME NEW t \in DOMAIN emitted, EmitsAlone(p, s)', Alone(t, s)
              PROVE  t \in unmarked
            BY <4>1, <4>4, <5>1 DEF ExportOf, Alone
        <5> QED BY <4>1, <4>2, <5>1 DEF ExportOf
      <4> QED BY <1>t, <2>a, <4>1, <4>3, <4>5, <4>6 DEF ExportOf
    <3> QED BY <3>3, <3>5 DEF ExportInv
  <2>2. CASE marker[r] # None
    <3>1. /\ doing' = [doing EXCEPT ![p] = Exports!Idle] /\ up \ {p} \subseteq up'
        BY <1>3, <2>2 DEF Exports!CheckMarker
    <3>2. ExportTypes'
        BY <1>0, <2>a, <3>1 DEF ExportTypes, ExportSteps
    <3>3. /\ \A q \in Exports!Processes \ {p} : doing'[q] = doing[q]
          /\ doing'[p].step \in {"idle", "check"} /\ doing[p].step # "mark"
        BY <1>0, <2>a, <3>1 DEF ExportTypes, Exports!Idle
    <3>4. \A s \in Runs : ExportOf(s)'
        BY <1>0, <2>a, <3>3, ExportLeaves
    <3> QED BY <3>2, <3>4 DEF ExportInv
  <2> QED BY <2>1, <2>2
<1>4. ASSUME NEW p \in Exports!Processes, Exports!SkipRun(p) PROVE ExportInv'
  <2>1. /\ doing' = [doing EXCEPT ![p] = Exports!Idle] /\ UNCHANGED <<marker, emitted, unmarked>>
        /\ up \ {p} \subseteq up' /\ doing[p].step = "emit"
      BY <1>4 DEF Exports!SkipRun, Exports!outVars
  <2>2. ExportTypes'
      BY <1>0, <2>1 DEF ExportTypes, ExportSteps
  <2>3. /\ \A q \in Exports!Processes \ {p} : doing'[q] = doing[q]
        /\ doing'[p].step \in {"idle", "check"} /\ doing[p].step # "mark"
      BY <1>0, <2>1 DEF ExportTypes, Exports!Idle
  <2>4. \A s \in Runs : ExportOf(s)'
      BY <1>0, <2>1, <2>3, ExportLeaves
  <2> QED BY <2>2, <2>4 DEF ExportInv
<1>5. ASSUME NEW p \in Exports!Processes, Exports!EmitSpans(p) PROVE ExportInv'
  <2> DEFINE r == doing[p].run
             e == [run |-> r, raced |-> doing[p].raced]
  <2>0. e \in Emissions /\ r \in Runs
      BY <1>0, <1>5 DEF ExportTypes, ExportSteps, Exports!EmitSpans, Exports!Idle, Emissions
  <2>1. /\ doing' = [doing EXCEPT ![p] = [run |-> r, step |-> "mark",
                                          trace |-> Len(emitted) + 1]]
        /\ emitted' = Append(emitted, e)
        /\ UNCHANGED <<marker, up, unmarked>> /\ p \in up /\ doing[p].step = "emit"
      BY <1>5 DEF Exports!EmitSpans
  <2>2. emitted \in Seq(Emissions)
      BY <1>0 DEF ExportTypes
  <2>r. doing[p].run = r /\ e.run = r /\ (e.raced <=> doing[p].raced)
      OBVIOUS
  <2> HIDE DEF r, e
  <2>3. PICK t \in Nat \ {0} :
             /\ t = Len(emitted) + 1 /\ emitted' \in Seq(Emissions)
             /\ t \notin DOMAIN emitted /\ DOMAIN emitted' = DOMAIN emitted \cup {t}
             /\ emitted'[t] = e
             /\ \A u \in DOMAIN emitted : u \in Nat /\ u < t /\ emitted'[u] = emitted[u]
             /\ \A s : Exports!TracesOf(s)' =
                    IF s = e.run THEN Exports!TracesOf(s) \cup {t} ELSE Exports!TracesOf(s)
      BY <2>0, <2>1, <2>2, TraceAdded
  <2>4. ExportTypes'
      BY <1>0, <2>0, <2>1, <2>3 DEF ExportTypes, ExportSteps
  <2>5. /\ \A q \in Exports!Processes \ {p} : doing'[q] = doing[q]
        /\ doing'[p].run = r /\ doing'[p].step = "mark" /\ doing'[p].trace = t
      BY <1>0, <2>1, <2>3 DEF ExportTypes
  <2>6. ASSUME NEW s \in Runs PROVE ExportOf(s)'
    <3>1. ExportOf(s)
        BY <1>0
    <3>2. \A q \in Exports!Processes : EmitsAlone(q, s)' => EmitsAlone(q, s) /\ q # p
        BY <2>5 DEF EmitsAlone, IsAt
    <3>3. \A u \in DOMAIN emitted : Alone(u, s)' <=> Alone(u, s)
        BY <2>3 DEF Alone
    <3>4. Alone(t, s)' => s = r /\ EmitsAlone(p, s)
      <4>1. t \notin Exports!TracesOf(s)
          BY <2>3 DEF Exports!TracesOf
      <4> QED BY <2>1, <2>3, <2>r, <4>1 DEF Alone, EmitsAlone, IsAt
    <3>5. \A q \in Exports!Processes \ {p} : \A x :
              IsAt(q, s, x)' <=> IsAt(q, s, x)
        BY <2>5 DEF IsAt
    <3>6. IsAt(p, s, "mark")' <=> s = r
        BY <2>5 DEF IsAt
    <3>7. ~ IsAt(p, s, "write")' /\ ~ IsAt(p, s, "mark") /\ ~ IsAt(p, s, "write")
        BY <2>1, <2>5 DEF IsAt
    <3>8. \A q \in Exports!Processes : IsAt(q, s, "mark")' \/ IsAt(q, s, "write")'
              => doing'[q].trace \in Exports!TracesOf(s)'
        BY <2>3, <2>5, <2>r, <3>1, <3>5, <3>6, <3>7 DEF ExportOf
    <3>9. marker[s] = None => \A u \in Exports!TracesOf(s)' :
              u \in unmarked
              \/ \E q \in Exports!Processes : IsAt(q, s, "mark")' /\ doing'[q].trace = u
      <4>1. ASSUME marker[s] = None, NEW u \in Exports!TracesOf(s), u \notin unmarked
            PROVE  \E q \in Exports!Processes : IsAt(q, s, "mark")' /\ doing'[q].trace = u
        <5>1. PICK q \in Exports!Processes : IsAt(q, s, "mark") /\ doing[q].trace = u
            BY <3>1, <4>1 DEF ExportOf
        <5> QED BY <2>5, <3>5, <3>7, <5>1
      <4>2. s = r => IsAt(p, s, "mark")' /\ doing'[p].trace = t
          BY <2>5, <3>6
      <4> QED BY <2>3, <2>r, <4>1, <4>2
    <3>10. \A q, o \in Exports!Processes : EmitsAlone(q, s)' /\ EmitsAlone(o, s)' => q = o
        BY <3>1, <3>2 DEF ExportOf
    <3>11. \A q \in Exports!Processes, u \in DOMAIN emitted' :
              EmitsAlone(q, s)' /\ Alone(u, s)' => u \in unmarked
      <4>1. ASSUME NEW q \in Exports!Processes, EmitsAlone(q, s)', Alone(t, s)'
            PROVE  FALSE
        <5>1. EmitsAlone(q, s) /\ EmitsAlone(p, s) /\ q # p
            BY <3>2, <3>4, <4>1
        <5> QED BY <3>1, <5>1 DEF ExportOf
      <4>2. ASSUME NEW q \in Exports!Processes, NEW u \in DOMAIN emitted,
                   EmitsAlone(q, s)', Alone(u, s)'
            PROVE  u \in unmarked
          BY <3>1, <3>2, <3>3, <4>2 DEF ExportOf
      <4> QED BY <2>3, <4>1, <4>2
    <3>12. \A u, v \in DOMAIN emitted' : u < v /\ Alone(u, s)' /\ Alone(v, s)' => u \in unmarked
      <4>1. ASSUME NEW u \in DOMAIN emitted', NEW v \in DOMAIN emitted', u < v,
                   Alone(u, s)', Alone(v, s)'
            PROVE  u \in unmarked
        <5>1. CASE u \in DOMAIN emitted /\ v \in DOMAIN emitted
            BY <3>1, <3>3, <4>1, <5>1 DEF ExportOf
        <5>2. CASE u \in DOMAIN emitted /\ v = t
          <6>1. EmitsAlone(p, s) /\ Alone(u, s)
              BY <3>3, <3>4, <4>1, <5>2
          <6> QED BY <3>1, <5>2, <6>1 DEF ExportOf
        <5>3. u # t
          <6>1. v \in Nat /\ ~ (t < v)
              BY <2>3, <4>1
          <6> QED BY <4>1, <6>1
        <5> QED BY <2>3, <4>1, <5>1, <5>2, <5>3
      <4> QED BY <4>1
    <3>13. marker[s] \in {None, Exports!Cut} \cup Exports!TracesOf(s)'
        BY <2>3, <3>1 DEF ExportOf
    <3> QED BY <2>1, <3>8, <3>9, <3>10, <3>11, <3>12, <3>13 DEF ExportOf
  <2> QED BY <2>4, <2>6 DEF ExportInv
<1>6. ASSUME NEW p \in Exports!Processes, Exports!OpenMarker(p) PROVE ExportInv'
  <2> DEFINE r == doing[p].run
             t == doing[p].trace
  <2>0. /\ doing[p] \in [run: Runs, step: {"mark", "write"}, trace: Nat \ {0}]
        /\ r \in Runs /\ t \in Nat \ {0}
      BY <1>0, <1>6 DEF ExportTypes, ExportSteps, Exports!OpenMarker, Exports!Idle
  <2>1. /\ doing' = [doing EXCEPT ![p] = [run |-> r, step |-> "write", trace |-> t]]
        /\ marker' = [marker EXCEPT ![r] = Exports!Cut]
        /\ UNCHANGED <<emitted, up, unmarked>> /\ p \in up /\ doing[p].step = "mark"
    <3>1. doing' = [doing EXCEPT ![p].step = "write"]
        BY <1>6 DEF Exports!OpenMarker
    <3>2. [doing[p] EXCEPT !.step = "write"] = [run |-> r, step |-> "write", trace |-> t]
        BY <2>0
    <3> QED BY <1>6, <3>1, <3>2 DEF Exports!OpenMarker, Exports!outVars
  <2>r. doing[p].run = r /\ doing[p].trace = t
      OBVIOUS
  <2> HIDE DEF r, t
  <2>3. ExportTypes'
      BY <1>0, <2>0, <2>1 DEF ExportTypes, ExportSteps, Exports!Cut
  <2>4. /\ \A q \in Exports!Processes \ {p} : doing'[q] = doing[q]
        /\ doing'[p].run = r /\ doing'[p].step = "write" /\ doing'[p].trace = t
        /\ marker'[r] = Exports!Cut /\ \A s \in Runs \ {r} : marker'[s] = marker[s]
      BY <1>0, <2>0, <2>1 DEF ExportTypes
  <2>5. Exports!Cut # None
      BY OfflineAssumption DEF Exports!Cut
  <2>6. ASSUME NEW s \in Runs PROVE ExportOf(s)'
    <3>1. ExportOf(s)
        BY <1>0
    <3>2. \A q \in Exports!Processes : EmitsAlone(q, s)' => EmitsAlone(q, s)
        BY <2>4 DEF EmitsAlone, IsAt
    <3>3. \A q \in Exports!Processes : IsAt(q, s, "mark")' \/ IsAt(q, s, "write")'
              => doing'[q].trace \in Exports!TracesOf(s)
        BY <2>1, <2>4, <2>r, <3>1 DEF ExportOf, IsAt
    <3>4. marker'[s] = None => \A u \in Exports!TracesOf(s) :
              u \in unmarked
              \/ \E q \in Exports!Processes : IsAt(q, s, "mark")' /\ doing'[q].trace = u
      <4>1. ASSUME marker'[s] = None, NEW u \in Exports!TracesOf(s), u \notin unmarked
            PROVE  \E q \in Exports!Processes : IsAt(q, s, "mark")' /\ doing'[q].trace = u
        <5>1. s # r /\ marker[s] = None
            BY <2>4, <2>5, <4>1
        <5>2. PICK q \in Exports!Processes : IsAt(q, s, "mark") /\ doing[q].trace = u
            BY <3>1, <4>1, <5>1 DEF ExportOf
        <5>3. q # p
            BY <2>r, <5>1, <5>2 DEF IsAt
        <5> QED BY <2>4, <5>2, <5>3 DEF IsAt
      <4> QED BY <4>1
    <3>5. marker'[s] \in {None, Exports!Cut} \cup Exports!TracesOf(s)
        BY <2>4, <3>1 DEF ExportOf
    <3> QED BY <1>t, <2>1, <3>1, <3>2, <3>3, <3>4, <3>5 DEF ExportOf
  <2> QED BY <2>3, <2>6 DEF ExportInv
<1>7. ASSUME NEW p \in Exports!Processes, Exports!WriteMarker(p) PROVE ExportInv'
  <2> DEFINE r == doing[p].run
             t == doing[p].trace
  <2>0. r \in Runs /\ t \in Nat \ {0}
      BY <1>0, <1>7 DEF ExportTypes, ExportSteps, Exports!WriteMarker, Exports!Idle
  <2>1. /\ doing' = [doing EXCEPT ![p] = Exports!Idle]
        /\ marker' = [marker EXCEPT ![r] = t]
        /\ UNCHANGED <<emitted, up, unmarked>> /\ p \in up /\ doing[p].step = "write"
      BY <1>7 DEF Exports!WriteMarker, Exports!outVars
  <2>r. doing[p].run = r /\ doing[p].trace = t
      OBVIOUS
  <2> HIDE DEF r, t
  <2>3. ExportTypes'
      BY <1>0, <2>0, <2>1 DEF ExportTypes, ExportSteps
  <2>4. /\ \A q \in Exports!Processes \ {p} : doing'[q] = doing[q]
        /\ doing'[p].step = "idle"
        /\ marker'[r] = t /\ \A s \in Runs \ {r} : marker'[s] = marker[s]
      BY <1>0, <2>0, <2>1 DEF ExportTypes, Exports!Idle
  <2>5. t # None
      BY <2>0, OfflineAssumption
  <2>6. ASSUME NEW s \in Runs PROVE ExportOf(s)'
    <3>1. ExportOf(s)
        BY <1>0
    <3>2. \A q \in Exports!Processes : EmitsAlone(q, s)' => EmitsAlone(q, s)
        BY <2>4 DEF EmitsAlone, IsAt
    <3>3. \A q \in Exports!Processes : IsAt(q, s, "mark")' \/ IsAt(q, s, "write")'
              => doing'[q].trace \in Exports!TracesOf(s)
        BY <2>4, <3>1 DEF ExportOf, IsAt
    <3>4. marker'[s] = None => \A u \in Exports!TracesOf(s) :
              u \in unmarked
              \/ \E q \in Exports!Processes : IsAt(q, s, "mark")' /\ doing'[q].trace = u
      <4>1. ASSUME marker'[s] = None, NEW u \in Exports!TracesOf(s), u \notin unmarked
            PROVE  \E q \in Exports!Processes : IsAt(q, s, "mark")' /\ doing'[q].trace = u
        <5>1. marker[s] = None
            BY <2>4, <2>5, <4>1
        <5>2. PICK q \in Exports!Processes : IsAt(q, s, "mark") /\ doing[q].trace = u
            BY <3>1, <4>1, <5>1 DEF ExportOf
        <5>3. q # p
            BY <2>1, <5>2 DEF IsAt
        <5> QED BY <2>4, <5>2, <5>3 DEF IsAt
      <4> QED BY <4>1
    <3>5. s = r => t \in Exports!TracesOf(s)
        BY <2>1, <2>r, <3>1 DEF ExportOf, IsAt
    <3>6. marker'[s] \in {None, Exports!Cut} \cup Exports!TracesOf(s)
        BY <2>4, <3>1, <3>5 DEF ExportOf
    <3> QED BY <1>t, <2>1, <3>1, <3>2, <3>3, <3>4, <3>6 DEF ExportOf
  <2> QED BY <2>3, <2>6 DEF ExportInv
<1>8. ASSUME NEW p \in Exports!Processes, Exports!Send(p) PROVE ExportInv'
    BY <1>1, <1>8 DEF Exports!Send
<1>9. ASSUME NEW p \in Exports!Processes, Exports!Die(p) PROVE ExportInv'
  <2>1. /\ doing' = [doing EXCEPT ![p] = Exports!Idle] /\ UNCHANGED <<marker, emitted>>
        /\ up \ {p} = up'
        /\ unmarked' = IF doing[p].step = "mark" THEN unmarked \cup {doing[p].trace} ELSE unmarked
      BY <1>9 DEF Exports!Die
  <2>2. ExportTypes'
      BY <1>0, <2>1 DEF ExportTypes, ExportSteps
  <2>3. /\ \A q \in Exports!Processes \ {p} : doing'[q] = doing[q]
        /\ doing'[p].step \in {"idle", "check"} /\ unmarked \subseteq unmarked'
        /\ doing[p].step = "mark" => doing[p].trace \in unmarked'
      BY <1>0, <2>1 DEF ExportTypes, Exports!Idle
  <2>4. \A s \in Runs : ExportOf(s)'
      BY <1>0, <2>1, <2>3, ExportLeaves
  <2> QED BY <2>2, <2>4 DEF ExportInv
<1>10. CASE UNCHANGED traceVars
    BY <1>1, <1>10 DEF traceVars
<1> QED BY <1>2, <1>3, <1>4, <1>5, <1>6, <1>7, <1>8, <1>9, <1>10 DEF Exports!Next

(* Two traces tell of a race or a death, and the marker tells the truth. *)
LEMMA ExportTells == ExportInv => Exports!ExportsRaceOrDie
<1> SUFFICES ASSUME ExportInv, NEW r \in Runs
             PROVE  /\ \A t, u \in Exports!TracesOf(r) :
                         t < u => emitted[t].raced \/ emitted[u].raced \/ t \in unmarked
                    /\ marker[r] \in {None, Exports!Cut} \cup Exports!TracesOf(r)
                    /\ Exports!TracesOf(r) \ unmarked # {} /\ Exports!Exporting(r) = {}
                         => marker[r] # None
    BY DEF Exports!ExportsRaceOrDie
<1>1. ExportTypes /\ ExportOf(r)
    BY DEF ExportInv
<1>2. \A t, u \in Exports!TracesOf(r) :
         t < u => emitted[t].raced \/ emitted[u].raced \/ t \in unmarked
  <2>1. \A t \in Exports!TracesOf(r) : t \in DOMAIN emitted
      BY DEF Exports!TracesOf
  <2> QED BY <1>1, <2>1 DEF ExportOf, Alone
<1>3. ASSUME NEW t \in Exports!TracesOf(r) \ unmarked, Exports!Exporting(r) = {}, marker[r] = None
      PROVE  FALSE
  <2>1. PICK p \in Exports!Processes : IsAt(p, r, "mark")
      BY <1>1, <1>3 DEF ExportOf
  <2>2. p \in up
      BY <1>1, <2>1 DEF ExportTypes, IsAt, Exports!Idle
  <2> QED BY <1>3, <2>1, <2>2 DEF Exports!Exporting, IsAt
<1> QED BY <1>1, <1>2, <1>3 DEF ExportOf

-----------------------------------------------------------------------------
(***************************************************************************)
(* The ablation of the citation gate.                                      *)
(*                                                                         *)
(* What is proved inductive: with the stub, the k-th draft of a task is    *)
(* the one the schedule says, whatever the other tasks and arms did, and   *)
(* what an arm records of a task follows from its drafts and its gate.     *)
(***************************************************************************)

Outcome == [status: {"completed", "abstained", "failed"}, drafts: Seq(Gate!LiveDrafts),
            repaired: BOOLEAN]

(* The stub's k-th draft of the i-th task. *)
StubDraft(i, k) ==
    IF every > 0 /\ (i - 1 + k) % every = 0 THEN suite[i].fault ELSE suite[i].honest

GateTypes ==
    /\ suite \in Seq(GateTask) /\ every \in Nat /\ paid \in BOOLEAN
    /\ node \in [Gate!Arms -> {"search", "write", "verify", "rewrite"}]
    /\ counter \in [Gate!Arms -> Nat] /\ drafts \in [Gate!Arms -> Seq(Gate!LiveDrafts)]
    /\ results \in [Gate!Arms -> Seq(Outcome)]

(* A second draft follows one that was not approved. *)
Rewritten(a, given) == a = "verify_repair" /\ ~ Gate!Approved(a, given[1])
AsTold(i, given) == ~ paid => \A k \in 1 .. Len(given) : given[k] = StubDraft(i, k)

Underway(a) ==
    /\ node[a] \in {"search", "write"} => drafts[a] = <<>>
    /\ node[a] # "search" => counter[a] = Len(results[a]) + Len(drafts[a])
    /\ node[a] = "rewrite" => Len(drafts[a]) = 1 /\ Rewritten(a, drafts[a])
    /\ node[a] = "verify" => /\ Len(drafts[a]) \in {1, 2}
                             /\ Len(drafts[a]) = 2 => Rewritten(a, drafts[a])
    /\ AsTold(Len(results[a]) + 1, drafts[a])

Recording(a, i, r) ==
    LET n == Len(r.drafts)
    IN  /\ r.status = "completed" => n > 0 /\ Gate!Approved(a, r.drafts[n])
        /\ ~ paid /\ n > 0 =>
             /\ \/ r.status = "completed"
                \/ r.status = "abstained" /\ n = Gate!MaxRepairs(a) + 1
                   /\ ~ Gate!Approved(a, r.drafts[n])
             /\ n \in {1, 2} /\ (n = 2 => Rewritten(a, r.drafts))
             /\ r.repaired <=> n = 2
             /\ AsTold(i, r.drafts)

ArmInv(a) == Underway(a) /\ \A i \in 1 .. Len(results[a]) : Recording(a, i, results[a][i])

GateInv ==
    /\ GateTypes /\ \A a \in Gate!Arms : ArmInv(a)
    /\ suite = <<>> => \A a \in Gate!Arms : node[a] = "search" /\ results[a] = <<>>

(* No task has begun. *)
LEMMA GateInit == Gate!Init => GateInv
<1> SUFFICES ASSUME Gate!Init PROVE GateInv
    OBVIOUS
<1>1. GateTypes
  <2>1. /\ <<>> \in Seq(GateTask) /\ <<>> \in Seq(Gate!LiveDrafts) /\ <<>> \in Seq(Outcome)
        /\ 0 \in Nat /\ FALSE \in BOOLEAN
      OBVIOUS
  <2>2. /\ node \in [Gate!Arms -> {"search", "write", "verify", "rewrite"}]
        /\ counter \in [Gate!Arms -> Nat]
      BY <2>1 DEF Gate!Init
  <2>3. drafts \in [Gate!Arms -> Seq(Gate!LiveDrafts)]
      BY <2>1 DEF Gate!Init
  <2>4. results \in [Gate!Arms -> Seq(Outcome)]
      BY <2>1 DEF Gate!Init
  <2> QED BY <2>1, <2>2, <2>3, <2>4 DEF Gate!Init, GateTypes
<1>2. \A a \in Gate!Arms : node[a] = "search" /\ drafts[a] = <<>> /\ results[a] = <<>>
    BY DEF Gate!Init
<1>3. Len(<<>>) = 0
    OBVIOUS
<1>4. \A i : i \notin 1 .. 0
    OBVIOUS
<1> QED BY <1>1, <1>2, <1>3, <1>4 DEF GateInv, ArmInv, Underway, AsTold

(* The arms share nothing but the suite and the schedule. *)
LEMMA OtherArm ==
    ASSUME GateInv, NEW a \in Gate!Arms, UNCHANGED <<suite, every, paid>>,
           node'[a] = node[a], counter'[a] = counter[a], drafts'[a] = drafts[a],
           results'[a] = results[a]
    PROVE  ArmInv(a)'
<1>1. ArmInv(a)
    BY DEF GateInv
<1>2. \A i, k : StubDraft(i, k)' = StubDraft(i, k)
    BY DEF StubDraft
<1>3. \A i, given : AsTold(i, given) => AsTold(i, given)'
    BY <1>2 DEF AsTold
<1>4. Underway(a)'
    BY <1>1, <1>3 DEF ArmInv, Underway, Rewritten, Gate!Approved
<1>5. \A i, r : Recording(a, i, r) => Recording(a, i, r)'
    BY <1>3 DEF Recording, Rewritten, Gate!Approved, Gate!MaxRepairs
<1> QED BY <1>1, <1>4, <1>5 DEF ArmInv

(* A step of one arm. *)
LEMMA ArmStep ==
    ASSUME GateInv, NEW a \in Gate!Arms, UNCHANGED <<suite, every, paid>>, suite # <<>>,
           GateTypes', ArmInv(a)',
           \A b \in Gate!Arms \ {a} : /\ node'[b] = node[b] /\ counter'[b] = counter[b]
                                      /\ drafts'[b] = drafts[b] /\ results'[b] = results[b]
    PROVE  GateInv'
<1>1. \A b \in Gate!Arms \ {a} : ArmInv(b)'
    BY OtherArm
<1> QED BY <1>1 DEF GateInv

(* At its place, the suite is not empty. *)
LEMMA AtTask ==
    ASSUME GateInv, NEW a \in Gate!Arms, NEW n, Gate!At(a, n)
    PROVE  /\ suite # <<>> /\ Len(results[a]) + 1 \in DOMAIN suite /\ Gate!Task(a) \in GateTask
           /\ Gate!Task(a) = suite[Len(results[a]) + 1] /\ Len(results[a]) \in Nat
           /\ Len(drafts[a]) \in Nat
<1>1. results[a] \in Seq(Outcome) /\ suite \in Seq(GateTask) /\ drafts[a] \in Seq(Gate!LiveDrafts)
    BY DEF GateInv, GateTypes
<1>2. Len(results[a]) \in Nat /\ Len(suite) \in Nat /\ Len(results[a]) < Len(suite)
      /\ DOMAIN suite = 1 .. Len(suite) /\ Len(drafts[a]) \in Nat
    BY <1>1 DEF Gate!At
<1>3. Len(results[a]) + 1 \in DOMAIN suite
    BY <1>2
<1>4. suite # <<>>
    BY <1>2
<1> QED BY <1>1, <1>2, <1>3, <1>4 DEF Gate!Task

(* What the m drafts of a task must be for the status to be recorded. *)
MayRecord(a, status, m) ==
    /\ status = "completed" => m > 0 /\ Gate!Approved(a, drafts[a][m])
    /\ ~ paid /\ m > 0 =>
         /\ node[a] # "rewrite"
         /\ \/ status = "completed"
            \/ status = "abstained" /\ m = Gate!MaxRepairs(a) + 1
               /\ ~ Gate!Approved(a, drafts[a][m])
         /\ m \in {1, 2} /\ (m = 2 => Rewritten(a, drafts[a]))

(* A result is recorded as its drafts say. *)
LEMMA RecordKeeps ==
    ASSUME GateInv, NEW a \in Gate!Arms, NEW status \in {"completed", "abstained", "failed"},
           NEW n, Gate!At(a, n), Gate!Record(a, status), UNCHANGED <<suite, every, paid>>,
           counter' \in [Gate!Arms -> Nat], \A b \in Gate!Arms \ {a} : counter'[b] = counter[b],
           MayRecord(a, status, Len(drafts[a]))
    PROVE  GateInv'
<1>a. PICK r : r = [status |-> status, drafts |-> drafts[a],
                    repaired |-> node[a] = "rewrite" \/ Len(drafts[a]) > 1]
    OBVIOUS
<1>b. PICK l : l = Len(results[a])
    OBVIOUS
<1>c. PICK m : m = Len(drafts[a])
    OBVIOUS
<1>m. /\ status = "completed" => m > 0 /\ Gate!Approved(a, drafts[a][m])
      /\ ~ paid /\ m > 0 =>
           /\ node[a] # "rewrite"
           /\ \/ status = "completed"
              \/ status = "abstained" /\ m = Gate!MaxRepairs(a) + 1
                 /\ ~ Gate!Approved(a, drafts[a][m])
           /\ m \in {1, 2} /\ (m = 2 => Rewritten(a, drafts[a]))
    BY <1>c DEF MayRecord
<1>1. /\ GateTypes /\ ArmInv(a) /\ suite # <<>> /\ l \in Nat /\ m \in Nat
      /\ drafts[a] \in Seq(Gate!LiveDrafts) /\ results[a] \in Seq(Outcome)
    BY <1>b, <1>c, AtTask DEF GateInv, GateTypes
<1>2. r \in Outcome
    BY <1>a, <1>1 DEF Outcome
<1>3. /\ results' = [results EXCEPT ![a] = Append(results[a], r)]
      /\ drafts' = [drafts EXCEPT ![a] = <<>>] /\ node' = [node EXCEPT ![a] = "search"]
    BY <1>a DEF Gate!Record
<1>r. r.status = status /\ r.drafts = drafts[a] /\ (r.repaired <=> node[a] = "rewrite" \/ m > 1)
    BY <1>a, <1>c
<1>4. /\ results'[a] = Append(results[a], r) /\ drafts'[a] = <<>> /\ node'[a] = "search"
      /\ \A b \in Gate!Arms \ {a} : /\ node'[b] = node[b] /\ drafts'[b] = drafts[b]
                                    /\ results'[b] = results[b]
    BY <1>1, <1>3 DEF GateTypes
<1>5. /\ Append(results[a], r) \in Seq(Outcome)
      /\ Len(results'[a]) = l + 1 /\ results'[a][l + 1] = r
      /\ \A i \in 1 .. l : results'[a][i] = results[a][i]
    BY <1>b, <1>1, <1>2, <1>4, AppendProperties
<1>6. GateTypes'
    BY <1>1, <1>3, <1>5 DEF GateTypes
<1>7. \A i, given : AsTold(i, given) <=> AsTold(i, given)'
    BY DEF AsTold, StubDraft
<1>8. AsTold(l + 1, drafts[a])
    BY <1>b, <1>1 DEF ArmInv, Underway
<1>9. Recording(a, l + 1, r)
  <2>1. r.status = "completed" => m > 0 /\ Gate!Approved(a, r.drafts[m])
      BY <1>m, <1>r
  <2>2. ~ paid /\ m > 0 =>
          \/ r.status = "completed"
          \/ r.status = "abstained" /\ m = Gate!MaxRepairs(a) + 1 /\ ~ Gate!Approved(a, r.drafts[m])
      BY <1>m, <1>r
  <2>3. ~ paid /\ m > 0 => /\ m \in {1, 2} /\ (m = 2 => Rewritten(a, r.drafts))
                           /\ node[a] # "rewrite"
      BY <1>m, <1>r
  <2>4. ~ paid /\ m > 0 => (r.repaired <=> m = 2)
      BY <2>3, <1>r
  <2>5. AsTold(l + 1, r.drafts) /\ Len(r.drafts) = m
      BY <1>c, <1>8, <1>r
  <2> QED BY <2>1, <2>2, <2>3, <2>4, <2>5 DEF Recording
<1>10. \A i, x : Recording(a, i, x) => Recording(a, i, x)'
    BY <1>7 DEF Recording, Rewritten, Gate!Approved, Gate!MaxRepairs
<1>11. Underway(a)'
  <2>1. Len(drafts'[a]) = 0 /\ \A k : k \notin 1 .. 0
      BY <1>4
  <2> QED BY <1>4, <2>1 DEF Underway, AsTold
<1>12. ArmInv(a)'
  <2>1. \A i \in 1 .. l + 1 : i \in 1 .. l \/ i = l + 1
      BY <1>1
  <2>2. ASSUME NEW i \in 1 .. l + 1 PROVE Recording(a, i, results[a][i])'
    <3>1. PICK x : x = results'[a][i]
        OBVIOUS
    <3>2. Recording(a, i, x)
      <4>1. CASE i \in 1 .. l
          BY <1>b, <1>1, <1>5, <3>1, <4>1 DEF ArmInv
      <4>2. CASE i = l + 1
          BY <1>5, <1>9, <3>1, <4>2
      <4> QED BY <2>1, <4>1, <4>2
    <3>3. Recording(a, i, x)'
        BY <1>10, <3>2
    <3> QED BY <3>1, <3>3 DEF Recording, AsTold
  <2>3. Len(results'[a]) = l + 1 /\ Underway(a)'
      BY <1>5, <1>11
  <2> QED BY <2>2, <2>3 DEF ArmInv
<1> QED BY <1>1, <1>4, <1>6, <1>12, ArmStep

(* A suite and a schedule are chosen. *)
LEMMA GatePrepare == GateInv /\ Gate!Prepare => GateInv'
<1> SUFFICES ASSUME GateInv, Gate!Prepare PROVE GateInv'
    OBVIOUS
<1>1. /\ suite' \in Suites /\ every' \in Schedules /\ paid' \in BOOLEAN
      /\ UNCHANGED <<node, counter, drafts, results>>
      /\ \A a \in Gate!Arms : node[a] = "search" /\ results[a] = <<>> /\ drafts[a] = <<>>
    BY DEF Gate!Prepare, GateInv, ArmInv, Underway
<1>2. GateTypes'
    BY <1>1, OfflineAssumption DEF GateInv, GateTypes
<1>3. ASSUME NEW a \in Gate!Arms PROVE ArmInv(a)'
  <2>1. node'[a] = "search" /\ results'[a] = <<>> /\ drafts'[a] = <<>>
      BY <1>1
  <2>2. /\ Len(drafts'[a]) = 0 /\ Len(results'[a]) = 0 /\ \A k : k \notin 1 .. 0
      BY <2>1
  <2> QED BY <2>1, <2>2 DEF ArmInv, Underway, AsTold
<1> QED BY <1>1, <1>2, <1>3 DEF GateInv

(* An arm searches, and abstains where nothing is found. *)
LEMMA GateSearch ==
    ASSUME GateInv, NEW a \in Gate!Arms, Gate!Search(a)
    PROVE  GateInv'
<1>1. Gate!At(a, "search") /\ UNCHANGED <<suite, every, paid>> /\ node[a] = "search"
    BY DEF Gate!Search, Gate!At
<1>2. GateTypes /\ suite # <<>> /\ Len(results[a]) \in Nat /\ ArmInv(a)
    BY <1>1, AtTask DEF GateInv
<1>d. drafts[a] = <<>> /\ Len(drafts[a]) = 0
    BY <1>1, <1>2 DEF ArmInv, Underway
<1>3. CASE Gate!Record(a, "abstained") /\ UNCHANGED counter
  <2>1. counter' \in [Gate!Arms -> Nat]
      BY <1>2, <1>3 DEF GateTypes
  <2>2. MayRecord(a, "abstained", Len(drafts[a]))
      BY <1>d DEF MayRecord
  <2> QED BY <1>1, <1>3, <2>1, <2>2, RecordKeeps
<1>4. CASE /\ counter' = Gate!CounterReset(a) /\ node' = [node EXCEPT ![a] = "write"]
           /\ UNCHANGED <<drafts, results>>
  <2>1. counter'[a] = Len(results[a]) /\ node'[a] = "write" /\ counter' \in [Gate!Arms -> Nat]
      BY <1>2, <1>4 DEF Gate!CounterReset, GateTypes
  <2>2. \A b \in Gate!Arms \ {a} : node'[b] = node[b] /\ counter'[b] = counter[b]
      BY <1>2, <1>4 DEF Gate!CounterReset, GateTypes
  <2>3. GateTypes'
      BY <1>1, <1>2, <1>4, <2>1 DEF GateTypes
  <2>4. ArmInv(a)'
    <3>1. \A i, given : AsTold(i, given) => AsTold(i, given)'
        BY <1>1 DEF AsTold, StubDraft
    <3>2. \A i, r : Recording(a, i, r) => Recording(a, i, r)'
        BY <1>1, <3>1 DEF Recording, Rewritten, Gate!Approved, Gate!MaxRepairs
    <3>3. Underway(a)'
      <4>1. counter'[a] = Len(results[a]) + Len(drafts[a])
          BY <1>2, <1>d, <2>1
      <4> QED BY <1>2, <1>4, <1>d, <2>1, <3>1, <4>1 DEF ArmInv, Underway
    <3> QED BY <1>2, <1>4, <3>2, <3>3 DEF ArmInv
  <2> QED BY <1>1, <1>2, <1>4, <2>2, <2>3, <2>4, ArmStep
<1> QED BY <1>3, <1>4 DEF Gate!Search

(* An arm drafts, or drafts again, as its schedule says. *)
LEMMA GateWrite ==
    ASSUME GateInv, NEW a \in Gate!Arms, Gate!Write(a)
    PROVE  GateInv'
<1>1. /\ Gate!At(a, "write") \/ Gate!At(a, "rewrite")
      /\ node[a] \in {"write", "rewrite"}
      /\ counter' = [counter EXCEPT ![a] = @ + 1] /\ node' = [node EXCEPT ![a] = "verify"]
      /\ UNCHANGED <<suite, every, paid, results>>
    BY DEF Gate!Write, Gate!At
<1>2. PICK d \in Gate!Drafted(Gate!Task(a), counter[a] + 1) :
         drafts' = [drafts EXCEPT ![a] = Append(drafts[a], d)]
    BY DEF Gate!Write
<1>3. /\ GateTypes /\ suite # <<>> /\ Len(results[a]) \in Nat /\ Len(drafts[a]) \in Nat
      /\ ArmInv(a) /\ Gate!Task(a) \in GateTask /\ Gate!Task(a) = suite[Len(results[a]) + 1]
    BY <1>1, AtTask DEF GateInv
<1>b. PICK l \in Nat : l = Len(results[a])
    BY <1>3
<1>c. PICK m \in Nat : m = Len(drafts[a])
    BY <1>3
<1>4. counter[a] = l + m /\ m \in {0, 1} /\ (m = 1 => Rewritten(a, drafts[a]))
  <2>0. Underway(a)
      BY <1>3 DEF ArmInv
  <2>1. node[a] = "write" => drafts[a] = <<>>
      BY <2>0 DEF Underway
  <2>2. node[a] = "write" => m = 0
      BY <1>c, <2>1
  <2>3. node[a] = "rewrite" => Len(drafts[a]) = 1 /\ Rewritten(a, drafts[a])
      BY <2>0 DEF Underway
  <2>4. counter[a] = Len(results[a]) + Len(drafts[a])
      BY <1>1, <2>0 DEF Underway
  <2> QED BY <1>b, <1>c, <1>1, <2>2, <2>3, <2>4
<1>5. d \in Gate!LiveDrafts /\ (~ paid => d = StubDraft(l + 1, m + 1))
  <2>1. Gate!Task(a).fault \in Gate!LiveDrafts /\ Gate!Task(a).honest \in Gate!LiveDrafts
        /\ paid \in BOOLEAN
      BY <1>3 DEF GateTask, GateTypes
  <2>2. counter[a] + 1 = (l + 1) - 1 + (m + 1)
      BY <1>4
  <2>3. CASE paid
      BY <2>3 DEF Gate!Drafted
  <2>4. CASE ~ paid
    <3>1. d = IF every > 0 /\ (counter[a] + 1) % every = 0 THEN Gate!Task(a).fault
              ELSE Gate!Task(a).honest
        BY <2>4 DEF Gate!Drafted
    <3> QED BY <1>b, <1>3, <2>1, <2>2, <2>4, <3>1 DEF StubDraft
  <2> QED BY <2>1, <2>3, <2>4
<1>6. /\ drafts[a] \in Seq(Gate!LiveDrafts) /\ drafts'[a] = Append(drafts[a], d)
      /\ \A b \in Gate!Arms \ {a} : /\ drafts'[b] = drafts[b] /\ counter'[b] = counter[b]
                                    /\ node'[b] = node[b]
      /\ counter'[a] = counter[a] + 1 /\ node'[a] = "verify"
    BY <1>1, <1>2, <1>3 DEF GateTypes
<1>7. /\ Append(drafts[a], d) \in Seq(Gate!LiveDrafts) /\ Len(drafts'[a]) = m + 1
      /\ drafts'[a][m + 1] = d /\ \A k \in 1 .. m : drafts'[a][k] = drafts[a][k]
    BY <1>c, <1>5, <1>6, AppendProperties
<1>8. GateTypes'
  <2>1. drafts' \in [Gate!Arms -> Seq(Gate!LiveDrafts)] /\ counter' \in [Gate!Arms -> Nat]
      BY <1>1, <1>2, <1>3, <1>7 DEF GateTypes
  <2> QED BY <1>1, <1>3, <2>1 DEF GateTypes
<1>9. ArmInv(a)'
  <2>0. \A i, k : StubDraft(i, k)' = StubDraft(i, k)
      BY <1>1 DEF StubDraft
  <2>1. \A i, given : AsTold(i, given) => AsTold(i, given)'
      BY <1>1, <2>0 DEF AsTold
  <2>2. \A i, r : Recording(a, i, r) => Recording(a, i, r)'
      BY <1>1, <2>1 DEF Recording, Rewritten, Gate!Approved, Gate!MaxRepairs
  <2>3. Len(drafts'[a]) \in {1, 2} /\ (Len(drafts'[a]) = 2 => Rewritten(a, drafts[a])')
    <3>1. CASE m = 0
        BY <1>7, <3>1
    <3>2. CASE m = 1 /\ Rewritten(a, drafts[a])
      <4>1. drafts'[a][1] = drafts[a][1]
          BY <1>7, <3>2
      <4> QED BY <1>7, <3>2, <4>1 DEF Rewritten, Gate!Approved
    <3> QED BY <1>4, <3>1, <3>2
  <2>4. AsTold(Len(results[a]) + 1, drafts[a])'
    <3>1. AsTold(l + 1, drafts[a])
        BY <1>b, <1>3 DEF ArmInv, Underway
    <3>2. ASSUME ~ paid, NEW k \in 1 .. m + 1 PROVE drafts'[a][k] = StubDraft(l + 1, k)
      <4>1. CASE k \in 1 .. m
          BY <1>c, <1>7, <3>1, <3>2, <4>1 DEF AsTold
      <4>2. CASE k = m + 1
          BY <1>5, <1>7, <3>2, <4>2
      <4> QED BY <4>1, <4>2
    <3> QED BY <1>b, <1>1, <1>7, <2>0, <3>2 DEF AsTold
  <2>5. counter'[a] = Len(results'[a]) + Len(drafts'[a])
    <3>1. counter'[a] = (l + m) + 1 /\ Len(results'[a]) = l /\ Len(drafts'[a]) = m + 1
        BY <1>b, <1>1, <1>4, <1>6, <1>7
    <3> QED BY <3>1
  <2>6. Underway(a)'
      BY <1>6, <2>3, <2>4, <2>5 DEF Underway
  <2> QED BY <1>1, <1>3, <2>2, <2>6 DEF ArmInv
<1> QED BY <1>1, <1>3, <1>6, <1>8, <1>9, ArmStep

(* A live arm fails at any node. *)
LEMMA GateFails ==
    ASSUME GateInv, NEW a \in Gate!Arms, Gate!Fails(a)
    PROVE  GateInv'
<1>1. PICK n : Gate!At(a, n) /\ (n = "search" \/ paid)
    BY DEF Gate!Fails
<1>2. Gate!Record(a, "failed") /\ UNCHANGED <<suite, every, paid, counter>>
    BY DEF Gate!Fails
<1>3. n = "search" => Len(drafts[a]) = 0
  <2>1. n = "search" => drafts[a] = <<>>
      BY <1>1 DEF Gate!At, GateInv, ArmInv, Underway
  <2> QED BY <2>1
<1>4. counter' \in [Gate!Arms -> Nat]
    BY <1>2 DEF GateInv, GateTypes
<1>5. MayRecord(a, "failed", Len(drafts[a]))
    BY <1>1, <1>3 DEF MayRecord, Gate!At
<1> QED BY <1>1, <1>2, <1>4, <1>5, RecordKeeps

(* An arm approves, abstains or has the draft repaired. *)
LEMMA GateVerify ==
    ASSUME GateInv, NEW a \in Gate!Arms, Gate!Verify(a)
    PROVE  GateInv'
<1>1. Gate!At(a, "verify") /\ node[a] = "verify" /\ UNCHANGED <<suite, every, paid, counter>>
    BY DEF Gate!Verify, Gate!At
<1>3. /\ GateTypes /\ suite # <<>> /\ Len(drafts[a]) \in Nat /\ ArmInv(a)
    BY <1>1, AtTask DEF GateInv
<1>c. PICK m \in Nat : m = Len(drafts[a])
    BY <1>3
<1>4. m \in {1, 2} /\ (m = 2 => Rewritten(a, drafts[a]))
  <2>1. Underway(a)
      BY <1>3 DEF ArmInv
  <2> QED BY <1>c, <1>1, <2>1 DEF Underway
<1>5. counter' \in [Gate!Arms -> Nat]
    BY <1>1, <1>3 DEF GateTypes
<1>6. CASE Gate!Approved(a, drafts[a][m]) /\ Gate!Record(a, "completed")
  <2>1. \A b \in Gate!Arms \ {a} : counter'[b] = counter[b]
      BY <1>1
  <2>2. MayRecord(a, "completed", Len(drafts[a]))
      BY <1>c, <1>1, <1>4, <1>6 DEF MayRecord
  <2> QED BY <1>1, <1>5, <1>6, <2>1, <2>2, RecordKeeps
<1>7. CASE ~ Gate!Approved(a, drafts[a][m]) /\ m - 1 = Gate!MaxRepairs(a)
           /\ Gate!Record(a, "abstained")
  <2>1. m = Gate!MaxRepairs(a) + 1
      BY <1>7 DEF Gate!MaxRepairs
  <2>2. MayRecord(a, "abstained", Len(drafts[a]))
      BY <1>c, <1>1, <1>4, <1>7, <2>1 DEF MayRecord
  <2> QED BY <1>1, <1>5, <1>7, <2>2, RecordKeeps
<1>8. CASE /\ ~ Gate!Approved(a, drafts[a][m]) /\ m - 1 < Gate!MaxRepairs(a)
           /\ node' = [node EXCEPT ![a] = "rewrite"] /\ UNCHANGED <<drafts, results>>
  <2>1. m = 1 /\ a = "verify_repair"
      BY <1>4, <1>8 DEF Gate!MaxRepairs
  <2>2. node'[a] = "rewrite" /\ \A b \in Gate!Arms \ {a} : node'[b] = node[b]
      BY <1>3, <1>8 DEF GateTypes
  <2>3. GateTypes'
      BY <1>1, <1>3, <1>8 DEF GateTypes
  <2>4. Rewritten(a, drafts[a])'
      BY <1>8, <2>1 DEF Rewritten, Gate!Approved
  <2>5. ArmInv(a)'
    <3>1. \A i, given : AsTold(i, given) => AsTold(i, given)'
        BY <1>1 DEF AsTold, StubDraft
    <3>2. \A i, r : Recording(a, i, r) => Recording(a, i, r)'
        BY <1>1, <3>1 DEF Recording, Rewritten, Gate!Approved, Gate!MaxRepairs
    <3>3. Underway(a)'
        BY <1>c, <1>1, <1>3, <1>8, <2>1, <2>2, <2>4, <3>1 DEF ArmInv, Underway
    <3> QED BY <1>3, <1>8, <3>2, <3>3 DEF ArmInv
  <2> QED BY <1>1, <1>3, <1>8, <2>2, <2>3, <2>5, ArmStep
<1> QED BY <1>c, <1>6, <1>7, <1>8 DEF Gate!Verify

(* Every step of the ablation. *)
LEMMA GateStep == GateInv /\ [Gate!Next]_armVars => GateInv'
<1> SUFFICES ASSUME GateInv, [Gate!Next]_armVars PROVE GateInv'
    OBVIOUS
<1>1. CASE UNCHANGED armVars
  <2>1. UNCHANGED <<suite, every, paid, node, counter, drafts, results>>
      BY <1>1 DEF armVars
  <2>2. \A a \in Gate!Arms : ArmInv(a)'
      BY <2>1, OtherArm
  <2> QED BY <2>1, <2>2 DEF GateInv, GateTypes
<1> QED BY <1>1, GatePrepare, GateSearch, GateWrite, GateFails, GateVerify DEF Gate!Next

(* What each arm recorded of a task it drafted for, with the stub. *)
LEMMA DraftedWithStub ==
    ASSUME GateInv, ~ paid, NEW a \in Gate!Arms, NEW i \in Gate!Recorded(a),
           Gate!DraftsOf(a, i) # <<>>
    PROVE  /\ Head(Gate!DraftsOf(a, i)) = StubDraft(i, 1)
           /\ results[a][i].repaired \in BOOLEAN
           /\ results[a][i].status = "abstained" <=> ~ Gate!Delivered(a, i)
           /\ \/ /\ ~ results[a][i].repaired /\ Gate!Final(a, i) = StubDraft(i, 1)
                 /\ Gate!Delivered(a, i) => Gate!Approved(a, StubDraft(i, 1))
                 /\ ~ Gate!Delivered(a, i) =>
                      ~ Gate!Approved(a, StubDraft(i, 1)) /\ a # "verify_repair"
              \/ /\ results[a][i].repaired /\ Gate!Final(a, i) = StubDraft(i, 2)
                 /\ a = "verify_repair" /\ ~ Gate!Approved(a, StubDraft(i, 1))
                 /\ Gate!Delivered(a, i) <=> Gate!Approved(a, StubDraft(i, 2))
<1> DEFINE r == results[a][i]
           n == Len(r.drafts)
<1>1. results[a] \in Seq(Outcome)
    BY DEF GateInv, GateTypes
<1>2. i \in 1 .. Len(results[a]) /\ r \in Outcome
    BY <1>1 DEF Gate!Recorded
<1>3. r.drafts \in Seq(Gate!LiveDrafts) /\ r.drafts # <<>> /\ n \in Nat /\ n > 0
      /\ r.status \in {"completed", "abstained", "failed"} /\ r.repaired \in BOOLEAN
    BY <1>2 DEF Outcome, Gate!DraftsOf
<1>4. Recording(a, i, r)
    BY <1>2 DEF GateInv, ArmInv
<1>5. /\ r.status = "completed" => Gate!Approved(a, r.drafts[n])
      /\ \/ r.status = "completed"
         \/ r.status = "abstained" /\ n = Gate!MaxRepairs(a) + 1 /\ ~ Gate!Approved(a, r.drafts[n])
      /\ n \in {1, 2} /\ (n = 2 => Rewritten(a, r.drafts))
      /\ r.repaired <=> n = 2
      /\ AsTold(i, r.drafts)
    BY <1>3, <1>4 DEF Recording
<1>6. Head(r.drafts) = r.drafts[1]
    BY <1>3
<1>7. /\ Gate!DraftsOf(a, i) = r.drafts /\ Gate!Final(a, i) = r.drafts[n]
      /\ Gate!Delivered(a, i) <=> r.status = "completed"
    BY DEF Gate!DraftsOf, Gate!Final, Gate!Delivered
<1> HIDE DEF r, n
<1>8. r.drafts[1] = StubDraft(i, 1) /\ (n = 2 => r.drafts[2] = StubDraft(i, 2))
  <2>1. \A k \in 1 .. n : r.drafts[k] = StubDraft(i, k)
      BY <1>5 DEF AsTold, n
  <2>2. 1 \in 1 .. n /\ (n = 2 => 2 \in 1 .. n)
      BY <1>3
  <2> QED BY <2>1, <2>2
<1>9. CASE n = 1
  <2>1. ~ r.repaired /\ Gate!Final(a, i) = StubDraft(i, 1)
      BY <1>5, <1>7, <1>8, <1>9
  <2>2. Gate!Delivered(a, i) => Gate!Approved(a, StubDraft(i, 1))
      BY <1>5, <1>7, <1>8, <1>9
  <2>3. ~ Gate!Delivered(a, i) => ~ Gate!Approved(a, StubDraft(i, 1)) /\ a # "verify_repair"
      BY <1>5, <1>7, <1>8, <1>9 DEF Gate!MaxRepairs
  <2> QED BY <1>3, <1>5, <1>6, <1>7, <1>8, <2>1, <2>2, <2>3 DEF r
<1>10. CASE n = 2 /\ Rewritten(a, r.drafts)
  <2>1. r.repaired /\ Gate!Final(a, i) = StubDraft(i, 2)
      BY <1>5, <1>7, <1>8, <1>10
  <2>2. a = "verify_repair" /\ ~ Gate!Approved(a, StubDraft(i, 1))
      BY <1>8, <1>10 DEF Rewritten
  <2>3. Gate!Delivered(a, i) <=> Gate!Approved(a, StubDraft(i, 2))
      BY <1>5, <1>7, <1>8, <1>10
  <2> QED BY <1>3, <1>5, <1>6, <1>7, <1>8, <2>1, <2>2, <2>3 DEF r
<1> QED BY <1>5, <1>9, <1>10

(* No two neighbours are both multiples of a number above 1. *)
LEMMA NoTwoMultiples ==
    ASSUME NEW e \in Nat, e > 1, NEW i \in Nat, i % e = 0
    PROVE  (i + 1) % e # 0
<1>1. PICK p \in Int : i = p * e
    OBVIOUS
<1>2. SUFFICES ASSUME NEW q \in Int, i + 1 = q * e PROVE FALSE
    OBVIOUS
<1>3. (q - p) * e = 1
    BY <1>1, <1>2
<1> QED BY <1>3

(* What the arms recorded compares like with like. *)
LEMMA GateTells == GateInv => Gate!AblationIsFair
<1> SUFFICES ASSUME GateInv PROVE Gate!AblationIsFair
    OBVIOUS
<1>1. \A a \in Gate!Arms : \A d : Gate!Approved(a, d) =>
        d \in IF a = "ungated" THEN {"good", "bad", "empty"} ELSE {"good", "empty"}
    BY DEF Gate!Approved
<1>2. \A a \in Gate!Arms : \A d : d \in {"good", "empty"} => Gate!Approved(a, d)
    BY DEF Gate!Approved
<1>3. \A d : Gate!Approved("verify_repair", d) <=> Gate!Approved("verify_only", d)
    BY DEF Gate!Approved
<1>a. "verify_repair" \in Gate!Arms /\ "verify_only" \in Gate!Arms
    BY DEF Gate!Arms
<1>4. Gate!FaultsAreShared
  <2> SUFFICES ASSUME NEW a \in Gate!Arms, NEW b \in Gate!Arms, NEW i \in 1 .. Len(suite), ~ paid,
                      Gate!BothDrafted(i, a, b)
               PROVE  Head(Gate!DraftsOf(a, i)) = Head(Gate!DraftsOf(b, i))
      BY DEF Gate!FaultsAreShared
  <2>1. \A arm \in {a, b} : Head(Gate!DraftsOf(arm, i)) = StubDraft(i, 1)
      BY DraftedWithStub DEF Gate!BothDrafted
  <2> QED BY <2>1
<1>5. ASSUME NEW a \in Gate!Arms \ {"ungated"}, NEW i \in Gate!Recorded(a), Gate!Delivered(a, i)
      PROVE  Gate!Final(a, i) \in {"good", "empty"}
  <2>1. i \in 1 .. Len(results[a])
      BY DEF GateInv, GateTypes, Gate!Recorded
  <2>2. Recording(a, i, results[a][i])
      BY <2>1 DEF GateInv, ArmInv
  <2>3. Gate!Approved(a, Gate!Final(a, i))
      BY <1>5, <2>2 DEF Recording, Gate!Delivered, Gate!Final, Gate!DraftsOf
  <2> QED BY <1>1, <2>3
<1>6. ASSUME NEW a \in Gate!Arms, NEW i \in 1 .. Len(suite), ~ paid,
             Gate!BothDrafted(i, a, "verify_only"), Gate!Delivered("verify_only", i)
      PROVE  Gate!Delivered(a, i) /\ Gate!Final(a, i) = Gate!Final("verify_only", i)
  <2>1. \A arm \in {a, "verify_only"} : i \in Gate!Recorded(arm) /\ Gate!DraftsOf(arm, i) # <<>>
      BY <1>6 DEF Gate!BothDrafted
  <2>2. Gate!Final("verify_only", i) = StubDraft(i, 1)
        /\ Gate!Approved("verify_only", StubDraft(i, 1))
      BY <1>6, <1>a, <2>1, DraftedWithStub
  <2>3. Gate!Approved(a, StubDraft(i, 1))
      BY <1>1, <1>2, <1>a, <2>2
  <2> QED BY <1>6, <2>1, <2>2, <2>3, DraftedWithStub
<1>7. Gate!GateOnlyWithholds
    BY <1>5, <1>6 DEF Gate!GateOnlyWithholds
<1>8. Gate!RepairsAddUp
  <2> DEFINE drafted == {i \in 1 .. Len(suite) :
                           Gate!BothDrafted(i, "verify_repair", "verify_only")}
             lost == Gate!Paired("verify_repair", "verify_only", "abstention_correctness").lost_on
  <2> SUFFICES ASSUME ~ paid
               PROVE /\ Gate!RepairSuccesses("verify_repair") \cap drafted
                          = {i \in drafted : Gate!Delivered("verify_repair", i)
                            /\ ~ Gate!Delivered("verify_only", i)}
                     /\ \A i \in lost \cap drafted : suite[i].behavior = "abstain"
                     /\ every # 1 => \A i \in drafted :
                          suite[i].honest = "good" => Gate!Delivered("verify_repair", i)
      BY DEF Gate!RepairsAddUp
  <2>1. ASSUME NEW i \in drafted
        PROVE  /\ i \in Gate!Recorded("verify_repair") /\ Gate!DraftsOf("verify_repair", i) # <<>>
               /\ i \in Gate!Recorded("verify_only") /\ Gate!DraftsOf("verify_only", i) # <<>>
               /\ i \in 1 .. Len(suite) /\ Gate!BothDrafted(i, "verify_repair", "verify_only")
      BY DEF Gate!BothDrafted
  <2> HIDE DEF drafted, lost
  <2>2. ASSUME NEW i \in drafted
        PROVE  i \in Gate!RepairSuccesses("verify_repair")
                 <=> Gate!Delivered("verify_repair", i) /\ ~ Gate!Delivered("verify_only", i)
    <3>1. i \in Gate!RepairSuccesses("verify_repair")
            <=> /\ results["verify_repair"][i].repaired /\ Gate!Delivered("verify_repair", i)
                /\ Gate!Final("verify_repair", i) \in {"good", "empty"}
        BY <2>1 DEF Gate!RepairSuccesses, Gate!RepairTriggers
    <3>2. ~ Gate!Delivered("verify_only", i) <=> ~ Gate!Approved("verify_only", StubDraft(i, 1))
        BY <1>a, <2>1, DraftedWithStub
    <3>3. /\ results["verify_repair"][i].repaired \in BOOLEAN
          /\ ~ results["verify_repair"][i].repaired =>
               (Gate!Delivered("verify_repair", i) =>
                 Gate!Approved("verify_repair", StubDraft(i, 1)))
          /\ results["verify_repair"][i].repaired =>
               ~ Gate!Approved("verify_repair", StubDraft(i, 1))
        BY <1>a, <2>1, DraftedWithStub
    <3>4. Gate!Delivered("verify_repair", i) => Gate!Final("verify_repair", i) \in {"good", "empty"}
        BY <1>5, <1>a, <2>1
    <3> QED BY <1>3, <3>1, <3>2, <3>3, <3>4
  <2>3. ASSUME NEW i \in lost \cap drafted PROVE suite[i].behavior = "abstain"
    <3> DEFINE m == "abstention_correctness"
               right(a) == (suite[i].behavior = "abstain") = (results[a][i].status = "abstained")
    <3>1. \A a \in Gate!Arms : Gate!Scores(a, i)[m] = IF right(a) THEN 1 ELSE 0
        BY DEF Gate!Scores
    <3>2. Gate!Scores("verify_repair", i)[m] - Gate!Scores("verify_only", i)[m] < 0
        BY DEF lost, Gate!Paired
    <3>3. ~ right("verify_repair") /\ right("verify_only")
        BY <1>a, <3>1, <3>2
    <3>4. \A a \in {"verify_repair", "verify_only"} :
            results[a][i].status = "abstained" <=> ~ Gate!Delivered(a, i)
        BY <1>a, <2>1, DraftedWithStub
    <3>5. Gate!Delivered("verify_only", i) => Gate!Delivered("verify_repair", i)
        BY <1>6, <1>a, <2>1
    <3> QED BY <3>3, <3>4, <3>5
  <2>4. ASSUME every # 1, NEW i \in drafted, suite[i].honest = "good"
        PROVE  Gate!Delivered("verify_repair", i)
    <3>1. ~ Gate!Delivered("verify_repair", i) =>
            ~ Gate!Approved("verify_repair", StubDraft(i, 1))
            /\ ~ Gate!Approved("verify_repair", StubDraft(i, 2))
        BY <1>a, <2>1, DraftedWithStub
    <3>2. Gate!Approved("verify_repair", "good")
        BY <1>2, <1>a
    <3>3. every \in Nat /\ i \in Nat
        BY <2>1 DEF GateInv, GateTypes
    <3>4. CASE StubDraft(i, 1) = "good"
        BY <3>1, <3>2, <3>4
    <3>5. CASE every > 1 /\ i % every = 0
      <4>1. (i + 1) % every # 0 /\ i - 1 + 2 = i + 1
          BY <3>3, <3>5, NoTwoMultiples
      <4>2. StubDraft(i, 2) = "good"
          BY <2>4, <4>1 DEF StubDraft
      <4> QED BY <3>1, <3>2, <4>2
    <3>6. StubDraft(i, 1) = "good" \/ (every > 1 /\ i % every = 0)
      <4>1. i - 1 + 1 = i
          BY <3>3
      <4> QED BY <2>4, <3>3, <4>1 DEF StubDraft
    <3> QED BY <3>4, <3>5, <3>6
  <2>5. Gate!RepairSuccesses("verify_repair") \cap drafted
          = {i \in drafted : Gate!Delivered("verify_repair", i)
            /\ ~ Gate!Delivered("verify_only", i)}
      BY <2>2
  <2> QED BY <2>3, <2>4, <2>5
<1> QED BY <1>4, <1>7, <1>8 DEF Gate!AblationIsFair

-----------------------------------------------------------------------------
(***************************************************************************)
(* The HTTP API.                                                           *)
(*                                                                         *)
(* What is proved inductive: the caches hold agents of the arm and the     *)
(* mode they are asked for by, with the model setting of the start.        *)
(***************************************************************************)

ServerTypes ==
    /\ indexes \in [edition: Nat, loads: BOOLEAN]
    /\ base \in ServerAgent \cup {None}
    /\ \A a \in DOMAIN armCache : a \in Server!ArmNames /\ armCache[a] \in ServerAgent
    /\ \A k \in DOMAIN modeCache :
         k \in Server!ArmNames \X Server!Modes /\ modeCache[k] \in ServerAgent

CachesAgree ==
    /\ base = None => DOMAIN armCache = {} /\ DOMAIN modeCache = {}
    /\ \A a \in DOMAIN armCache :
         /\ a # base.arm /\ armCache[a].arm = a
         /\ armCache[a].mode = base.mode /\ armCache[a].live = base.live
    /\ \A k \in DOMAIN modeCache :
         /\ modeCache[k].arm = k[1] /\ modeCache[k].mode = k[2]
         /\ modeCache[k].live = base.live
         /\ \/ k[1] = base.arm /\ modeCache[k].index = base.index
            \/ k[1] \in DOMAIN armCache /\ modeCache[k].index = armCache[k[1]].index

ServerInv == ServerTypes /\ CachesAgree /\ Server!RunsAreAsAsked /\ Server!HealthIsHonest

(* Nothing is cached. *)
LEMMA ServerInit == Server!Init => ServerInv
<1> SUFFICES ASSUME Server!Init PROVE ServerInv
    OBVIOUS
<1>1. DOMAIN armCache = {} /\ DOMAIN modeCache = {}
    BY DEF Server!Init
<1>2. indexes \in [edition: Nat, loads: BOOLEAN]
    BY DEF Server!Init
<1>3. base = None /\ served = None /\ serverStarts = 0
    BY DEF Server!Init
<1> QED BY <1>1, <1>2, <1>3 DEF ServerInv, ServerTypes, CachesAgree, Server!RunsAreAsAsked,
                               Server!HealthIsHonest, Server!Answered

(* A start replaces what cannot be had, and says so. *)
LEMMA ServerStart == ServerInv /\ Server!Start => ServerInv'
<1> SUFFICES ASSUME ServerInv, Server!Start PROVE ServerInv'
    OBVIOUS
<1>1. DOMAIN armCache' = {} /\ DOMAIN modeCache' = {} /\ served' = None /\ UNCHANGED indexes
    BY DEF Server!Start
<1>2. PICK m \in Server!Modes, w \in BOOLEAN, h \in BOOLEAN :
          env' = [mode |-> m, wantsLive |-> w, hasKey |-> h]
    BY DEF Server!Start
<1> DEFINE called == w /\ h
           arm == IF Server!Builds(DefaultArm) THEN DefaultArm ELSE "bm25"
<1>3. arm \in Server!ArmNames /\ called \in BOOLEAN
    BY OfflineAssumption DEF Server!ArmNames
<1>4. CASE base' = None /\ degraded' = "corpus"
    BY <1>1, <1>4 DEF ServerInv, ServerTypes, CachesAgree, Server!RunsAreAsAsked, Server!Answered,
                      Server!HealthIsHonest, Server!Health
<1>5. CASE /\ base' = Server!Agent(arm, m, called)
           /\ degraded' = CASE w # called -> "model"
                            [] w = called /\ arm # DefaultArm -> "arm"
                            [] OTHER -> "none"
  <2>1. base' \in ServerAgent /\ base'.arm = arm /\ base'.live = called
      BY <1>2, <1>3, <1>5 DEF Server!Agent, ServerAgent, ServerInv, ServerTypes
  <2>2. base' # None
      BY <2>1, OfflineAssumption
  <2>3. env'.wantsLive = w
      BY <1>2
  <2> HIDE DEF called, arm
  <2>4. degraded' = "none" <=> w = called /\ arm = DefaultArm
      BY <1>5
  <2>5. Server!Health' = "ok" <=> degraded' = "none"
      BY <2>2 DEF Server!Health
  <2>6. Server!HealthIsHonest'
      BY <2>1, <2>2, <2>3, <2>4, <2>5 DEF Server!HealthIsHonest
  <2> QED BY <1>1, <2>1, <2>2, <2>6 DEF ServerInv, ServerTypes, CachesAgree, Server!RunsAreAsAsked,
                                       Server!Answered
<1> QED BY <1>2, <1>4, <1>5 DEF Server!Start

(* The agent of a request: of its arm if that can be built, in its mode. *)
LEMMA AgentFound ==
    ASSUME ServerInv, base # None, NEW arm \in Server!ArmNames \cup {"other"}
    PROVE  /\ Server!AgentForArm(arm) \in ServerAgent
           /\ Server!AgentForArm(arm).mode = base.mode /\ Server!AgentForArm(arm).live = base.live
           /\ \/ Server!AgentForArm(arm) = base /\ arm \notin DOMAIN armCache
              \/ /\ Server!AgentForArm(arm).arm = arm /\ arm # base.arm /\ arm \in Server!ArmNames
                 /\ arm \in DOMAIN armCache => Server!AgentForArm(arm) = armCache[arm]
<1>1. base \in ServerAgent
    BY DEF ServerInv, ServerTypes
<1>2. CASE arm = base.arm \/ arm \notin Server!ArmNames
  <2>1. Server!AgentForArm(arm) = base
      BY <1>2 DEF Server!AgentForArm, ServerInv, ServerTypes
  <2> QED BY <1>1, <1>2, <2>1 DEF ServerInv, ServerTypes, CachesAgree
<1>3. CASE arm # base.arm /\ arm \in DOMAIN armCache
  <2>1. Server!AgentForArm(arm) = armCache[arm]
      BY <1>3 DEF Server!AgentForArm, ServerInv, ServerTypes
  <2> QED BY <1>3, <2>1 DEF ServerInv, ServerTypes, CachesAgree
<1>4. CASE arm # base.arm /\ arm \in Server!ArmNames \ DOMAIN armCache
  <2>1. Server!AgentForArm(arm) =
          IF Server!Builds(arm) THEN Server!Agent(arm, base.mode, base.live) ELSE base
      BY <1>4 DEF Server!AgentForArm
  <2>2. Server!Agent(arm, base.mode, base.live) \in ServerAgent
      BY <1>1, <1>4 DEF Server!Agent, ServerAgent, ServerInv, ServerTypes
  <2> QED BY <1>1, <1>4, <2>1, <2>2 DEF Server!Agent
<1> QED BY <1>2, <1>3, <1>4

(* A request is answered, and what it had built is cached. *)
LEMMA ServerStream == ServerInv /\ Server!Stream => ServerInv'
<1> SUFFICES ASSUME ServerInv, Server!Stream PROVE ServerInv'
    OBVIOUS
<1>1. UNCHANGED <<indexes, env, serverStarts, base, degraded>>
    BY DEF Server!Stream
<1>2. Server!HealthIsHonest'
    BY <1>1 DEF ServerInv, Server!HealthIsHonest, Server!Health
<1>3. ASSUME UNCHANGED <<armCache, modeCache>>, NEW code, served' = Server!Refusal(code)
      PROVE  ServerInv'
  <2>1. ~ Server!Answered'
      BY <1>3 DEF Server!Answered, Server!Refusal
  <2> QED BY <1>1, <1>2, <1>3, <2>1 DEF ServerInv, ServerTypes, CachesAgree, Server!RunsAreAsAsked
<1>4. ASSUME NEW arm \in Server!ArmNames \cup {"other"}, NEW mode \in Server!Modes \cup {None},
             base # None,
             NEW answer \in {Server!Refusal(400),
                             Server!AgentForMode(Server!AgentForArm(arm), mode)},
             Server!Ask([arm |-> arm, mode |-> mode], answer),
             armCache' = Server!ArmCached(arm),
             modeCache' = Server!ModeCached(Server!AgentForArm(arm), mode)
      PROVE  ServerInv'
  <2> DEFINE agent == Server!AgentForArm(arm)
             result == Server!AgentForMode(agent, mode)
  <2>1. /\ agent \in ServerAgent /\ agent.mode = base.mode /\ agent.live = base.live
        /\ \/ agent = base /\ arm \notin DOMAIN armCache
           \/ /\ agent.arm = arm /\ arm # base.arm /\ arm \in Server!ArmNames
              /\ arm \in DOMAIN armCache => agent = armCache[arm]
      BY <1>4, AgentFound
  <2> HIDE DEF agent
  <2>2. /\ armCache' = IF agent = base THEN armCache ELSE Server!With(armCache, arm, agent)
        /\ modeCache' = IF mode \in {None, agent.mode} THEN modeCache
                        ELSE Server!With(modeCache, <<agent.arm, mode>>, result)
      BY <1>4 DEF agent, Server!ArmCached, Server!ModeCached, Server!ModeKey
  <2>3. /\ DOMAIN armCache \subseteq DOMAIN armCache'
        /\ \A a \in DOMAIN armCache : armCache'[a] = armCache[a]
        /\ \A a \in DOMAIN armCache' \ DOMAIN armCache :
             a = arm /\ armCache'[a] = agent /\ agent # base
        /\ agent # base => arm \in DOMAIN armCache' /\ armCache'[arm] = agent
    <3>1. CASE agent = base
        BY <2>2, <3>1
    <3>2. CASE agent # base
        BY <2>1, <2>2, <3>2 DEF Server!With
    <3> QED BY <3>1, <3>2
  <2>4. /\ result \in ServerAgent /\ result.arm = agent.arm /\ result.live = base.live
        /\ result.mode = IF mode = None THEN base.mode ELSE mode
        /\ \/ result.index = agent.index
           \/ <<agent.arm, mode>> \in DOMAIN modeCache /\ result = modeCache[<<agent.arm, mode>>]
    <3>1. CASE mode \in {None, agent.mode}
      <4>1. result = agent
          BY <3>1 DEF Server!AgentForMode
      <4> QED BY <2>1, <3>1, <4>1
    <3>2. CASE mode \notin {None, agent.mode} /\ Server!ModeKey(agent, mode) \in DOMAIN modeCache
      <4>1. result = modeCache[<<agent.arm, mode>>]
          BY <3>2 DEF Server!AgentForMode, Server!ModeKey
      <4>2. <<agent.arm, mode>> \in DOMAIN modeCache
          BY <3>2 DEF Server!ModeKey
      <4>3. /\ result \in ServerAgent /\ result.arm = <<agent.arm, mode>>[1]
            /\ result.mode = <<agent.arm, mode>>[2] /\ result.live = base.live
          BY <4>1, <4>2 DEF ServerInv, ServerTypes, CachesAgree
      <4> QED BY <3>2, <4>1, <4>2, <4>3
    <3>3. CASE mode \notin {None, agent.mode} /\ Server!ModeKey(agent, mode) \notin DOMAIN modeCache
      <4>1. result = [agent EXCEPT !.mode = mode]
          BY <3>3 DEF Server!AgentForMode
      <4> QED BY <2>1, <3>3, <4>1 DEF ServerAgent
    <3> QED BY <3>1, <3>2, <3>3
  <2> HIDE DEF result
  <2>5. /\ \A k \in DOMAIN modeCache' \ DOMAIN modeCache :
              k = <<agent.arm, mode>> /\ mode # None /\ modeCache'[k] = result
        /\ \A k \in DOMAIN modeCache : modeCache'[k] = modeCache[k]
    <3>1. CASE mode \in {None, agent.mode}
        BY <2>2, <3>1
    <3>2. CASE mode \notin {None, agent.mode}
      <4>1. modeCache' = Server!With(modeCache, <<agent.arm, mode>>, result)
          BY <2>2, <3>2
      <4>2. <<agent.arm, mode>> \in DOMAIN modeCache => result = modeCache[<<agent.arm, mode>>]
          BY <3>2 DEF result, Server!AgentForMode, Server!ModeKey
      <4> QED BY <3>2, <4>1, <4>2 DEF Server!With
    <3> QED BY <3>1, <3>2
  <2>6. ServerTypes'
    <3>1. \A a \in DOMAIN armCache' : a \in Server!ArmNames /\ armCache'[a] \in ServerAgent
        BY <2>1, <2>3 DEF ServerInv, ServerTypes
    <3>2. agent.arm \in Server!ArmNames
        BY <2>1 DEF ServerAgent
    <3>3. \A k \in DOMAIN modeCache' :
          k \in Server!ArmNames \X Server!Modes /\ modeCache'[k] \in ServerAgent
        BY <2>4, <2>5, <3>2 DEF ServerInv, ServerTypes
    <3> QED BY <1>1, <3>1, <3>3 DEF ServerInv, ServerTypes
  <2>7. CachesAgree'
    <3>1. \A a \in DOMAIN armCache' :
             /\ a # base.arm /\ armCache'[a].arm = a
             /\ armCache'[a].mode = base.mode /\ armCache'[a].live = base.live
        BY <2>1, <2>3 DEF ServerInv, CachesAgree
    <3>2. \A k \in DOMAIN modeCache :
             /\ modeCache'[k].arm = k[1] /\ modeCache'[k].mode = k[2]
             /\ modeCache'[k].live = base.live
             /\ \/ k[1] = base.arm /\ modeCache'[k].index = base.index
                \/ k[1] \in DOMAIN armCache' /\ modeCache'[k].index = armCache'[k[1]].index
        BY <2>3, <2>5 DEF ServerInv, CachesAgree
    <3>3. ASSUME NEW k \in DOMAIN modeCache' \ DOMAIN modeCache
          PROVE  /\ modeCache'[k].arm = k[1] /\ modeCache'[k].mode = k[2]
                 /\ modeCache'[k].live = base.live
                 /\ \/ k[1] = base.arm /\ modeCache'[k].index = base.index
                    \/ k[1] \in DOMAIN armCache' /\ modeCache'[k].index = armCache'[k[1]].index
      <4>1. /\ k = <<agent.arm, mode>> /\ mode # None /\ modeCache'[k] = result
            /\ k[1] = agent.arm /\ k[2] = mode
          BY <2>5, <3>3
      <4>2. result.index = agent.index
          BY <2>4, <3>3, <4>1
      <4>3. agent = base \/ (agent # base /\ agent.arm = arm)
          BY <2>1
      <4> QED BY <2>3, <2>4, <4>1, <4>2, <4>3
    <3> QED BY <1>1, <1>4, <3>1, <3>2, <3>3 DEF CachesAgree
  <2>8. Server!RunsAreAsAsked'
    <3>0. asked'.arm = arm /\ asked'.mode = mode /\ served' = answer
        BY <1>4 DEF Server!Ask
    <3>1. CASE answer = Server!Refusal(400)
      <4>1. ~ Server!Answered'
          BY <3>0, <3>1 DEF Server!Answered, Server!Refusal
      <4> QED BY <4>1 DEF Server!RunsAreAsAsked
    <3>2. CASE answer = result
      <4>1. arm \in DOMAIN armCache' => result.arm = arm
          BY <2>1, <2>3, <2>4
      <4>2. result.arm \in {arm, base.arm}
          BY <2>1, <2>4
      <4> QED BY <1>1, <2>4, <3>0, <3>2, <4>1, <4>2 DEF Server!RunsAreAsAsked
    <3> QED BY <1>4, <3>1, <3>2 DEF result, agent
  <2> QED BY <1>2, <2>6, <2>7, <2>8 DEF ServerInv
<1>5. DefaultArm \in Server!ArmNames
    BY OfflineAssumption DEF Server!ArmNames
<1> QED BY <1>3, <1>4, <1>5 DEF Server!Stream, Server!Ask

(* Every step of the server. *)
LEMMA ServerStep == ServerInv /\ [Server!Next]_serverVars => ServerInv'
<1> SUFFICES ASSUME ServerInv, [Server!Next]_serverVars PROVE ServerInv'
    OBVIOUS
<1>1. CASE UNCHANGED serverVars
    BY <1>1 DEF serverVars, ServerInv, ServerTypes, CachesAgree, Server!RunsAreAsAsked,
                Server!Answered,
                Server!HealthIsHonest, Server!Health
<1>2. CASE Server!Reindex
  <2>1. indexes' \in [edition: Nat, loads: BOOLEAN]
      BY <1>2 DEF Server!Reindex, ServerInv, ServerTypes
  <2> QED BY <1>2, <2>1 DEF Server!Reindex, ServerInv, ServerTypes, CachesAgree,
                            Server!RunsAreAsAsked,
                            Server!Answered, Server!HealthIsHonest, Server!Health
<1>3. CASE Server!Start
    BY <1>3, ServerStart
<1>4. CASE Server!Stream
    BY <1>4, ServerStream
<1>5. CASE Server!Research
  <2>1. UNCHANGED <<indexes, env, serverStarts, base, degraded, armCache, modeCache>>
      BY <1>5 DEF Server!Research
  <2>2. PICK answer \in IF base = None THEN {Server!Refusal(503)} ELSE {Server!Refusal(400), base} :
             asked' = [arm |-> None, mode |-> None] /\ served' = answer
      BY <1>5 DEF Server!Research, Server!Ask
  <2>3. ASSUME Server!Answered' PROVE base # None /\ served' = base
      BY <2>2, <2>3 DEF Server!Answered, Server!Refusal
  <2>4. None \notin DOMAIN armCache
      BY OfflineAssumption DEF ServerInv, ServerTypes
  <2>5. asked'.arm = None /\ asked'.mode = None
      BY <2>2
  <2>6. Server!RunsAreAsAsked'
      BY <2>1, <2>3, <2>4, <2>5 DEF Server!RunsAreAsAsked
  <2> QED BY <2>1, <2>6 DEF ServerInv, ServerTypes, CachesAgree, Server!HealthIsHonest,
                            Server!Health
<1> QED BY <1>1, <1>2, <1>3, <1>4, <1>5 DEF Server!Next

(* An answer is of what was asked, and the health of what was started. *)
LEMMA ServerTells == ServerInv => Server!ServedAsAsked
<1> SUFFICES ASSUME ServerInv PROVE Server!ModesShareRetrievers
    BY DEF Server!ServedAsAsked, ServerInv
<1> DEFINE IndexOf(arm) == IF arm = base.arm THEN base.index ELSE armCache[arm].index
<1>1. \A a \in DOMAIN armCache : armCache[a].index = IndexOf(armCache[a].arm)
    BY DEF ServerInv, CachesAgree
<1>2. \A k \in DOMAIN modeCache : modeCache[k].index = IndexOf(modeCache[k].arm)
    BY DEF ServerInv, CachesAgree
<1>3. base.index = IndexOf(base.arm)
    OBVIOUS
<1> HIDE DEF IndexOf
<1>4. \A a \in {armCache[x] : x \in DOMAIN armCache} \cup {modeCache[k] : k \in DOMAIN modeCache}
              \cup (IF base = None THEN {} ELSE {base}) : a.index = IndexOf(a.arm)
    BY <1>1, <1>2, <1>3
<1> QED BY <1>4 DEF Server!ModesShareRetrievers

-----------------------------------------------------------------------------
(***************************************************************************)
(* The grading of a result.                                                *)
(*                                                                         *)
(* Nothing has to be invariant but where the input comes from: the graders *)
(* agree on every input.                                                   *)
(***************************************************************************)

(* What a result retrieved. *)
Retrieved(r) == {r.retrieved[i] : i \in DOMAIN r.retrieved}

(* What Top keeps: the chunks of the first ranks. *)
First(r, k) == {r.retrieved[i] : i \in {n \in DOMAIN r.retrieved : n <= k}}

(* The smaller of two numbers. *)
LEMMA SmallerOf ==
    ASSUME NEW a \in Nat, NEW b \in Nat
    PROVE  Grading!Min({a, b}) = IF a <= b THEN a ELSE b
<1>1. CASE a <= b
  <2>1. \A x \in {a, b} : (\A y \in {a, b} : x =< y) => x = a
    BY <1>1
  <2>2. a \in {a, b} /\ \A y \in {a, b} : a =< y
    BY <1>1
  <2> QED BY <2>1, <2>2, <1>1 DEF Grading!Min
<1>2. CASE ~ (a <= b)
  <2>1. \A x \in {a, b} : (\A y \in {a, b} : x =< y) => x = b
    BY <1>2
  <2>2. b \in {a, b} /\ \A y \in {a, b} : b =< y
    BY <1>2
  <2> QED BY <2>1, <2>2, <1>2 DEF Grading!Min
<1> QED BY <1>1, <1>2

(* Top takes the first ranks. *)
LEMMA TopIs ==
    ASSUME NEW r, r.retrieved \in Seq(Retrieved(r)), NEW k \in Nat
    PROVE  Grading!Top(r, k) = First(r, k)
<1> DEFINE s == r.retrieved
           n == Grading!Min({k, Len(s)})
<1>1. Len(s) \in Nat /\ DOMAIN s = 1 .. Len(s) /\ \A i \in 1 .. Len(s) : s[i] \in Retrieved(r)
  BY DEF Retrieved
<1>2. n = IF k <= Len(s) THEN k ELSE Len(s)
  BY <1>1, SmallerOf
<1>3. n \in 0 .. Len(s)
  BY <1>1, <1>2
<1> HIDE DEF n
<1>4. SubSeq(s, 1, n) = [i \in 1 .. n |-> s[i]]
  BY <1>1, <1>3
<1>5. Grading!Range(SubSeq(s, 1, n)) = {s[i] : i \in 1 .. n}
  BY <1>4, <1>3 DEF Grading!Range
<1>6. \A i : i \in 1 .. n <=> i \in DOMAIN s /\ i <= k
  BY <1>1, <1>2, <1>3
<1> QED BY <1>5, <1>6 DEF Grading!Top, First, n

(* Reading further takes nothing away. *)
LEMMA TopGrows ==
    ASSUME NEW r, r.retrieved \in Seq(Retrieved(r)), NEW k \in Nat, NEW less \in 0 .. k
    PROVE  Grading!Top(r, less) \subseteq Grading!Top(r, k)
<1>1. less \in Nat /\ DOMAIN r.retrieved \subseteq Nat
  OBVIOUS
<1>2. {n \in DOMAIN r.retrieved : n <= less} \subseteq {n \in DOMAIN r.retrieved : n <= k}
  BY <1>1
<1> QED BY <1>1, <1>2, TopIs DEF First

(* More hits of the same total are a score that is no lower. *)
LEMMA ScoreMonotone ==
    ASSUME NEW T, IsFiniteSet(T), NEW A \in SUBSET T, NEW B \in SUBSET T, A \subseteq B
    PROVE  Grading!AtMost(Grading!ScoreOf(T, A), Grading!ScoreOf(T, B))
<1>1. IsFiniteSet(A) /\ IsFiniteSet(B) /\ Cardinality(A) <= Cardinality(B)
  BY FS_Subset
<1>2. Cardinality(A) \in Nat /\ Cardinality(B) \in Nat /\ Cardinality(T) \in Nat
  BY <1>1, FS_CardinalityType
<1>3. \A x, y, z \in Nat : x <= y => x * z <= y * z
  OBVIOUS
<1>4. Cardinality(A) * Cardinality(T) <= Cardinality(B) * Cardinality(T)
  BY <1>1, <1>2, <1>3
<1>5. CASE T = {}
  BY <1>5 DEF Grading!AtMost, Grading!ScoreOf, Grading!Full, Grading!Score
<1>6. CASE T # {}
  BY <1>6, <1>4 DEF Grading!AtMost, Grading!ScoreOf, Grading!Score,
                    Grading!Cardinality, Cardinality
<1> QED BY <1>5, <1>6

(* A score of a part of a set: no hits if nothing is hit, all if all is. *)
LEMMA ScoreExtremes ==
    ASSUME NEW T, NEW A \in SUBSET T, IsFiniteSet(T), T # {}
    PROVE  /\ A = {} => Grading!ScoreOf(T, A).hits = 0
           /\ Grading!Passed(Grading!ScoreOf(T, A)) => A = T
           /\ Grading!ScoreOf(T, A).hits > 0 <=> A # {}
<1>1. IsFiniteSet(A) /\ (Cardinality(A) = Cardinality(T) => A = T)
  BY FS_Subset
<1>2. Cardinality(A) \in Nat /\ (Cardinality(A) = 0 <=> A = {})
  BY <1>1, FS_EmptySet, FS_CardinalityType
<1>3. \A S : Grading!Cardinality(S) = Cardinality(S)
  BY DEF Grading!Cardinality, Cardinality
<1>4. Grading!ScoreOf(T, A) = [hits |-> Cardinality(A), of |-> Cardinality(T)]
  BY <1>3 DEF Grading!ScoreOf, Grading!Score
<1> QED BY <1>1, <1>2, <1>4 DEF Grading!Passed

(* A set of naturals that is not empty has a least one. *)
LEMMA LeastOf ==
    ASSUME NEW T, T \subseteq Nat, T # {}
    PROVE  \E x \in T : \A y \in T : x <= y
<1> DEFINE R == OpToRel(<, Nat)
<1>1. IsWellFoundedOn(R, Nat)
  BY NatLessThanWellFounded
<1> HIDE DEF R
<1>2. PICK x \in T : \A y \in T : ~ (<<y, x>> \in R)
  BY <1>1, WFMin
<1>3. R = {p \in Nat \X Nat : p[1] < p[2]}
  BY DEF R, OpToRel
<1>4. ASSUME NEW y \in T, y < x
      PROVE  <<y, x>> \in R
  BY <1>3, <1>4
<1>5. \A y \in T : ~ (y < x)
  BY <1>2, <1>4
<1>6. \A y \in T : x <= y
  BY <1>5
<1> QED BY <1>6

(* Where a text does not begin with a cut, a fragment of it begins there. *)
LEMMA FirstFragment ==
    ASSUME NEW s, s.text \in Seq(Nat), s.text # <<>>, s.text[1] # Grading!Omitted
    PROVE  \E j \in DOMAIN s.text : <<1, j>> \in Grading!EvidenceFragments(s)
<1> DEFINE t == s.text
           cut(i) == i \notin DOMAIN t \/ t[i] = Grading!Omitted
           C == {m \in 1 .. Len(t) + 1 : cut(m)}
<1>1. Len(t) \in Nat /\ DOMAIN t = 1 .. Len(t) /\ Len(t) > 0
  BY EmptySeq
<1>2. Len(t) + 1 \in C /\ C \subseteq Nat
  BY <1>1
<1>3. PICK c \in C : \A m \in C : c <= m
  BY <1>2, LeastOf
<1>4. c \in 1 .. Len(t) + 1 /\ cut(c)
  OBVIOUS
<1>5. c # 1
  BY <1>1, <1>4
<1>6. c - 1 \in DOMAIN t
  BY <1>1, <1>4, <1>5
<1>7. \A m \in 1 .. c - 1 : ~ cut(m)
  BY <1>1, <1>3, <1>4
<1>8. cut(0) /\ cut((c - 1) + 1)
  BY <1>1, <1>4
<1>9. 1 \in DOMAIN t /\ 1 <= c - 1
  BY <1>1, <1>4, <1>5
<1>10. <<1, c - 1>> \in Grading!EvidenceFragments(s)
  BY <1>6, <1>7, <1>8, <1>9 DEF Grading!EvidenceFragments
<1> QED BY <1>6, <1>10

(* What holds the first pieces of a text holds the first of those. *)
LEMMA HoldsThePrefix ==
    ASSUME NEW text \in Seq(Nat), NEW span \in Seq(Nat), NEW j \in DOMAIN span, NEW n \in 1 .. j,
           Grading!Holds(text, SubSeq(span, 1, j))
    PROVE  Grading!Holds(text, SubSeq(span, 1, n))
<1>1. Len(span) \in Nat /\ DOMAIN span = 1 .. Len(span) /\ Len(text) \in Nat /\ n \in Nat
  OBVIOUS
<1>2. Len(SubSeq(span, 1, j)) = j /\ Len(SubSeq(span, 1, n)) = n
  BY <1>1, SubSeqProperties
<1>3. PICK i \in 0 .. Len(text) - j : SubSeq(text, i + 1, i + j) = SubSeq(span, 1, j)
  BY <1>2 DEF Grading!Holds
<1>4. i \in 0 .. Len(text) - n /\ i + 1 \in 1 .. Len(text) /\ i + j \in 1 .. Len(text)
  BY <1>1
<1>5. SubSeq(SubSeq(span, 1, j), 1, n) = SubSeq(span, 1, n)
  <2>1. 1 \in 1 .. Len(span) /\ j \in 1 .. Len(span) /\ 1 \in 1 .. (j - 1 + 1)
        /\ n \in 1 .. (j - 1 + 1)
    BY <1>1
  <2>2. SubSeq(SubSeq(span, 1, j), 1, n) = SubSeq(span, 1 + 1 - 1, 1 + n - 1)
    BY <2>1, SubSeqOfSubSeq
  <2>3. 1 + 1 - 1 = 1 /\ 1 + n - 1 = n
    BY <1>1
  <2> QED BY <2>2, <2>3
<1>6. SubSeq(SubSeq(text, i + 1, i + j), 1, n) = SubSeq(text, i + 1, i + n)
  <2>1. 1 \in 1 .. ((i + j) - (i + 1) + 1) /\ n \in 1 .. ((i + j) - (i + 1) + 1)
    BY <1>1
  <2>2. (i + 1) + 1 - 1 = i + 1 /\ (i + 1) + n - 1 = i + n
    BY <1>1
  <2> DEFINE a == i + 1
             b == i + j
  <2>3. a \in 1 .. Len(text) /\ b \in 1 .. Len(text) /\ 1 \in 1 .. (b - a + 1)
        /\ n \in 1 .. (b - a + 1)
    BY <1>4, <2>1
  <2> HIDE DEF a, b
  <2>4. SubSeq(SubSeq(text, a, b), 1, n) = SubSeq(text, a + 1 - 1, a + n - 1)
    BY <2>3, SubSeqOfSubSeq
  <2> QED BY <2>2, <2>4 DEF a, b
<1>7. SubSeq(text, i + 1, i + n) = SubSeq(span, 1, n)
  BY <1>3, <1>5, <1>6
<1> QED BY <1>2, <1>4, <1>7 DEF Grading!Holds

(* A span all of whose fragments are found is found by its probe, if there is *)
(* no omission in that.                                                       *)
LEMMA CompleteIsProbed ==
    ASSUME NEW t, NEW r, NEW k, IsRanking(t, r, k), NEW s \in Grading!CompleteSpans(t, r, k),
           Grading!Omitted \notin Grading!Range(Grading!Probe(s))
    PROVE  Grading!Found(Grading!OfDocument(Grading!Top(r, k), s.doc), Grading!Probe(s))
<1> DEFINE found == Grading!OfDocument(Grading!Top(r, k), s.doc)
           n == Grading!Min({Grading!SpanProbe, Len(s.text)})
<1>1. s \in t.spans /\ Grading!EvidenceFragments(s) # {}
      /\ Grading!FragmentHits(s, r, k) = Grading!EvidenceFragments(s)
  BY DEF Grading!CompleteSpans
<1>2. s.text \in Seq(Nat) /\ k \in Nat /\ r.retrieved \in Seq(Retrieved(r))
      /\ \A c \in Retrieved(r) : c.text \in Seq(Nat)
  BY <1>1 DEF IsRanking, Retrieved
<1>3. s.text # <<>>
  BY <1>1 DEF Grading!EvidenceFragments
<1>4. Len(s.text) \in Nat \ {0} /\ DOMAIN s.text = 1 .. Len(s.text)
  BY <1>2, <1>3, EmptySeq
<1>5. n \in 1 .. Len(s.text) /\ Grading!Probe(s) = SubSeq(s.text, 1, n)
  BY <1>4, SmallerOf DEF Grading!Probe, Grading!SpanProbe
<1> HIDE DEF n
<1>6. \A m \in 1 .. n : s.text[m] # Grading!Omitted
  <2>1. /\ Len(SubSeq(s.text, 1, n)) = n
        /\ \A m \in 1 .. n : SubSeq(s.text, 1, n)[m] = s.text[m]
    BY <1>2, <1>4, <1>5, SubSeqProperties
  <2>2. DOMAIN SubSeq(s.text, 1, n) = 1 .. n
    BY <1>2, <1>4, <1>5, <2>1, SubSeqProperties
  <2> QED BY <1>5, <2>1, <2>2 DEF Grading!Range
<1>7. PICK j \in DOMAIN s.text : <<1, j>> \in Grading!EvidenceFragments(s)
  <2>1. 1 \in 1 .. n
    BY <1>4, <1>5
  <2>2. s.text[1] # Grading!Omitted
    BY <2>1, <1>6
  <2> QED BY <1>2, <1>3, <2>2, FirstFragment
<1>8. n \in 1 .. j
  <2>1. j + 1 \notin DOMAIN s.text \/ s.text[j + 1] = Grading!Omitted
    BY <1>7 DEF Grading!EvidenceFragments
  <2> QED BY <2>1, <1>4, <1>5, <1>6
<1>9. Grading!Found(found, SubSeq(s.text, 1, j))
  BY <1>1, <1>7 DEF Grading!FragmentHits
<1> HIDE DEF found
<1>10. PICK c \in found : Grading!Holds(c.text, SubSeq(s.text, 1, j))
  BY <1>9 DEF Grading!Found
<1>11. c \in Retrieved(r)
  <2>1. Grading!Top(r, k) = First(r, k)
    BY <1>2, TopIs
  <2>2. First(r, k) \subseteq Retrieved(r)
    BY DEF First, Retrieved
  <2> QED BY <2>1, <2>2 DEF found, Grading!OfDocument
<1>12. Grading!Holds(c.text, SubSeq(s.text, 1, n))
  BY <1>2, <1>8, <1>10, <1>11, HoldsThePrefix
<1>13. SubSeq(s.text, 1, n) # <<>>
  <2>1. Len(SubSeq(s.text, 1, n)) = n
    BY <1>2, <1>4, <1>5, SubSeqProperties
  <2> QED BY <1>5, <2>1, EmptySeq
<1> QED BY <1>5, <1>10, <1>12, <1>13 DEF Grading!Found, found

(* The hits of the graders of spans. *)
Spanned(t, r, k) == {s \in t.spans : Grading!Found(Grading!Top(r, k), Grading!Probe(s))}
Documented(t, r, k) ==
    {s \in t.spans :
       Grading!Found(Grading!OfDocument(Grading!Top(r, k), s.doc), Grading!Probe(s))}
DocumentsHit(t, r, k) == t.documents \cap Grading!DocumentsIn(Grading!Top(r, k))

(* More chunks hold what fewer hold. *)
LEMMA FoundInMore ==
    ASSUME NEW few, NEW many, few \subseteq many
    PROVE  \A pieces : /\ Grading!Found(few, pieces) => Grading!Found(many, pieces)
                       /\ \A doc : Grading!Found(Grading!OfDocument(few, doc), pieces) =>
                            Grading!Found(Grading!OfDocument(many, doc), pieces)
BY DEF Grading!Found, Grading!OfDocument

(* Chunks of a document are chunks. *)
LEMMA FoundInAny ==
    ASSUME NEW some, NEW doc, NEW pieces, Grading!Found(Grading!OfDocument(some, doc), pieces)
    PROVE  Grading!Found(some, pieces)
BY DEF Grading!Found, Grading!OfDocument

(* Nothing is found in nothing. *)
LEMMA NothingFound ==
    \A pieces, doc : /\ ~ Grading!Found({}, pieces)
                     /\ ~ Grading!Found(Grading!OfDocument({}, doc), pieces)
BY DEF Grading!Found, Grading!OfDocument

(* Complete spans stay complete when more is read. *)
LEMMA CompleteGrows ==
    ASSUME NEW t, NEW r, NEW k, IsRanking(t, r, k), NEW less \in 0 .. k
    PROVE  Grading!CompleteSpans(t, r, less) \subseteq Grading!CompleteSpans(t, r, k)
<1>1. Grading!Top(r, less) \subseteq Grading!Top(r, k)
  BY TopGrows DEF IsRanking, Retrieved
<1>2. \A s : Grading!FragmentHits(s, r, less) \subseteq Grading!FragmentHits(s, r, k)
  BY <1>1, FoundInMore DEF Grading!FragmentHits
<1>3. \A s : Grading!FragmentHits(s, r, k) \subseteq Grading!EvidenceFragments(s)
  BY DEF Grading!FragmentHits
<1> QED BY <1>2, <1>3 DEF Grading!CompleteSpans

(* The first rank of a document is within the cut-off exactly where the       *)
(* recall at the cut-off is not nothing.                                      *)
LEMMA FirstRankIsRecall ==
    ASSUME NEW t, NEW r, NEW k, IsRanking(t, r, k), t.documents # {}
    PROVE  Grading!DocumentRecall(t, r, k).hits > 0
             <=> /\ Grading!ReciprocalRank(t, r).hits = 1
                 /\ Grading!ReciprocalRank(t, r).of <= k
<1> DEFINE ranks == {i \in DOMAIN r.retrieved : r.retrieved[i].doc \in t.documents}
           hit == DocumentsHit(t, r, k)
<1>1. k \in Nat /\ r.retrieved \in Seq(Retrieved(r)) /\ DOMAIN r.retrieved \subseteq Nat
  BY DEF IsRanking, Retrieved
<1>2. Grading!DocumentRecall(t, r, k).hits > 0 <=> hit # {}
  <2>1. hit \in SUBSET t.documents /\ IsFiniteSet(t.documents)
    BY DEF DocumentsHit, IsRanking
  <2> QED BY <2>1, ScoreExtremes DEF Grading!DocumentRecall, DocumentsHit
<1>3. hit # {} <=> \E i \in ranks : i <= k
  <2>1. Grading!Top(r, k) = First(r, k)
    BY <1>1, TopIs
  <2>2. hit = {d \in t.documents : \E i \in DOMAIN r.retrieved : i <= k /\ d = r.retrieved[i].doc}
    BY <2>1 DEF DocumentsHit, Grading!DocumentsIn, First
  <2> QED BY <2>2
<1>4. CASE ranks = {}
  <2>1. Grading!ReciprocalRank(t, r) = Grading!Zero
    BY <1>4 DEF Grading!ReciprocalRank
  <2>2. Grading!Zero.hits = 0
    BY DEF Grading!Zero, Grading!Score
  <2> QED BY <2>1, <2>2, <1>2, <1>3, <1>4
<1>5. CASE ranks # {}
  <2>1. ranks \subseteq Nat
    BY <1>1
  <2>2. \E x \in ranks : \A y \in ranks : x <= y
    BY <2>1, <1>5, LeastOf
  <2> DEFINE first == Grading!Min(ranks)
  <2>3. first \in ranks /\ \A y \in ranks : first <= y
    BY <2>2 DEF Grading!Min
  <2>4. Grading!ReciprocalRank(t, r) = [hits |-> 1, of |-> first]
    BY <1>5 DEF Grading!ReciprocalRank, Grading!Score
  <2> HIDE DEF first, ranks
  <2>5. (\E i \in ranks : i <= k) <=> first <= k
    <3>1. first \in Nat /\ k \in Nat
      BY <2>1, <2>3, <1>1
    <3>2. ASSUME NEW i \in ranks, i <= k PROVE first <= k
      <4>1. i \in Nat /\ first <= i
        BY <2>1, <2>3
      <4> QED BY <3>1, <3>2, <4>1
    <3> QED BY <2>3, <3>2
  <2> QED BY <2>4, <2>5, <1>2, <1>3
<1> QED BY <1>4, <1>5

(* Where every span is complete every fragment was found. *)
LEMMA CompleteHasFragments ==
    ASSUME NEW t, NEW r, NEW k, IsRanking(t, r, k),
           Grading!Passed(Grading!EvidenceCompleteSpanRecall(t, r, k))
    PROVE  Grading!Passed(Grading!EvidenceFragmentRecall(t, r, k))
<1> DEFINE all == UNION {{s} \X Grading!EvidenceFragments(s) : s \in t.spans}
           hit == UNION {{s} \X Grading!FragmentHits(s, r, k) : s \in t.spans}
<1>1. all = hit
  <2>1. CASE t.spans = {}
    BY <2>1
  <2>2. CASE t.spans # {}
    <3>1. Grading!CompleteSpans(t, r, k) \in SUBSET t.spans /\ IsFiniteSet(t.spans)
      BY DEF Grading!CompleteSpans, IsRanking
    <3>2. Grading!CompleteSpans(t, r, k) = t.spans
      BY <3>1, <2>2, ScoreExtremes DEF Grading!EvidenceCompleteSpanRecall
    <3>3. \A s \in t.spans : Grading!FragmentHits(s, r, k) = Grading!EvidenceFragments(s)
      BY <3>2 DEF Grading!CompleteSpans
    <3> QED BY <3>3
  <2> QED BY <2>1, <2>2
<1>2. Grading!EvidenceFragmentRecall(t, r, k) = Grading!ScoreOf(all, all)
  BY <1>1 DEF Grading!EvidenceFragmentRecall
<1> HIDE DEF all
<1> QED BY <1>2 DEF Grading!ScoreOf, Grading!Passed, Grading!Full, Grading!Score

(* A result that retrieved nothing has found no span. *)
LEMMA NothingIsNoSpan ==
    ASSUME NEW t, NEW r, NEW k, IsRanking(t, r, k), t.spans # {}, Grading!Top(r, k) = {}
    PROVE  \A score \in Grading!SpanScores(t, r, k) : score.hits = 0
<1>1. IsFiniteSet(t.spans)
  BY DEF IsRanking
<1>2. \A hit \in SUBSET t.spans : hit = {} => Grading!ScoreOf(t.spans, hit).hits = 0
  BY <1>1, ScoreExtremes
<1>3. Spanned(t, r, k) = {} /\ Documented(t, r, k) = {}
  BY NothingFound DEF Spanned, Documented
<1>4. \A s : Grading!FragmentHits(s, r, k) = {}
  BY NothingFound DEF Grading!FragmentHits
<1>5. Grading!CompleteSpans(t, r, k) = {}
  BY <1>4 DEF Grading!CompleteSpans
<1>6. {} \in SUBSET t.spans
  OBVIOUS
<1>7. Grading!ScoreOf(t.spans, {}).hits = 0
  BY <1>2, <1>6
<1>8. \A score \in Grading!SpanScores(t, r, k) : score = Grading!ScoreOf(t.spans, {})
  BY <1>3, <1>5 DEF Grading!SpanScores, Grading!EvidenceSpanRecall, Spanned, Documented,
     Grading!DocumentAwareEvidenceRecall, Grading!EvidenceCompleteSpanRecall
<1> QED BY <1>7, <1>8

(* What the retrieval graders say of one result fits together. *)
LEMMA RankingGrades ==
    ASSUME NEW t, NEW r, NEW k, IsRanking(t, r, k)
    PROVE  Grading!RetrievalGradersAgree(t, r, k)
<1>0. IsFiniteSet(t.spans) /\ IsFiniteSet(t.documents) /\ k \in Nat
      /\ r.retrieved \in Seq(Retrieved(r))
  BY DEF IsRanking, Retrieved
<1>1. Grading!AtMost(Grading!DocumentAwareEvidenceRecall(t, r, k),
                     Grading!EvidenceSpanRecall(t, r, k))
  <2>1. Documented(t, r, k) \in SUBSET t.spans /\ Spanned(t, r, k) \in SUBSET t.spans
        /\ Documented(t, r, k) \subseteq Spanned(t, r, k)
    BY FoundInAny DEF Documented, Spanned
  <2> QED BY <2>1, <1>0, ScoreMonotone DEF Documented, Spanned,
             Grading!DocumentAwareEvidenceRecall, Grading!EvidenceSpanRecall
<1>2. ASSUME NEW less \in 0 .. k
      PROVE  /\ Grading!AtMost(Grading!DocumentRecall(t, r, less), Grading!DocumentRecall(t, r, k))
             /\ Grading!AtMost(Grading!EvidenceSpanRecall(t, r, less),
                               Grading!EvidenceSpanRecall(t, r, k))
             /\ Grading!CompleteSpans(t, r, less) \subseteq Grading!CompleteSpans(t, r, k)
  <2>1. Grading!Top(r, less) \subseteq Grading!Top(r, k)
    BY <1>0, TopGrows
  <2>2. DocumentsHit(t, r, less) \in SUBSET t.documents
        /\ DocumentsHit(t, r, k) \in SUBSET t.documents
        /\ DocumentsHit(t, r, less) \subseteq DocumentsHit(t, r, k)
    BY <2>1 DEF DocumentsHit, Grading!DocumentsIn
  <2>3. Spanned(t, r, less) \in SUBSET t.spans /\ Spanned(t, r, k) \in SUBSET t.spans
        /\ Spanned(t, r, less) \subseteq Spanned(t, r, k)
    BY <2>1, FoundInMore DEF Spanned
  <2>4. Grading!AtMost(Grading!DocumentRecall(t, r, less), Grading!DocumentRecall(t, r, k))
    BY <2>2, <1>0, ScoreMonotone DEF DocumentsHit, Grading!DocumentRecall
  <2>5. Grading!AtMost(Grading!EvidenceSpanRecall(t, r, less),
                       Grading!EvidenceSpanRecall(t, r, k))
    BY <2>3, <1>0, ScoreMonotone DEF Spanned, Grading!EvidenceSpanRecall
  <2> QED BY <2>4, <2>5, CompleteGrows
<1>3. \A s \in Grading!CompleteSpans(t, r, k) :
        Grading!Omitted \notin Grading!Range(Grading!Probe(s)) =>
        Grading!Found(Grading!OfDocument(Grading!Top(r, k), s.doc), Grading!Probe(s))
  BY CompleteIsProbed
<1>4. t.documents # {} =>
        (Grading!DocumentRecall(t, r, k).hits > 0
           <=> /\ Grading!ReciprocalRank(t, r).hits = 1
               /\ Grading!ReciprocalRank(t, r).of <= k)
  BY FirstRankIsRecall
<1>5. Grading!Passed(Grading!EvidenceCompleteSpanRecall(t, r, k)) =>
        Grading!Passed(Grading!EvidenceFragmentRecall(t, r, k))
  BY CompleteHasFragments
<1>6. t.spans # {} /\ Grading!Top(r, k) = {} =>
        \A score \in Grading!SpanScores(t, r, k) : score.hits = 0
  BY NothingIsNoSpan
<1> QED BY <1>1, <1>2, <1>3, <1>4, <1>5, <1>6 DEF Grading!RetrievalGradersAgree

(* What counts as cited without an error is all that was cited and flagged:   *)
(* there is something, and no error.                                          *)
LEMMA ValidIsClean ==
    ASSUME NEW t, NEW r, IsDecision(t, r), r.status # "abstained",
           Grading!Passed(Grading!PostGateCitationValidity(r))
    PROVE  r.citations # <<>> /\ r.errors = {}
<1> DEFINE cited == Grading!Range(r.citations)
           all == cited \cup r.errors
           good == cited \ r.errors
<1>1. IsFiniteSet(r.errors) /\ IsFiniteSet(cited)
  <2>1. PICK c \in {{r.citations[i] : i \in DOMAIN r.citations}} :
               IsFiniteSet(c) /\ r.citations \in Seq(c)
    BY DEF IsDecision
  <2> QED BY <2>1 DEF IsDecision, Grading!Range
<1>2. Grading!PostGateCitationValidity(r) = IF all = {} THEN Grading!Zero
                                            ELSE Grading!ScoreOf(all, good)
  BY DEF Grading!PostGateCitationValidity, Grading!Abstained
<1>3. all # {}
  BY <1>2 DEF Grading!Passed, Grading!Zero, Grading!Score
<1>4. IsFiniteSet(all) /\ good \in SUBSET all
  BY <1>1, FS_Union
<1>5. good = all
  <2> HIDE DEF all, good
  <2>1. Grading!Passed(Grading!ScoreOf(all, good))
    BY <1>2, <1>3
  <2> QED BY <2>1, <1>3, <1>4, ScoreExtremes
<1>6. r.errors = {} /\ cited # {}
  BY <1>3, <1>5
<1>7. r.citations # <<>>
  BY <1>6 DEF Grading!Range
<1> QED BY <1>6, <1>7

(* A decision is right in both reports or in neither, and what passes every   *)
(* grader has made it, or failed with citations that are valid.               *)
LEMMA DecisionGrades ==
    ASSUME NEW t, NEW r, IsDecision(t, r)
    PROVE  Grading!DecisionsAgree(t, r)
<1>1. /\ Grading!Passed(Grading!Full) /\ ~ Grading!Passed(Grading!Zero)
  BY DEF Grading!Passed, Grading!Full, Grading!Zero, Grading!Score
<1>2. /\ t.behavior \in {"answer", "abstain"}
      /\ r.status \in {"completed", "abstained", "failed", "cancelled"}
  BY DEF IsDecision
<1>3. Grading!BehaviorMatches(t, r) = Grading!DecisionCorrect(t, r)
  BY <1>2 DEF Grading!BehaviorMatches, Grading!DecisionCorrect, Grading!Abstained
<1>4. Grading!Passed(Grading!AbstentionCorrectness(t, r))
        <=> ((t.behavior = "abstain") <=> (r.status = "abstained"))
  BY <1>1 DEF Grading!AbstentionCorrectness, Grading!Abstained
<1>5. Grading!DecisionCorrect(t, r) => Grading!Passed(Grading!AbstentionCorrectness(t, r))
  BY <1>2, <1>4 DEF Grading!DecisionCorrect
<1>6. Grading!Passed(Grading!AbstentionCorrectness(t, r))
        /\ Grading!Passed(Grading!PostGateCitationValidity(r)) =>
        \/ Grading!BehaviorMatches(t, r)
        \/ /\ r.status \in {"failed", "cancelled"} /\ t.behavior = "answer"
           /\ r.citations # <<>> /\ r.errors = {}
  <2>1. CASE r.status \in {"failed", "cancelled"}
    BY <1>2, <1>4, <2>1, ValidIsClean
  <2>2. CASE r.status \in {"completed", "abstained"}
    BY <1>2, <1>4, <2>2 DEF Grading!BehaviorMatches, Grading!Abstained
  <2> QED BY <1>2, <2>1, <2>2
<1> QED BY <1>3, <1>5, <1>6 DEF Grading!DecisionsAgree

-----------------------------------------------------------------------------
(***************************************************************************)
(* The grading of an answer's support.                                     *)
(*                                                                         *)
(* The sentences are read one after the other, line by line: ReadUpTo      *)
(* holds after each of them, and says of which sentences each claim read   *)
(* so far carries the citations.  The claims are then checked one after    *)
(* the other, each after no more calls than there are claims before it.    *)
(***************************************************************************)

(* What holds of 0 and goes from each number to the next holds up to n. *)
LEMMA AllUpTo ==
    ASSUME NEW n \in Nat, NEW D, 0 \in D, \A i \in 1 .. n : i - 1 \in D => i \in D
    PROVE  n \in D /\ \A i \in 0 .. n : i \in D
<1> DEFINE B == {i \in 0 .. n : i \notin D}
<1>1. SUFFICES ASSUME B # {} PROVE FALSE
  BY <1>1
<1>2. PICK x \in B : \A y \in B : x <= y
  <2>1. B \subseteq Nat
    OBVIOUS
  <2> HIDE DEF B
  <2> QED BY <1>1, <2>1, LeastOf
<1>3. x \in 1 .. n /\ x - 1 \in 0 .. n /\ x - 1 \notin B
  BY <1>2
<1> QED BY <1>2, <1>3

(* The grading modules count as FiniteSets does. *)
LEMMA CountsAlike == \A S : Grading!Cardinality(S) = Cardinality(S)
BY DEF Grading!Cardinality, Cardinality

(* The elements at some places of a sequence: as many as there are places, and *)
(* those that are there.                                                       *)
LEMMA AtPlaces ==
    ASSUME NEW X, NEW seq \in Seq(X), NEW P \in SUBSET DOMAIN seq
    PROVE  /\ Grading!At(seq, P) \in Seq(X)
           /\ IsFiniteSet(P) /\ Cardinality(P) \in Nat
           /\ Len(Grading!At(seq, P)) = Cardinality(P)
           /\ Grading!Range(Grading!At(seq, P)) = {seq[i] : i \in P}
<1> DEFINE N == Len(seq)
           upto(i) == P \cap (1 .. i)
           r(i) == Cardinality(upto(i))
           C == Cardinality(P)
           place(n) == CHOOSE i \in P : r(i) = n
<1>1. N \in Nat /\ DOMAIN seq = 1 .. N /\ P \subseteq 1 .. N
  OBVIOUS
<1>2. IsFiniteSet(P) /\ C \in Nat
  <2>1. IsFiniteSet(1 .. N)
    BY <1>1, FS_Interval
  <2> QED BY <1>1, <2>1, FS_Subset, FS_CardinalityType
<1>3. \A i : IsFiniteSet(upto(i)) /\ r(i) \in Nat /\ r(i) <= C
  <2> SUFFICES ASSUME NEW i PROVE IsFiniteSet(upto(i)) /\ r(i) \in Nat /\ r(i) <= C
    OBVIOUS
  <2>1. upto(i) \in SUBSET P
    OBVIOUS
  <2> QED BY <1>2, <2>1, FS_Subset, FS_CardinalityType
<1>4. ASSUME NEW i \in 1 .. N
      PROVE  r(i) = IF i \in P THEN r(i - 1) + 1 ELSE r(i - 1)
  <2>1. CASE i \in P
    <3>1. upto(i) = upto(i - 1) \cup {i} /\ i \notin upto(i - 1)
      BY <1>1, <2>1
    <3> QED BY <2>1, <3>1, <1>3, FS_AddElement
  <2>2. CASE i \notin P
    <3>1. upto(i) = upto(i - 1)
      BY <1>1, <2>2
    <3> QED BY <2>2, <3>1
  <2> QED BY <2>1, <2>2
<1>5. r(0) = 0
  <2>1. upto(0) = {}
    BY <1>1
  <2> QED BY <2>1, FS_EmptySet
<1>6. r(N) = C
  <2>1. upto(N) = P
    BY <1>1
  <2> QED BY <2>1
<1>7. ASSUME NEW i \in P PROVE r(i) \in 1 .. C
  <2>1. i \in Nat /\ i \in upto(i) /\ upto(i) # {}
    BY <1>1
  <2>2. IsFiniteSet(upto(i)) /\ r(i) \in Nat /\ r(i) <= C
    BY <1>3
  <2>3. r(i) # 0
    BY <2>1, <2>2, FS_EmptySet
  <2> HIDE DEF r, C
  <2> QED BY <2>2, <2>3, <1>2
<1>8. ASSUME NEW n \in 1 .. C PROVE place(n) \in P /\ r(place(n)) = n
  <2> DEFINE B == {i \in 0 .. N : r(i) >= n}
  <2>1. N \in B /\ B \subseteq Nat
    BY <1>1, <1>2, <1>6
  <2> HIDE DEF r
  <2>2. PICK i \in B : \A j \in B : i <= j
    <3> HIDE DEF B
    <3> QED BY <2>1, LeastOf
  <2>3. i # 0
    BY <2>2, <1>5
  <2>4. i \in 1 .. N /\ i - 1 \notin B /\ i - 1 \in 0 .. N
    BY <2>2, <2>3, <1>1
  <2>5. r(i - 1) < n /\ r(i) >= n /\ r(i - 1) \in Nat
    <3>1. r(i - 1) \in Nat /\ r(i) \in Nat
      BY <1>3
    <3> HIDE DEF r, C
    <3> QED BY <3>1, <2>2, <2>4, <1>2
  <2>6. i \in P /\ r(i) = n
    BY <2>4, <2>5, <1>4
  <2> QED BY <2>6
<1>9. ASSUME NEW i \in P, NEW j \in P, r(i) = r(j) PROVE i = j
  <2>1. ASSUME NEW x \in P, NEW y \in P, x < y PROVE r(x) # r(y)
    <3>1. upto(x) \in SUBSET upto(y) /\ y \in upto(y) /\ y \notin upto(x)
      BY <1>1, <2>1
    <3> QED BY <3>1, <1>3, FS_Subset
  <2>2. i \in Int /\ j \in Int
    BY <1>1
  <2> QED BY <2>1, <2>2, <1>9
<1> HIDE DEF r, place, C
<1>10. Grading!At(seq, P) = [n \in 1 .. C |-> seq[place(n)]]
  BY DEF Grading!At, C, r, place, upto, Grading!Cardinality, Cardinality
<1>11. Grading!At(seq, P) \in Seq(X) /\ Len(Grading!At(seq, P)) = C
       /\ DOMAIN Grading!At(seq, P) = 1 .. C
  <2>1. \A n \in 1 .. C : seq[place(n)] \in X
    BY <1>1, <1>8
  <2> QED BY <2>1, <1>2, <1>10
<1>12. {seq[place(n)] : n \in 1 .. C} = {seq[i] : i \in P}
  <2>1. ASSUME NEW i \in P PROVE \E n \in 1 .. C : place(n) = i
    <3>1. r(i) \in 1 .. C
      BY <1>7
    <3>2. place(r(i)) \in P /\ r(place(r(i))) = r(i)
      BY <3>1, <1>8
    <3>3. place(r(i)) = i
      BY <3>2, <1>9
    <3> QED BY <3>1, <3>3
  <2> QED BY <2>1, <1>8
<1>13. Grading!Range(Grading!At(seq, P)) = {seq[i] : i \in P}
  <2>1. \A n \in 1 .. C : Grading!At(seq, P)[n] = seq[place(n)]
    BY <1>10
  <2>2. {Grading!At(seq, P)[n] : n \in 1 .. C} = {seq[place(n)] : n \in 1 .. C}
    BY <2>1
  <2> QED BY <2>2, <1>11, <1>12 DEF Grading!Range
<1> QED BY <1>2, <1>11, <1>13 DEF C

(* All sequences of a sequence of sequences, in one. *)
LEMMA Flattened ==
    ASSUME NEW X, NEW ss \in Seq(Seq(X))
    PROVE  /\ Grading!FlattenSeq(ss) \in Seq(X)
           /\ Grading!Range(Grading!FlattenSeq(ss))
                = UNION {Grading!Range(ss[i]) : i \in DOMAIN ss}
<1> DEFINE n == Len(ss)
           Is(k, f) == f = [i \in 1 .. k |-> IF i = 1 THEN ss[i] ELSE f[i - 1] \o ss[i]]
           D == {k \in 0 .. n : \E f : Is(k, f) /\ \A i \in 1 .. k : f[i] \in Seq(X)}
<1>1. n \in Nat /\ DOMAIN ss = 1 .. n /\ \A i \in 1 .. n : ss[i] \in Seq(X)
  OBVIOUS
<1>2. CASE n = 0
  <2>1. Grading!FlattenSeq(ss) = ss /\ ss = <<>> /\ 1 .. n = {}
    BY <1>1, <1>2, EmptySeq DEF Grading!FlattenSeq
  <2> QED BY <2>1, <1>1 DEF Grading!Range
<1>3. CASE n # 0
  <2>1. 0 \in D
    <3> DEFINE f == [i \in 1 .. 0 |-> ss]
    <3>1. Is(0, f) /\ \A i \in 1 .. 0 : f[i] \in Seq(X)
      OBVIOUS
    <3>2. 0 \in 0 .. n
      BY <1>1
    <3> HIDE DEF f, Is
    <3> QED BY <3>1, <3>2
  <2>2. ASSUME NEW k \in 1 .. n, k - 1 \in D PROVE k \in D
    <3>1. PICK f : Is(k - 1, f) /\ \A i \in 1 .. k - 1 : f[i] \in Seq(X)
      BY <2>2
    <3> DEFINE v == IF k = 1 THEN ss[1] ELSE f[k - 1] \o ss[k]
               g == [i \in 1 .. k |-> IF i = k THEN v ELSE f[i]]
    <3>2. v \in Seq(X)
      <4>1. CASE k = 1
        BY <4>1, <1>1
      <4>2. CASE k # 1
        <5>1. f[k - 1] \in Seq(X) /\ ss[k] \in Seq(X)
          BY <4>2, <3>1, <1>1
        <5> QED BY <5>1, <4>2, ConcatProperties
      <4> QED BY <4>1, <4>2
    <3> HIDE DEF v
    <3>3. \A i \in 1 .. k : g[i] \in Seq(X)
      BY <3>1, <3>2
    <3>4. ASSUME NEW i \in 1 .. k PROVE g[i] = IF i = 1 THEN ss[i] ELSE g[i - 1] \o ss[i]
      <4>1. CASE i = k
        <5>1. k # 1 => g[k - 1] = f[k - 1]
          OBVIOUS
        <5> QED BY <4>1, <5>1 DEF v
      <4>2. CASE i # k
        <5>1. i \in 1 .. k - 1 /\ g[i] = f[i] /\ (i # 1 => g[i - 1] = f[i - 1])
          BY <4>2
        <5>2. f[i] = IF i = 1 THEN ss[i] ELSE f[i - 1] \o ss[i]
          BY <3>1, <5>1
        <5> QED BY <5>1, <5>2
      <4> QED BY <4>1, <4>2
    <3>5. g = [i \in 1 .. k |-> g[i]]
      OBVIOUS
    <3> HIDE DEF g
    <3>6. Is(k, g)
      BY <3>4, <3>5
    <3>7. k \in 0 .. n
      OBVIOUS
    <3> HIDE DEF Is
    <3> QED BY <3>3, <3>6, <3>7
  <2>3. n \in D
    <3> HIDE DEF D, n
    <3> QED BY <2>1, <2>2, <1>1, AllUpTo
  <2> DEFINE G == CHOOSE f : Is(n, f)
  <2>4. Is(n, G)
    <3> HIDE DEF Is
    <3> QED BY <2>3
  <2>5. Grading!FlattenSeq(ss) = G[n]
    BY <1>3 DEF Grading!FlattenSeq
  <2> HIDE DEF G
  <2> DEFINE E == {k \in 0 .. n : k # 0 =>
                     /\ G[k] \in Seq(X)
                     /\ Grading!Range(G[k]) = UNION {Grading!Range(ss[i]) : i \in 1 .. k}}
  <2>6. 0 \in E
    BY <1>1
  <2>7. ASSUME NEW k \in 1 .. n, k - 1 \in E PROVE k \in E
    <3>1. G[k] = IF k = 1 THEN ss[k] ELSE G[k - 1] \o ss[k]
      BY <2>4
    <3>2. CASE k = 1
      <4>1. 1 .. k = {1}
        BY <3>2
      <4> QED BY <3>1, <3>2, <4>1, <1>1
    <3>3. CASE k # 1
      <4>1. G[k - 1] \in Seq(X) /\ ss[k] \in Seq(X) /\ G[k] = G[k - 1] \o ss[k]
        BY <2>7, <3>1, <3>3, <1>1
      <4>2. G[k] \in Seq(X) /\ Range(G[k]) = Range(G[k - 1]) \cup Range(ss[k])
        BY <4>1, ConcatProperties, RangeConcatenation
      <4>3. Grading!Range(G[k]) = Grading!Range(G[k - 1]) \cup Grading!Range(ss[k])
        BY <4>2 DEF Grading!Range, Range
      <4>4. 1 .. k = (1 .. k - 1) \cup {k}
        OBVIOUS
      <4>5. Grading!Range(G[k - 1]) = UNION {Grading!Range(ss[i]) : i \in 1 .. k - 1}
        BY <2>7, <3>3
      <4>6. UNION {Grading!Range(ss[i]) : i \in 1 .. k}
              = (UNION {Grading!Range(ss[i]) : i \in 1 .. k - 1}) \cup Grading!Range(ss[k])
        <5> DEFINE R(i) == Grading!Range(ss[i])
        <5> HIDE DEF R
        <5>1. UNION {R(i) : i \in 1 .. k} = (UNION {R(i) : i \in 1 .. k - 1}) \cup R(k)
          BY <4>4
        <5> QED BY <5>1 DEF R
      <4>7. k \in 0 .. n
        OBVIOUS
      <4>8. Grading!Range(G[k]) = UNION {Grading!Range(ss[i]) : i \in 1 .. k}
        BY <4>3, <4>5, <4>6
      <4> QED BY <4>2, <4>7, <4>8, Zenon
    <3> QED BY <3>2, <3>3
  <2>8. n \in E
    <3> HIDE DEF E, n
    <3> QED BY <2>6, <2>7, <1>1, AllUpTo
  <2> QED BY <2>5, <2>8, <1>3, <1>1
<1> QED BY <1>2, <1>3

(* The claims that are read from an answer. *)
CitedClaim == [citations : Seq(Grading!Part), malformed : Seq(Seq(Grading!Part))]

(* What a claim and a sentence cite: places, and what does not parse. *)
ClaimPlaces(claim) == {c.place : c \in Grading!Range(claim.citations)}
SentencePlaces(s) == Grading!Range(Grading!Places(Grading!CitationsIn(s)))

(* One of each group that has the same key stays, so no key is lost. *)
LEMMA UniqueIs ==
    ASSUME NEW X, NEW seq \in Seq(X), NEW keys
    PROVE  /\ Grading!Unique(seq, keys) \in Seq(X)
           /\ \E P \in SUBSET DOMAIN seq :
                /\ Grading!Range(Grading!Unique(seq, keys)) = {seq[i] : i \in P}
                /\ {keys[i] : i \in P} = {keys[i] : i \in DOMAIN seq}
                /\ IsFiniteSet(P) /\ Len(Grading!Unique(seq, keys)) = Cardinality(P)
<1> DEFINE P == {i \in DOMAIN seq : \A j \in 1 .. i - 1 : keys[j] # keys[i]}
<1>1. P \in SUBSET DOMAIN seq /\ Grading!Unique(seq, keys) = Grading!At(seq, P)
  BY DEF Grading!Unique
<1>2. ASSUME NEW i \in DOMAIN seq PROVE \E j \in P : keys[j] = keys[i]
  <2> DEFINE B == {j \in DOMAIN seq : keys[j] = keys[i]}
  <2>1. i \in B /\ B \subseteq Nat /\ DOMAIN seq = 1 .. Len(seq) /\ Len(seq) \in Nat
    OBVIOUS
  <2>2. PICK j \in B : \A m \in B : j <= m
    <3> HIDE DEF B
    <3> QED BY <2>1, LeastOf
  <2>3. \A m \in 1 .. j - 1 : m \in DOMAIN seq /\ ~ (j <= m)
    BY <2>1
  <2>4. j \in P
    BY <2>2, <2>3
  <2> QED BY <2>4
<1> HIDE DEF P
<1>3. {keys[i] : i \in P} = {keys[i] : i \in DOMAIN seq}
  BY <1>1, <1>2
<1>4. /\ Grading!At(seq, P) \in Seq(X)
      /\ IsFiniteSet(P) /\ Len(Grading!At(seq, P)) = Cardinality(P)
      /\ Grading!Range(Grading!At(seq, P)) = {seq[i] : i \in P}
  BY <1>1, AtPlaces
<1> QED BY <1>1, <1>3, <1>4

(* A list of citations is taken apart. *)
LEMMA SpansAre ==
    ASSUME NEW s \in Grading!Sentence
    PROVE  Grading!SpansOf(s) \in Seq(Seq(Grading!Part))
<1> DEFINE Span == Seq(Grading!Part)
           ss == [i \in DOMAIN s.spans |-> Grading!NormalizeCompound(s.spans[i])]
<1>1. s.spans \in Seq(Span)
  BY DEF Grading!Sentence
<1>2. Len(s.spans) \in Nat /\ DOMAIN s.spans = 1 .. Len(s.spans)
      /\ \A i \in DOMAIN s.spans : s.spans[i] \in Span
  BY <1>1
<1>3. ASSUME NEW span \in Span PROVE Grading!NormalizeCompound(span) \in Seq(Span)
  <2>1. DOMAIN span = 1 .. Len(span) /\ Len(span) \in Nat
        /\ \A i \in DOMAIN span : span[i] \in Grading!Part
    OBVIOUS
  <2>2. \A i \in DOMAIN span : <<span[i]>> \in Span
    BY <2>1
  <2>3. [i \in DOMAIN span |-> <<span[i]>>] \in Seq(Span)
    <3> HIDE DEF Span
    <3> QED BY <2>1, <2>2
  <2>4. <<span>> \in Seq(Span)
    <3> HIDE DEF Span
    <3> QED OBVIOUS
  <2> QED BY <2>3, <2>4 DEF Grading!NormalizeCompound
<1>4. ss \in Seq(Seq(Span))
  <2> HIDE DEF Span
  <2> QED BY <1>2, <1>3
<1>5. Grading!FlattenSeq(ss) \in Seq(Span)
  <2> HIDE DEF Span, ss
  <2> QED BY <1>4, Flattened
<1> QED BY <1>5 DEF Grading!SpansOf

(* What a sentence cites are locators, and what does not parse spans. *)
LEMMA CitationsAre ==
    ASSUME NEW s \in Grading!Sentence
    PROVE  /\ Grading!CitationsIn(s) \in Seq(Grading!Part)
           /\ Grading!MalformedIn(s) \in Seq(Seq(Grading!Part))
<1> DEFINE spans == Grading!SpansOf(s)
           P == {i \in DOMAIN spans : Grading!IsCitation(spans[i])}
           Q == {i \in DOMAIN spans : /\ ~ Grading!IsCitation(spans[i])
                                      /\ Grading!LooksLikeAttempt(spans[i])}
<1>1. spans \in Seq(Seq(Grading!Part))
  BY SpansAre
<1>2. P \in SUBSET DOMAIN spans /\ Q \in SUBSET DOMAIN spans
  OBVIOUS
<1> HIDE DEF spans, P, Q
<1>3. Grading!At(spans, P) \in Seq(Seq(Grading!Part))
      /\ Grading!At(spans, Q) \in Seq(Seq(Grading!Part))
  BY <1>1, <1>2, AtPlaces
<1>4. Grading!FlattenSeq(Grading!At(spans, P)) \in Seq(Grading!Part)
  BY <1>3, Flattened
<1>5. Grading!LocatorsOf(spans) = Grading!FlattenSeq(Grading!At(spans, P))
  BY DEF Grading!LocatorsOf, P
<1>6. Grading!AttemptsOf(spans) = Grading!At(spans, Q)
  BY DEF Grading!AttemptsOf, Q
<1>7. \A keys : Grading!Unique(Grading!LocatorsOf(spans), keys) \in Seq(Grading!Part)
  BY <1>4, <1>5, UniqueIs
<1>8. Grading!CitationsIn(s) \in Seq(Grading!Part)
  BY <1>7 DEF Grading!CitationsIn, spans
<1>9. Grading!MalformedIn(s) \in Seq(Seq(Grading!Part))
  BY <1>3, <1>6 DEF Grading!MalformedIn, spans
<1> QED BY <1>8, <1>9

(* The range of a sequence of two. *)
LEMMA RangeOfBoth ==
    ASSUME NEW X, NEW a \in Seq(X), NEW b \in Seq(X)
    PROVE  a \o b \in Seq(X)
           /\ Grading!Range(a \o b) = Grading!Range(a) \cup Grading!Range(b)
<1>1. Range(a \o b) = Range(a) \cup Range(b)
  BY RangeConcatenation
<1>2. a \o b \in Seq(X)
  BY ConcatProperties
<1> QED BY <1>1, <1>2 DEF Grading!Range, Range

(* A sentence that is read for a claim adds what it cites, and no more. *)
LEMMA CiteIs ==
    ASSUME NEW claim \in CitedClaim, NEW s \in Grading!Sentence
    PROVE  /\ Grading!Cite(claim, s) \in CitedClaim
           /\ ClaimPlaces(Grading!Cite(claim, s)) = ClaimPlaces(claim) \cup SentencePlaces(s)
           /\ Grading!Range(Grading!Cite(claim, s).malformed)
                = Grading!Range(claim.malformed) \cup Grading!Range(Grading!MalformedIn(s))
<1> DEFINE cs == claim.citations \o Grading!CitationsIn(s)
           ms == claim.malformed \o Grading!MalformedIn(s)
           uc == Grading!Unique(cs, Grading!Places(cs))
           um == Grading!Unique(ms, ms)
<1>1. /\ claim.citations \in Seq(Grading!Part) /\ claim.malformed \in Seq(Seq(Grading!Part))
      /\ Grading!CitationsIn(s) \in Seq(Grading!Part)
      /\ Grading!MalformedIn(s) \in Seq(Seq(Grading!Part))
  BY CitationsAre DEF CitedClaim
<1>2. cs \in Seq(Grading!Part) /\ ms \in Seq(Seq(Grading!Part))
  BY <1>1, RangeOfBoth
<1>3. Grading!Cite(claim, s) = [citations |-> uc, malformed |-> um]
  BY DEF Grading!Cite
<1>4. {c.place : c \in Grading!Range(cs)} = ClaimPlaces(claim) \cup SentencePlaces(s)
  <2>1. Grading!Range(cs) = Grading!Range(claim.citations)
                              \cup Grading!Range(Grading!CitationsIn(s))
    BY <1>1, RangeOfBoth
  <2>2. SentencePlaces(s) = {c.place : c \in Grading!Range(Grading!CitationsIn(s))}
    BY DEF SentencePlaces, Grading!Places, Grading!Range
  <2> QED BY <2>1, <2>2 DEF ClaimPlaces
<1>5. Grading!Range(ms) = Grading!Range(claim.malformed)
                            \cup Grading!Range(Grading!MalformedIn(s))
  BY <1>1, RangeOfBoth
<1> HIDE DEF cs, ms
<1>6. uc \in Seq(Grading!Part)
      /\ {c.place : c \in Grading!Range(uc)} = {c.place : c \in Grading!Range(cs)}
  <2>1. PICK P \in SUBSET DOMAIN cs :
          /\ Grading!Range(uc) = {cs[i] : i \in P}
          /\ {Grading!Places(cs)[i] : i \in P} = {Grading!Places(cs)[i] : i \in DOMAIN cs}
    BY <1>2, UniqueIs
  <2>2. uc \in Seq(Grading!Part)
    BY <1>2, UniqueIs
  <2> HIDE DEF uc
  <2>3. \A i \in DOMAIN cs : Grading!Places(cs)[i] = cs[i].place
    BY DEF Grading!Places
  <2>4. {Grading!Places(cs)[i] : i \in P} = {cs[i].place : i \in P}
    BY <2>3
  <2>5. {Grading!Places(cs)[i] : i \in DOMAIN cs} = {cs[i].place : i \in DOMAIN cs}
    BY <2>3
  <2>6. {c.place : c \in Grading!Range(uc)} = {cs[i].place : i \in P}
    BY <2>1
  <2>7. {c.place : c \in Grading!Range(cs)} = {cs[i].place : i \in DOMAIN cs}
    BY DEF Grading!Range
  <2> QED BY <2>1, <2>2, <2>4, <2>5, <2>6, <2>7
<1>7. um \in Seq(Seq(Grading!Part)) /\ Grading!Range(um) = Grading!Range(ms)
  <2>1. PICK P \in SUBSET DOMAIN ms :
          /\ Grading!Range(um) = {ms[i] : i \in P}
          /\ {ms[i] : i \in P} = {ms[i] : i \in DOMAIN ms}
    BY <1>2, UniqueIs
  <2>2. um \in Seq(Seq(Grading!Part))
    BY <1>2, UniqueIs
  <2>3. Grading!Range(ms) = {ms[i] : i \in DOMAIN ms}
    BY DEF Grading!Range
  <2> QED BY <2>1, <2>2, <2>3
<1> HIDE DEF uc, um
<1>8. Grading!Cite(claim, s).citations = uc /\ Grading!Cite(claim, s).malformed = um
  BY <1>3
<1> QED BY <1>3, <1>4, <1>5, <1>6, <1>7, <1>8 DEF ClaimPlaces, CitedClaim

(* The largest of a set of numbers, once it is known. *)
LEMMA LargestIs ==
    ASSUME NEW s, s \subseteq Int, NEW m \in s, \A i \in s : i <= m
    PROVE  Grading!Max(s) = m
<1>1. Grading!Max(s) \in s /\ \A y \in s : Grading!Max(s) >= y
  <2>1. \E x \in s : \A y \in s : x >= y
    OBVIOUS
  <2> QED BY <2>1 DEF Grading!Max
<1>2. \A x, y \in Int : x >= y /\ x <= y => x = y
  OBVIOUS
<1> QED BY <1>1, <1>2

(* A non-empty set of numbers up to n has one of them as its largest. *)
LEMMA LargestIn ==
    ASSUME NEW n \in Nat, NEW s \in SUBSET (1 .. n), s # {}
    PROVE  Grading!Max(s) \in s
<1>0. \A i, j \in s : n - j <= n - i => i <= j
  OBVIOUS
<1> DEFINE T == {n - i : i \in s}
<1>1. T \subseteq Nat /\ T # {}
  OBVIOUS
<1>2. PICK x \in T : \A y \in T : x <= y
  <2> HIDE DEF T
  <2> QED BY <1>1, LeastOf
<1>3. PICK m \in s : x = n - m
  BY <1>2
<1>4. \A i \in s : i <= m
  <2>1. \A i \in s : n - i \in T
    OBVIOUS
  <2>2. \A i \in s : n - m <= n - i
    BY <2>1, <1>2, <1>3
  <2> HIDE DEF T
  <2> QED BY <2>2, <1>0
<1>5. s \subseteq Int
  OBVIOUS
<1> QED BY <1>4, <1>5, LargestIs

(* g folds h over the subsets of 1 .. n, largest first, as FoldLeft does. *)
IsFold(h, n, nil, g) ==
    g = [s \in SUBSET (1 .. n) |->
           IF s = {} THEN nil
           ELSE h[<<g[s \ {Grading!Max(s)}], Grading!Max(s)>>]]

(* Such a fold exists, and keeps the type its step keeps. *)
LEMMA FoldExists ==
    ASSUME NEW n \in Nat, NEW V, NEW nil \in V, NEW h \in [V \X (1 .. n) -> V]
    PROVE  \E g : IsFold(h, n, nil, g) /\ \A s \in SUBSET (1 .. n) : g[s] \in V
<1> DEFINE Typed(k, g) == \A s \in SUBSET (1 .. k) : g[s] \in V
           D == {k \in 0 .. n : \E g : IsFold(h, k, nil, g) /\ Typed(k, g)}
<1>1. 0 \in D
  <2> DEFINE g == [s \in SUBSET (1 .. 0) |-> nil]
  <2>1. \A s \in SUBSET (1 .. 0) : s = {}
    OBVIOUS
  <2>2. IsFold(h, 0, nil, g) /\ Typed(0, g)
    BY <2>1 DEF IsFold
  <2>3. 0 \in 0 .. n
    OBVIOUS
  <2> HIDE DEF g
  <2> QED BY <2>2, <2>3
<1>2. ASSUME NEW k \in 1 .. n, k - 1 \in D PROVE k \in D
  <2>1. PICK g : IsFold(h, k - 1, nil, g) /\ Typed(k - 1, g)
    BY <1>2
  <2> DEFINE f == [s \in SUBSET (1 .. k) |->
                     IF k \in s THEN h[<<g[s \ {k}], k>>] ELSE g[s]]
             top(s) == Grading!Max(s)
  <2>2. \A s \in SUBSET (1 .. k) :
          /\ k \notin s => s \in SUBSET (1 .. (k - 1))
          /\ s \ {k} \in SUBSET (1 .. (k - 1))
          /\ s \ {k} \in SUBSET (1 .. k) /\ k \notin s \ {k}
    OBVIOUS
  <2>3. \A s \in SUBSET (1 .. k) : f[s] \in V
    BY <2>1, <2>2
  <2>4. ASSUME NEW s \in SUBSET (1 .. k)
        PROVE  f[s] = IF s = {} THEN nil ELSE h[<<f[s \ {top(s)}], top(s)>>]
    <3>1. CASE k \in s
      <4>0. s \subseteq Int /\ \A i \in s : i <= k
        OBVIOUS
      <4>1. top(s) = k
        BY <3>1, <4>0, LargestIs
      <4>2. f[s] = h[<<g[s \ {k}], k>>] /\ f[s \ {k}] = g[s \ {k}]
        BY <3>1, <2>2
      <4> QED BY <3>1, <4>1, <4>2
    <3>2. CASE k \notin s
      <4>1. /\ s \in SUBSET (1 .. (k - 1)) /\ s \ {top(s)} \in SUBSET (1 .. k)
            /\ k \notin s \ {top(s)}
        BY <3>2, <2>2
      <4>2. f[s] = g[s] /\ f[s \ {top(s)}] = g[s \ {top(s)}]
        BY <3>2, <4>1
      <4>3. g[s] = IF s = {} THEN nil ELSE h[<<g[s \ {top(s)}], top(s)>>]
        BY <2>1, <4>1 DEF IsFold
      <4> QED BY <4>2, <4>3
    <3> QED BY <3>1, <3>2
  <2>5. f = [s \in SUBSET (1 .. k) |-> f[s]]
    OBVIOUS
  <2> HIDE DEF f
  <2>6. IsFold(h, k, nil, f)
    BY <2>4, <2>5 DEF IsFold
  <2> QED BY <2>3, <2>6
<1>3. n \in D
  <2> HIDE DEF D
  <2> QED BY <1>1, <1>2, AllUpTo
<1> QED BY <1>3

(* The largest of a prefix. *)
LEMMA LargestOfPrefix == ASSUME NEW i \in Nat, i # 0 PROVE Grading!Max(1 .. i) = i
<1>1. 1 .. i \subseteq Int /\ i \in 1 .. i /\ \A j \in 1 .. i : j <= i
  OBVIOUS
<1> QED BY <1>1, LargestIs

(* What the extraction of claims has read. *)
Extracted == [claims : Seq(CitedClaim), open : BOOLEAN]

(* What a sentence that is a claim, or cites for one, does to what was read. *)
LEMMA ReadIs ==
    ASSUME NEW acc \in Extracted, NEW s \in Grading!Sentence
    PROVE  /\ Grading!Read(acc, s) \in Extracted
           /\ s.factual =>
                /\ Grading!Read(acc, s).claims
                     = Append(acc.claims, Grading!Cite(Grading!Uncited, s))
                /\ Grading!Read(acc, s).open
           /\ ~ s.factual /\ acc.open =>
                /\ Grading!Read(acc, s).claims
                     = [acc.claims EXCEPT ![Len(acc.claims)] = Grading!Cite(@, s)]
                /\ Grading!Read(acc, s).open
           /\ ~ s.factual /\ ~ acc.open => Grading!Read(acc, s) = acc
<1> DEFINE n == Len(acc.claims)
<1>1. acc.claims \in Seq(CitedClaim) /\ acc.open \in BOOLEAN /\ n \in Nat
      /\ DOMAIN acc.claims = 1 .. n
  BY DEF Extracted
<1>2. s.factual \in BOOLEAN
  BY DEF Grading!Sentence
<1>3. CASE s.factual
  <2>1. Grading!Uncited \in CitedClaim
    BY DEF Grading!Uncited, CitedClaim
  <2>2. Grading!Cite(Grading!Uncited, s) \in CitedClaim
    BY <2>1, CiteIs
  <2>3. Append(acc.claims, Grading!Cite(Grading!Uncited, s)) \in Seq(CitedClaim)
    BY <2>2, <1>1, AppendProperties
  <2>4. Grading!Read(acc, s)
          = [claims |-> Append(acc.claims, Grading!Cite(Grading!Uncited, s)), open |-> TRUE]
    BY <1>3 DEF Grading!Read
  <2> QED BY <1>3, <2>3, <2>4 DEF Extracted
<1>4. CASE ~ s.factual /\ acc.open
  <2> DEFINE cs == [acc.claims EXCEPT ![n] = Grading!Cite(@, s)]
  <2>1. Grading!Read(acc, s) = [acc EXCEPT !.claims = cs]
    BY <1>4 DEF Grading!Read
  <2>2. cs \in Seq(CitedClaim)
    <3>1. DOMAIN cs = 1 .. n
      BY <1>1
    <3>2. ASSUME NEW i \in 1 .. n PROVE cs[i] \in CitedClaim
      <4>1. acc.claims[i] \in CitedClaim
        BY <1>1
      <4>2. Grading!Cite(acc.claims[i], s) \in CitedClaim
        BY <4>1, CiteIs
      <4> QED BY <4>1, <4>2, <1>1
    <3>3. cs = [i \in 1 .. n |-> cs[i]]
      BY <1>1
    <3> HIDE DEF cs
    <3> QED BY <3>1, <3>2, <3>3, <1>1
  <2> HIDE DEF cs
  <2>3. Grading!Read(acc, s).claims = cs /\ Grading!Read(acc, s).open = acc.open
        /\ Grading!Read(acc, s) \in Extracted
    BY <2>1, <2>2, <1>1 DEF Extracted
  <2> QED BY <2>3, <1>4 DEF cs
<1>5. CASE ~ s.factual /\ ~ acc.open
  BY <1>5 DEF Grading!Read
<1> QED BY <1>1, <1>2, <1>3, <1>4, <1>5

(* A line is read sentence by sentence, none of them open at first. *)
LEMMA LineIsFold ==
    ASSUME NEW acc, NEW line
    PROVE  Grading!ReadLine(acc, line) =
             (CHOOSE g : g = [s \in SUBSET DOMAIN line |->
                IF s = {} THEN [acc EXCEPT !.open = FALSE]
                ELSE Grading!Read(g[s \ {Grading!Max(s)}], line[Grading!Max(s)])])[DOMAIN line]
BY DEF Grading!ReadLine, Grading!FoldLeft, Grading!MapThenFoldSet

(* The states of the reading of a line. *)
IsLineRun(J, acc, line) ==
    /\ J[0] = [acc EXCEPT !.open = FALSE] /\ J[Len(line)] = Grading!ReadLine(acc, line)
    /\ \A i \in 1 .. Len(line) : J[i] = Grading!Read(J[i - 1], line[i])
    /\ \A i \in 0 .. Len(line) : J[i] \in Extracted

(* A line has such a run. *)
LEMMA LineRuns ==
    ASSUME NEW acc \in Extracted, NEW line \in Seq(Grading!Sentence)
    PROVE  \E J : IsLineRun(J, acc, line)
<1> DEFINE n == Len(line)
           nil == [acc EXCEPT !.open = FALSE]
           h == [x \in Extracted \X (1 .. n) |-> Grading!Read(x[1], line[x[2]])]
           Is(g) == g = [s \in SUBSET (1 .. n) |->
                           IF s = {} THEN nil
                           ELSE Grading!Read(g[s \ {Grading!Max(s)}], line[Grading!Max(s)])]
<1>1. n \in Nat /\ DOMAIN line = 1 .. n /\ \A i \in 1 .. n : line[i] \in Grading!Sentence
  OBVIOUS
<1>2. nil \in Extracted
  BY DEF Extracted
<1>3. h \in [Extracted \X (1 .. n) -> Extracted]
  BY <1>1, ReadIs
<1>4. ASSUME NEW x \in Extracted, NEW i \in 1 .. n
      PROVE  h[<<x, i>>] = Grading!Read(x, line[i])
  OBVIOUS
<1> HIDE DEF h, n, nil
<1>5. \A g : IsFold(h, n, nil, g) /\ (\A s \in SUBSET (1 .. n) : g[s] \in Extracted) => Is(g)
  <2> SUFFICES ASSUME NEW g, IsFold(h, n, nil, g), \A s \in SUBSET (1 .. n) : g[s] \in Extracted
               PROVE  Is(g)
    OBVIOUS
  <2>1. ASSUME NEW s \in SUBSET (1 .. n), s # {}
        PROVE  h[<<g[s \ {Grading!Max(s)}], Grading!Max(s)>>]
                 = Grading!Read(g[s \ {Grading!Max(s)}], line[Grading!Max(s)])
    <3>1. Grading!Max(s) \in 1 .. n /\ s \ {Grading!Max(s)} \in SUBSET (1 .. n)
      BY <2>1, <1>1, LargestIn
    <3> QED BY <3>1, <1>4
  <2> QED BY <2>1 DEF IsFold
<1>6. PICK g : IsFold(h, n, nil, g) /\ \A s \in SUBSET (1 .. n) : g[s] \in Extracted
  BY <1>1, <1>2, <1>3, FoldExists
<1>7. Is(g)
  BY <1>5, <1>6
<1> DEFINE G == CHOOSE f : Is(f)
<1>8. Is(G)
  <2> HIDE DEF Is
  <2> QED BY <1>7
<1>9. Grading!ReadLine(acc, line) = G[1 .. n]
  BY <1>1, LineIsFold DEF nil
<1> HIDE DEF G
<1>10. G[1 .. 0] = nil
  <2>1. 1 .. 0 = {} /\ {} \in SUBSET (1 .. n)
    OBVIOUS
  <2> QED BY <1>8, <2>1
<1>11. ASSUME NEW i \in 1 .. n PROVE G[1 .. i] = Grading!Read(G[1 .. i - 1], line[i])
  <2>1. 1 .. i \in SUBSET (1 .. n) /\ (1 .. i) \ {i} = 1 .. i - 1 /\ 1 .. i # {}
    <3>1. i \in Nat /\ i \in 1 .. i /\ i <= n
      BY <1>1
    <3>2. \A j \in 1 .. i : j \in 1 .. n
      BY <1>1, <3>1
    <3>3. \A j : j \in (1 .. i) \ {i} <=> j \in 1 .. i - 1
      BY <3>1
    <3> QED BY <3>1, <3>2, <3>3
  <2>2. Grading!Max(1 .. i) = i
    BY <1>1, LargestOfPrefix
  <2>3. G[1 .. i] = Grading!Read(G[(1 .. i) \ {Grading!Max(1 .. i)}], line[Grading!Max(1 .. i)])
    BY <1>8, <2>1
  <2> QED BY <2>1, <2>2, <2>3
<1> HIDE DEF Is
<1> DEFINE J == [i \in 0 .. n |-> G[1 .. i]]
           E == {i \in 0 .. n : J[i] \in Extracted}
<1>12. J[0] = nil /\ J[n] = Grading!ReadLine(acc, line)
  BY <1>1, <1>9, <1>10
<1>13. \A i \in 1 .. n : J[i] = Grading!Read(J[i - 1], line[i])
  BY <1>1, <1>11
<1> HIDE DEF J
<1>14. \A i \in 0 .. n : i \in E
  <2>1. 0 \in E
    BY <1>1, <1>2, <1>12
  <2>2. \A i \in 1 .. n : i - 1 \in E => i \in E
    <3> SUFFICES ASSUME NEW i \in 1 .. n, i - 1 \in E PROVE i \in E
      OBVIOUS
    <3>1. J[i - 1] \in Extracted /\ line[i] \in Grading!Sentence /\ i \in 0 .. n
      BY <1>1
    <3>2. Grading!Read(J[i - 1], line[i]) \in Extracted
      BY <3>1, ReadIs
    <3> QED BY <3>1, <3>2, <1>13
  <2> HIDE DEF E
  <2> QED BY <1>1, <2>1, <2>2, AllUpTo
<1>15. IsLineRun(J, acc, line)
  BY <1>12, <1>13, <1>14 DEF IsLineRun, n, nil
<1> QED BY <1>15

(* Before the first line nothing has been read. *)
NothingRead == [claims |-> <<>>, open |-> FALSE]

(* What was read stays of its type over a line. *)
LEMMA ReadLineIs ==
    ASSUME NEW acc \in Extracted, NEW line \in Seq(Grading!Sentence)
    PROVE  Grading!ReadLine(acc, line) \in Extracted
<1>1. PICK J : IsLineRun(J, acc, line)
  BY LineRuns
<1>2. Len(line) \in 0 .. Len(line)
  OBVIOUS
<1> QED BY <1>1, <1>2 DEF IsLineRun

(* An answer is read line by line. *)
LEMMA AnswerIsFold ==
    ASSUME NEW answer
    PROVE  Grading!ExtractCitedClaims(answer) =
             (CHOOSE g : g = [s \in SUBSET DOMAIN answer |->
                IF s = {} THEN NothingRead
                ELSE Grading!ReadLine(g[s \ {Grading!Max(s)}], answer[Grading!Max(s)])])
             [DOMAIN answer].claims
BY DEF Grading!ExtractCitedClaims, Grading!FoldLeft, Grading!MapThenFoldSet, NothingRead

(* The states of the reading of an answer. *)
IsAnswerRun(J, answer) ==
    /\ J[0] = NothingRead /\ J[Len(answer)].claims = Grading!ExtractCitedClaims(answer)
    /\ \A i \in 1 .. Len(answer) : J[i] = Grading!ReadLine(J[i - 1], answer[i])
    /\ \A i \in 0 .. Len(answer) : J[i] \in Extracted

(* An answer has such a run. *)
LEMMA AnswerRuns ==
    ASSUME NEW answer \in Grading!Answer
    PROVE  \E J : IsAnswerRun(J, answer)
<1> DEFINE n == Len(answer)
           nil == NothingRead
           h == [x \in Extracted \X (1 .. n) |-> Grading!ReadLine(x[1], answer[x[2]])]
           Is(g) == g = [s \in SUBSET (1 .. n) |->
                           IF s = {} THEN nil
                           ELSE Grading!ReadLine(g[s \ {Grading!Max(s)}], answer[Grading!Max(s)])]
<1>1. n \in Nat /\ DOMAIN answer = 1 .. n /\ \A i \in 1 .. n : answer[i] \in Seq(Grading!Sentence)
  BY DEF Grading!Answer
<1>2. nil \in Extracted
  BY DEF Extracted, NothingRead
<1>3. h \in [Extracted \X (1 .. n) -> Extracted]
  BY <1>1, ReadLineIs
<1>4. ASSUME NEW x \in Extracted, NEW i \in 1 .. n
      PROVE  h[<<x, i>>] = Grading!ReadLine(x, answer[i])
  OBVIOUS
<1> HIDE DEF h, n, nil
<1>5. \A g : IsFold(h, n, nil, g) /\ (\A s \in SUBSET (1 .. n) : g[s] \in Extracted) => Is(g)
  <2> SUFFICES ASSUME NEW g, IsFold(h, n, nil, g), \A s \in SUBSET (1 .. n) : g[s] \in Extracted
               PROVE  Is(g)
    OBVIOUS
  <2>1. ASSUME NEW s \in SUBSET (1 .. n), s # {}
        PROVE  h[<<g[s \ {Grading!Max(s)}], Grading!Max(s)>>]
                 = Grading!ReadLine(g[s \ {Grading!Max(s)}], answer[Grading!Max(s)])
    <3>1. Grading!Max(s) \in 1 .. n /\ s \ {Grading!Max(s)} \in SUBSET (1 .. n)
      BY <2>1, <1>1, LargestIn
    <3> QED BY <3>1, <1>4
  <2> QED BY <2>1 DEF IsFold
<1>6. PICK g : IsFold(h, n, nil, g) /\ \A s \in SUBSET (1 .. n) : g[s] \in Extracted
  BY <1>1, <1>2, <1>3, FoldExists
<1>7. Is(g)
  BY <1>5, <1>6
<1> DEFINE G == CHOOSE f : Is(f)
<1>8. Is(G)
  <2> HIDE DEF Is
  <2> QED BY <1>7
<1>9. Grading!ExtractCitedClaims(answer) = G[1 .. n].claims
  BY <1>1, AnswerIsFold DEF nil
<1> HIDE DEF G
<1>10. G[1 .. 0] = nil
  <2>1. 1 .. 0 = {} /\ {} \in SUBSET (1 .. n)
    OBVIOUS
  <2> QED BY <1>8, <2>1
<1>11. ASSUME NEW i \in 1 .. n PROVE G[1 .. i] = Grading!ReadLine(G[1 .. i - 1], answer[i])
  <2>1. 1 .. i \in SUBSET (1 .. n) /\ (1 .. i) \ {i} = 1 .. i - 1 /\ 1 .. i # {}
    <3>1. i \in Nat /\ i \in 1 .. i /\ i <= n
      BY <1>1
    <3>2. \A j \in 1 .. i : j \in 1 .. n
      BY <1>1, <3>1
    <3>3. \A j : j \in (1 .. i) \ {i} <=> j \in 1 .. i - 1
      BY <3>1
    <3> QED BY <3>1, <3>2, <3>3
  <2>2. Grading!Max(1 .. i) = i
    BY <1>1, LargestOfPrefix
  <2>3. G[1 .. i] = Grading!ReadLine(G[(1 .. i) \ {Grading!Max(1 .. i)}],
                                     answer[Grading!Max(1 .. i)])
    BY <1>8, <2>1
  <2> QED BY <2>1, <2>2, <2>3
<1> HIDE DEF Is
<1> DEFINE J == [i \in 0 .. n |-> G[1 .. i]]
           E == {i \in 0 .. n : J[i] \in Extracted}
<1>12. J[0] = nil /\ J[n].claims = Grading!ExtractCitedClaims(answer)
  BY <1>1, <1>9, <1>10
<1>13. \A i \in 1 .. n : J[i] = Grading!ReadLine(J[i - 1], answer[i])
  BY <1>1, <1>11
<1> HIDE DEF J
<1>14. \A i \in 0 .. n : i \in E
  <2>1. 0 \in E
    BY <1>1, <1>2, <1>12
  <2>2. \A i \in 1 .. n : i - 1 \in E => i \in E
    <3> SUFFICES ASSUME NEW i \in 1 .. n, i - 1 \in E PROVE i \in E
      OBVIOUS
    <3>1. J[i - 1] \in Extracted /\ answer[i] \in Seq(Grading!Sentence) /\ i \in 0 .. n
      BY <1>1
    <3>2. Grading!ReadLine(J[i - 1], answer[i]) \in Extracted
      BY <3>1, ReadLineIs
    <3> QED BY <3>1, <3>2, <1>13
  <2> HIDE DEF E
  <2> QED BY <1>1, <2>1, <2>2, AllUpTo
<1>15. IsAnswerRun(J, answer)
  BY <1>12, <1>13, <1>14 DEF IsAnswerRun, n, nil
<1> QED BY <1>15

(* The claims of an answer, by line and sentence; those up to a sentence; the *)
(* sentences up to it that a claim is read from.                              *)
Facts(a) ==
    UNION {{i} \X {j \in DOMAIN a[i] : a[i][j].factual} : i \in DOMAIN a}
FactsUpTo(a, i, j) == {f \in Facts(a) : f[1] < i \/ (f[1] = i /\ f[2] <= j)}
ReadFor(a, f, i, j) ==
    {k \in DOMAIN a[f[1]] : /\ k >= f[2]
                            /\ f[1] < i \/ k <= j
                            /\ \A m \in f[2] + 1 .. k : <<f[1], m>> \notin Facts(a)}
SentencesFor(a, f, i, j) == {a[f[1]][k] : k \in ReadFor(a, f, i, j)}

(* A claim has what these sentences cite, and nothing else. *)
Carries(claim, S) ==
    /\ ClaimPlaces(claim) = UNION {SentencePlaces(s) : s \in S}
    /\ Grading!Range(claim.malformed) = UNION {Grading!Range(Grading!MalformedIn(s)) : s \in S}

(* The invariant of the extraction: what was read up to sentence j of line i. *)
ReadUpTo(a, acc, i, j) ==
    /\ acc \in Extracted
    /\ IsFiniteSet(FactsUpTo(a, i, j)) /\ Len(acc.claims) = Cardinality(FactsUpTo(a, i, j))
    /\ acc.open <=> \E m \in 1 .. j : <<i, m>> \in Facts(a)
    /\ \A f \in FactsUpTo(a, i, j) :
         Carries(acc.claims[Cardinality(FactsUpTo(a, f[1], f[2]))], SentencesFor(a, f, i, j))

(* Where the claims are. *)
LEMMA FactsAre ==
    ASSUME NEW a \in Grading!Answer
    PROVE  /\ \A i, j : <<i, j>> \in Facts(a)
                  <=> i \in DOMAIN a /\ j \in DOMAIN a[i] /\ a[i][j].factual
           /\ \A f \in Facts(a) :
                /\ f = <<f[1], f[2]>> /\ f[1] \in DOMAIN a /\ f[1] \in Nat
                /\ f[2] \in DOMAIN a[f[1]] /\ f[2] \in Nat
<1>1. \A i \in DOMAIN a : i \in Nat /\ a[i] \in Seq(Grading!Sentence)
  BY DEF Grading!Answer
<1>2. \A i \in DOMAIN a : \A j \in DOMAIN a[i] : j \in Nat
  BY <1>1
<1>3. \A f \in Facts(a) : \E i \in DOMAIN a : \E j \in DOMAIN a[i] :
         f = <<i, j>> /\ a[i][j].factual
  BY DEF Facts
<1>4. \A i \in DOMAIN a : \A j \in DOMAIN a[i] : a[i][j].factual => <<i, j>> \in Facts(a)
  BY DEF Facts
<1> QED BY <1>1, <1>2, <1>3, <1>4

(* A claim is one of those up to it, which are of those up to any later place. *)
LEMMA NumberIn ==
    ASSUME NEW a \in Grading!Answer, NEW i \in Nat, NEW j \in Nat, NEW f \in FactsUpTo(a, i, j),
           IsFiniteSet(FactsUpTo(a, i, j))
    PROVE  /\ FactsUpTo(a, f[1], f[2]) \in SUBSET FactsUpTo(a, i, j)
           /\ IsFiniteSet(FactsUpTo(a, f[1], f[2]))
           /\ Cardinality(FactsUpTo(a, f[1], f[2])) \in 1 .. Cardinality(FactsUpTo(a, i, j))
<1> DEFINE B == FactsUpTo(a, i, j)
           C == FactsUpTo(a, f[1], f[2])
<1>1. f[1] \in Nat /\ f[2] \in Nat /\ \A g \in Facts(a) : g[1] \in Nat /\ g[2] \in Nat
  BY FactsAre DEF FactsUpTo
<1>2. f \in C /\ C \in SUBSET B
  BY <1>1 DEF FactsUpTo
<1> HIDE DEF B, C
<1>3. IsFiniteSet(C) /\ Cardinality(C) <= Cardinality(B)
  BY <1>2, FS_Subset DEF B
<1>4. Cardinality(C) \in Nat /\ Cardinality(B) \in Nat /\ Cardinality(C) # 0
  BY <1>2, <1>3, FS_CardinalityType, FS_EmptySet DEF B
<1> QED BY <1>2, <1>3, <1>4 DEF B, C

(* A claim begins with what its own sentence cites. *)
LEMMA CarriesOne ==
    ASSUME NEW s \in Grading!Sentence
    PROVE  Carries(Grading!Cite(Grading!Uncited, s), {s})
<1>1. Grading!Uncited \in CitedClaim
  BY DEF Grading!Uncited, CitedClaim
<1>2. ClaimPlaces(Grading!Uncited) = {} /\ Grading!Range(Grading!Uncited.malformed) = {}
  BY DEF Grading!Uncited, ClaimPlaces, Grading!Range
<1>3. /\ ClaimPlaces(Grading!Cite(Grading!Uncited, s)) = SentencePlaces(s)
      /\ Grading!Range(Grading!Cite(Grading!Uncited, s).malformed)
           = Grading!Range(Grading!MalformedIn(s))
  <2>1. ClaimPlaces(Grading!Cite(Grading!Uncited, s))
          = ClaimPlaces(Grading!Uncited) \cup SentencePlaces(s)
    BY <1>1, CiteIs
  <2>2. Grading!Range(Grading!Cite(Grading!Uncited, s).malformed)
          = Grading!Range(Grading!Uncited.malformed) \cup Grading!Range(Grading!MalformedIn(s))
    BY <1>1, CiteIs
  <2> QED BY <1>2, <2>1, <2>2
<1> QED BY <1>3 DEF Carries

(* A sentence read for a claim is one more that it carries. *)
LEMMA CarriesMore ==
    ASSUME NEW claim \in CitedClaim, NEW s \in Grading!Sentence, NEW S, Carries(claim, S)
    PROVE  Carries(Grading!Cite(claim, s), S \cup {s})
<1>1. UNION {SentencePlaces(x) : x \in S \cup {s}}
        = (UNION {SentencePlaces(x) : x \in S}) \cup SentencePlaces(s)
  OBVIOUS
<1>2. UNION {Grading!Range(Grading!MalformedIn(x)) : x \in S \cup {s}}
        = (UNION {Grading!Range(Grading!MalformedIn(x)) : x \in S})
            \cup Grading!Range(Grading!MalformedIn(s))
  <2> DEFINE M(x) == Grading!Range(Grading!MalformedIn(x))
  <2> HIDE DEF M
  <2>1. UNION {M(x) : x \in S \cup {s}} = (UNION {M(x) : x \in S}) \cup M(s)
    OBVIOUS
  <2> QED BY <2>1 DEF M
<1> QED BY <1>1, <1>2, CiteIs DEF Carries

(* A sentence that is a claim. *)
LEMMA ReadClaim ==
    ASSUME NEW a \in Grading!Answer, NEW i \in DOMAIN a, NEW j \in DOMAIN a[i],
           NEW acc, ReadUpTo(a, acc, i, j - 1), a[i][j].factual
    PROVE  ReadUpTo(a, Grading!Read(acc, a[i][j]), i, j)
<1> DEFINE s == a[i][j]
           B == FactsUpTo(a, i, j - 1)
           n == Cardinality(B)
           acc2 == Grading!Read(acc, s)
           num(f) == Cardinality(FactsUpTo(a, f[1], f[2]))
<1>1. i \in Nat /\ j \in Nat /\ j - 1 \in Nat /\ s \in Grading!Sentence
      /\ DOMAIN a[i] = 1 .. Len(a[i]) /\ Len(a[i]) \in Nat
  BY DEF Grading!Answer
<1>2. acc \in Extracted /\ IsFiniteSet(B) /\ Len(acc.claims) = n /\ n \in Nat
      /\ acc.claims \in Seq(CitedClaim)
  BY FS_CardinalityType DEF ReadUpTo, Extracted
<1>3. \A f \in B : Carries(acc.claims[num(f)], SentencesFor(a, f, i, j - 1))
  BY DEF ReadUpTo
<1>4. /\ acc2 \in Extracted /\ acc2.open
      /\ acc2.claims = Append(acc.claims, Grading!Cite(Grading!Uncited, s))
  BY <1>1, <1>2, ReadIs
<1>5. <<i, j>> \in Facts(a) /\ \A f \in Facts(a) :
         f = <<f[1], f[2]>> /\ f[1] \in Nat /\ f[2] \in Nat /\ f[2] \in DOMAIN a[f[1]]
  BY FactsAre
<1>6. FactsUpTo(a, i, j) = B \cup {<<i, j>>} /\ <<i, j>> \notin B
  <2>1. ASSUME NEW f \in FactsUpTo(a, i, j), f # <<i, j>> PROVE f \in B
    BY <2>1, <1>1, <1>5 DEF FactsUpTo
  <2>2. B \subseteq FactsUpTo(a, i, j) /\ <<i, j>> \in FactsUpTo(a, i, j) /\ <<i, j>> \notin B
    BY <1>1, <1>5 DEF FactsUpTo
  <2> HIDE DEF B
  <2> QED BY <2>1, <2>2
<1> HIDE DEF acc2, s
<1>7. IsFiniteSet(FactsUpTo(a, i, j)) /\ Cardinality(FactsUpTo(a, i, j)) = n + 1
  <2>1. IsFiniteSet(B) /\ n = Cardinality(B)
    BY <1>2
  <2> HIDE DEF B, n
  <2>2. IsFiniteSet(B \cup {<<i, j>>}) /\ Cardinality(B \cup {<<i, j>>}) = n + 1
    BY <2>1, <1>6, FS_AddElement
  <2> QED BY <2>2, <1>6
<1>8. Len(acc2.claims) = n + 1 /\ acc2.claims[n + 1] = Grading!Cite(Grading!Uncited, s)
      /\ \A k \in 1 .. n : acc2.claims[k] = acc.claims[k]
  <2> HIDE DEF n
  <2>1. Grading!Cite(Grading!Uncited, s) \in CitedClaim
    <3>1. Grading!Uncited \in CitedClaim
      BY DEF Grading!Uncited, CitedClaim
    <3> QED BY <3>1, <1>1, CiteIs DEF s
  <2> QED BY <2>1, <1>2, <1>4, AppendProperties
<1>9. acc2.open <=> \E m \in 1 .. j : <<i, m>> \in Facts(a)
  <2>1. j \in 1 .. j
    BY <1>1
  <2> QED BY <2>1, <1>4, <1>5
<1>10. ASSUME NEW f \in FactsUpTo(a, i, j)
       PROVE  Carries(acc2.claims[num(f)], SentencesFor(a, f, i, j))
  <2>1. CASE f = <<i, j>>
    <3>1. num(f) = n + 1
      BY <2>1, <1>7
    <3>2. ReadFor(a, f, i, j) = {j}
      <4>1. j + 1 .. j = {}
        BY <1>1
      <4> QED BY <2>1, <4>1, <1>1 DEF ReadFor
    <3>3. SentencesFor(a, f, i, j) = {s}
      BY <2>1, <3>2 DEF SentencesFor, s
    <3>4. Carries(Grading!Cite(Grading!Uncited, s), {s})
      BY <1>1, CarriesOne DEF s
    <3> QED BY <3>1, <3>3, <3>4, <1>8
  <2>2. CASE f \in B
    <3>1. num(f) \in 1 .. n
      BY <2>2, <1>1, <1>2, NumberIn
    <3>2. ReadFor(a, f, i, j) = ReadFor(a, f, i, j - 1)
      <4>1. f \in Facts(a) /\ (f[1] < i \/ (f[1] = i /\ f[2] <= j - 1))
        BY <2>2 DEF FactsUpTo
      <4>2. \A k \in DOMAIN a[f[1]] : k \in Nat
        <5>1. f[1] \in DOMAIN a
          BY <4>1, FactsAre
        <5> QED BY <5>1 DEF Grading!Answer
      <4>3. CASE f[1] < i
        BY <4>3 DEF ReadFor
      <4>4. CASE f[1] = i /\ f[2] <= j - 1
        <5>1. j \in f[2] + 1 .. j /\ <<f[1], j>> \in Facts(a)
          BY <4>1, <4>4, <1>1, <1>5
        <5>2. j \notin ReadFor(a, f, i, j)
          BY <5>1 DEF ReadFor
        <5>3. \A k \in ReadFor(a, f, i, j) : k <= j - 1
          BY <5>2, <4>2, <4>4, <1>1 DEF ReadFor
        <5>4. ReadFor(a, f, i, j) \subseteq ReadFor(a, f, i, j - 1)
          BY <5>3 DEF ReadFor
        <5>5. ReadFor(a, f, i, j - 1) \subseteq ReadFor(a, f, i, j)
          BY <4>2, <1>1 DEF ReadFor
        <5> QED BY <5>4, <5>5
      <4> QED BY <4>1, <4>3, <4>4
    <3>3. SentencesFor(a, f, i, j) = SentencesFor(a, f, i, j - 1)
      BY <3>2 DEF SentencesFor
    <3> HIDE DEF num, n
    <3> QED BY <2>2, <3>1, <3>3, <1>3, <1>8
  <2> QED BY <2>1, <2>2, <1>6
<1> QED BY <1>4, <1>7, <1>8, <1>9, <1>10 DEF ReadUpTo, s, acc2

(* A sentence that is no claim: it is read for the last claim of its line. *)
LEMMA ReadCiting ==
    ASSUME NEW a \in Grading!Answer, NEW i \in DOMAIN a, NEW j \in DOMAIN a[i],
           NEW acc, ReadUpTo(a, acc, i, j - 1), ~ a[i][j].factual
    PROVE  ReadUpTo(a, Grading!Read(acc, a[i][j]), i, j)
<1> DEFINE s == a[i][j]
           B == FactsUpTo(a, i, j - 1)
           n == Cardinality(B)
           acc2 == Grading!Read(acc, s)
           num(f) == Cardinality(FactsUpTo(a, f[1], f[2]))
<1>1. i \in Nat /\ j \in Nat /\ j - 1 \in Nat /\ s \in Grading!Sentence
      /\ DOMAIN a[i] = 1 .. Len(a[i]) /\ Len(a[i]) \in Nat
  BY DEF Grading!Answer
<1>2. acc \in Extracted /\ IsFiniteSet(B) /\ Len(acc.claims) = n /\ n \in Nat
      /\ acc.claims \in Seq(CitedClaim)
  BY FS_CardinalityType DEF ReadUpTo, Extracted
<1>3. \A f \in B : Carries(acc.claims[num(f)], SentencesFor(a, f, i, j - 1))
  BY DEF ReadUpTo
<1>4. acc.open <=> \E m \in 1 .. j - 1 : <<i, m>> \in Facts(a)
  BY DEF ReadUpTo
<1>5. <<i, j>> \notin Facts(a) /\ \A f \in Facts(a) :
         f = <<f[1], f[2]>> /\ f[1] \in Nat /\ f[2] \in Nat /\ f[2] \in DOMAIN a[f[1]]
         /\ f[1] \in DOMAIN a
  BY FactsAre
<1>6. FactsUpTo(a, i, j) = B
  <2>1. \A f \in Facts(a) : f[1] = i => (f[2] <= j <=> f[2] <= j - 1)
    BY <1>1, <1>5
  <2> QED BY <2>1 DEF FactsUpTo
<1>7. (\E m \in 1 .. j : <<i, m>> \in Facts(a)) <=> (\E m \in 1 .. j - 1 : <<i, m>> \in Facts(a))
  <2>1. \A m \in 1 .. j : <<i, m>> \in Facts(a) => m \in 1 .. j - 1
    BY <1>1, <1>5
  <2>2. \A m \in 1 .. j - 1 : m \in 1 .. j
    BY <1>1
  <2> QED BY <2>1, <2>2
\* A claim that is not the last one of this line has no part in the sentence.
<1>8. ASSUME NEW f \in B, f[1] = i => \E m \in f[2] + 1 .. j - 1 : <<i, m>> \in Facts(a)
      PROVE  SentencesFor(a, f, i, j) = SentencesFor(a, f, i, j - 1)
  <2>1. f \in Facts(a) /\ (f[1] < i \/ (f[1] = i /\ f[2] <= j - 1))
    BY DEF FactsUpTo
  <2>2. \A k \in DOMAIN a[f[1]] : k \in Nat
    BY <2>1, <1>5 DEF Grading!Answer
  <2>3. CASE f[1] < i
    BY <2>3 DEF ReadFor, SentencesFor
  <2>4. CASE f[1] = i /\ f[2] <= j - 1
    <3>1. PICK m \in f[2] + 1 .. j - 1 : <<i, m>> \in Facts(a)
      BY <1>8, <2>4
    <3>2. m \in f[2] + 1 .. j
      BY <3>1, <1>1, <1>5, <2>1
    <3>3. j \notin ReadFor(a, f, i, j)
      BY <3>1, <3>2, <2>4 DEF ReadFor
    <3>4. \A k \in ReadFor(a, f, i, j) : k <= j - 1
      BY <3>3, <2>2, <2>4, <1>1 DEF ReadFor
    <3>5. ReadFor(a, f, i, j) \subseteq ReadFor(a, f, i, j - 1)
      BY <3>4 DEF ReadFor
    <3>6. ReadFor(a, f, i, j - 1) \subseteq ReadFor(a, f, i, j)
      BY <2>2, <1>1 DEF ReadFor
    <3>7. ReadFor(a, f, i, j) = ReadFor(a, f, i, j - 1)
      BY <3>5, <3>6
    <3> QED BY <3>7 DEF SentencesFor
  <2> QED BY <2>1, <2>3, <2>4
<1>9. CASE ~ acc.open
  <2>1. Grading!Read(acc, s) = acc
    BY <1>1, <1>2, <1>9, ReadIs
  <2>2. \A f \in B : f[1] # i
    <3> SUFFICES ASSUME NEW f \in B, f[1] = i PROVE FALSE
      OBVIOUS
    <3>1. f \in Facts(a) /\ f[2] <= j - 1
      BY <1>1 DEF FactsUpTo
    <3>2. f[2] \in 1 .. j - 1 /\ <<i, f[2]>> \in Facts(a)
      BY <3>1, <1>1, <1>5
    <3> QED BY <3>2, <1>4, <1>9
  <2>3. \A f \in B : SentencesFor(a, f, i, j) = SentencesFor(a, f, i, j - 1)
    BY <2>2, <1>8
  <2> QED BY <2>1, <2>3, <1>2, <1>3, <1>4, <1>6, <1>7 DEF ReadUpTo
<1>10. CASE acc.open
  <2> DEFINE L == {j - m : m \in {x \in 1 .. j - 1 : <<i, x>> \in Facts(a)}}
  <2>1. L \subseteq Nat /\ L # {}
    <3>1. PICK m \in 1 .. j - 1 : <<i, m>> \in Facts(a)
      BY <1>4, <1>10
    <3>2. j - m \in L
      BY <3>1
    <3>3. \A x \in 1 .. j - 1 : j - x \in Nat
      BY <1>1
    <3> QED BY <3>2, <3>3
  <2>2. PICK x \in L : \A y \in L : x <= y
    <3> HIDE DEF L
    <3> QED BY <2>1, LeastOf
  <2>3. PICK last \in 1 .. j - 1 : <<i, last>> \in Facts(a) /\ x = j - last
    BY <2>2
  <2>4. \A m \in 1 .. j - 1 : <<i, m>> \in Facts(a) => m <= last
    <3> SUFFICES ASSUME NEW m \in 1 .. j - 1, <<i, m>> \in Facts(a) PROVE m <= last
      OBVIOUS
    <3>1. j - m \in L
      OBVIOUS
    <3>2. j - last <= j - m
      BY <3>1, <2>2, <2>3
    <3> HIDE DEF L
    <3> QED BY <3>2, <1>1
  <2> HIDE DEF L
  <2> DEFINE l == <<i, last>>
  <2>5. \A m \in last + 1 .. j : <<i, m>> \notin Facts(a)
    BY <2>4, <1>1, <1>5
  <2>6. l \in B /\ FactsUpTo(a, i, last) = B
    <3>1. \A f \in Facts(a) : f[1] = i => (f[2] <= j - 1 <=> f[2] <= last)
      <4> SUFFICES ASSUME NEW f \in Facts(a), f[1] = i PROVE f[2] <= j - 1 <=> f[2] <= last
        OBVIOUS
      <4>1. f = <<i, f[2]>> /\ f[2] \in DOMAIN a[i]
        BY <1>5
      <4>2. f[2] \in Nat /\ f[2] >= 1 /\ <<i, f[2]>> \in Facts(a)
        BY <4>1, <1>1
      <4>3. f[2] <= j - 1 => f[2] <= last
        BY <4>2, <2>4, <1>1
      <4> QED BY <4>2, <4>3, <1>1
    <3> QED BY <3>1, <2>3, <1>1 DEF FactsUpTo
  <2>7. num(l) = n
    BY <2>6
  <2>8. n \in 1 .. n
    BY <2>6, <2>7, <1>1, <1>2, NumberIn
  <2>9. ASSUME NEW f \in B, f # l
        PROVE  /\ f[1] = i => last \in f[2] + 1 .. j - 1
               /\ num(f) \in 1 .. n /\ num(f) # n
    <3>1. f \in Facts(a) /\ (f[1] < i \/ (f[1] = i /\ f[2] <= last))
      BY <2>6 DEF FactsUpTo
    <3>2. f = <<f[1], f[2]>> /\ f[1] \in Nat /\ f[2] \in Nat
      BY <3>1, <1>5
    <3>3. f[1] < i \/ (f[1] = i /\ f[2] < last)
      BY <3>1, <3>2, <2>9
    <3>4. l \notin FactsUpTo(a, f[1], f[2])
      BY <3>2, <3>3, <1>1 DEF FactsUpTo
    <3>5. /\ FactsUpTo(a, f[1], f[2]) \in SUBSET B /\ num(f) \in 1 .. n
      BY <1>1, <1>2, NumberIn
    <3>6. FactsUpTo(a, f[1], f[2]) # B
      BY <3>4, <2>6
    <3>7. num(f) # n
      BY <3>5, <3>6, <1>2, FS_Subset
    <3> QED BY <3>2, <3>3, <3>5, <3>7, <1>1
  <2>10. /\ acc2 \in Extracted /\ acc2.open
         /\ acc2.claims = [acc.claims EXCEPT ![Len(acc.claims)] = Grading!Cite(@, s)]
    BY <1>1, <1>2, <1>10, ReadIs
  <2> HIDE DEF acc2
  <2>11. /\ Len(acc2.claims) = n /\ acc2.claims[n] = Grading!Cite(acc.claims[n], s)
         /\ \A k \in 1 .. n : k # n => acc2.claims[k] = acc.claims[k]
    <3> HIDE DEF n
    <3> QED BY <2>8, <2>10, <1>2
  <2>12. acc.claims[n] \in CitedClaim
    <3> HIDE DEF n
    <3> QED BY <2>8, <1>2
  <2>13. SentencesFor(a, l, i, j) = SentencesFor(a, l, i, j - 1) \cup {s}
    <3>1. l[1] = i /\ l[2] = last
      OBVIOUS
    <3>2. \A k \in DOMAIN a[i] : k \in Nat
      BY <1>1
    <3>3. j \in ReadFor(a, l, i, j)
      BY <3>1, <2>5, <1>1 DEF ReadFor
    <3>4. \A k \in DOMAIN a[i] : k <= j <=> k <= j - 1 \/ k = j
      BY <3>2, <1>1
    <3>5. ReadFor(a, l, i, j) = ReadFor(a, l, i, j - 1) \cup {j}
      BY <3>1, <3>3, <3>4, <1>1 DEF ReadFor
    <3> QED BY <3>1, <3>5 DEF SentencesFor, s
  <2>14. ASSUME NEW f \in B PROVE Carries(acc2.claims[num(f)], SentencesFor(a, f, i, j))
    <3>1. CASE f = l
      <4>1. Carries(acc.claims[n], SentencesFor(a, l, i, j - 1))
        BY <1>3, <2>6, <2>7
      <4>2. Carries(Grading!Cite(acc.claims[n], s), SentencesFor(a, l, i, j - 1) \cup {s})
        BY <4>1, <2>12, <1>1, CarriesMore
      <4> QED BY <3>1, <4>2, <2>7, <2>11, <2>13
    <3>2. CASE f # l
      <4>1. SentencesFor(a, f, i, j) = SentencesFor(a, f, i, j - 1)
        BY <3>2, <2>3, <2>9, <1>8
      <4>2. acc2.claims[num(f)] = acc.claims[num(f)]
        BY <3>2, <2>9, <2>11
      <4> QED BY <4>1, <4>2, <1>3
    <3> QED BY <3>1, <3>2
  <2> QED BY <2>10, <2>11, <2>14, <1>2, <1>4, <1>6, <1>7, <1>10 DEF ReadUpTo, acc2
<1>11. acc.open \in BOOLEAN
  BY <1>2 DEF Extracted
<1> QED BY <1>9, <1>10, <1>11

(* The last sentence of a line, none before the first line. *)
Width(a, i) == IF i = 0 THEN 0 ELSE Len(a[i])

(* A line begins where the one before it ends, with no claim open. *)
LEMMA ReadStarts ==
    ASSUME NEW a \in Grading!Answer, NEW i \in DOMAIN a, NEW acc,
           ReadUpTo(a, acc, i - 1, Width(a, i - 1))
    PROVE  ReadUpTo(a, [acc EXCEPT !.open = FALSE], i, 0)
<1> DEFINE acc2 == [acc EXCEPT !.open = FALSE]
           w == Width(a, i - 1)
<1>1. i \in Nat /\ i >= 1 /\ (i # 1 => i - 1 \in DOMAIN a)
      /\ \A m \in DOMAIN a : DOMAIN a[m] = 1 .. Len(a[m]) /\ Len(a[m]) \in Nat
  BY DEF Grading!Answer
<1>2. \A f \in Facts(a) : f[1] \in Nat /\ f[1] \in DOMAIN a /\ f[1] # 0 /\ f[2] \in Nat
                         /\ f[2] \in DOMAIN a[f[1]] /\ f[2] # 0
  BY FactsAre DEF Grading!Answer
<1>3. \A f \in Facts(a) : f[1] = i - 1 => f[2] <= w
  BY <1>1, <1>2 DEF Width
<1>4. FactsUpTo(a, i, 0) = FactsUpTo(a, i - 1, w)
  <2>1. \A f \in Facts(a) : (f[1] < i \/ (f[1] = i /\ f[2] <= 0))
                              <=> (f[1] < i - 1 \/ (f[1] = i - 1 /\ f[2] <= w))
    BY <1>1, <1>2, <1>3
  <2> QED BY <2>1 DEF FactsUpTo
<1>5. acc2 \in Extracted /\ acc2.claims = acc.claims /\ ~ acc2.open
  BY DEF ReadUpTo, Extracted
<1>6. ASSUME NEW f \in FactsUpTo(a, i, 0)
      PROVE  SentencesFor(a, f, i, 0) = SentencesFor(a, f, i - 1, w)
  <2>1. f \in Facts(a) /\ f[1] < i
    BY <1>1, <1>2 DEF FactsUpTo
  <2>2. \A k \in DOMAIN a[f[1]] : f[1] < i - 1 \/ k <= w
    BY <2>1, <1>1, <1>2 DEF Width
  <2>3. ReadFor(a, f, i, 0) = ReadFor(a, f, i - 1, w)
    BY <2>1, <2>2 DEF ReadFor
  <2> QED BY <2>3 DEF SentencesFor
<1> QED BY <1>4, <1>5, <1>6 DEF ReadUpTo

(* A line read from its beginning is read to its end. *)
LEMMA ReadToEnd ==
    ASSUME NEW a \in Grading!Answer, NEW i \in DOMAIN a, NEW acc,
           ReadUpTo(a, acc, i - 1, Width(a, i - 1))
    PROVE  ReadUpTo(a, Grading!ReadLine(acc, a[i]), i, Width(a, i))
<1> DEFINE n == Len(a[i])
<1>1. a[i] \in Seq(Grading!Sentence) /\ n \in Nat /\ DOMAIN a[i] = 1 .. n /\ i # 0
  BY DEF Grading!Answer
<1>2. acc \in Extracted
  BY DEF ReadUpTo
<1>3. PICK J : IsLineRun(J, acc, a[i])
  BY <1>1, <1>2, LineRuns
<1> DEFINE D == {j \in 0 .. n : ReadUpTo(a, J[j], i, j)}
<1>4. 0 \in D
  BY <1>1, <1>3, ReadStarts DEF IsLineRun
<1>5. ASSUME NEW j \in 1 .. n, j - 1 \in D PROVE j \in D
  <2>1. J[j] = Grading!Read(J[j - 1], a[i][j]) /\ ReadUpTo(a, J[j - 1], i, j - 1)
    BY <1>3, <1>5 DEF IsLineRun
  <2>2. a[i][j].factual \in BOOLEAN
    <3>1. a[i][j] \in Grading!Sentence
      BY <1>1
    <3> QED BY <3>1 DEF Grading!Sentence
  <2>3. ReadUpTo(a, J[j], i, j)
    BY <2>1, <2>2, <1>1, ReadClaim, ReadCiting
  <2>4. j \in 0 .. n
    OBVIOUS
  <2> QED BY <2>3, <2>4
<1>6. n \in D
  <2> HIDE DEF D, n
  <2> QED BY <1>1, <1>4, <1>5, AllUpTo
<1>7. ReadUpTo(a, J[n], i, n)
  BY <1>6
<1> QED BY <1>1, <1>3, <1>7 DEF IsLineRun, Width

(* What the whole of an answer is read to be. *)
LEMMA ReadWhole ==
    ASSUME NEW a \in Grading!Answer
    PROVE  \E acc : /\ acc.claims = Grading!ExtractCitedClaims(a)
                    /\ ReadUpTo(a, acc, Len(a), Width(a, Len(a)))
<1> DEFINE n == Len(a)
<1>1. n \in Nat /\ DOMAIN a = 1 .. n
  BY DEF Grading!Answer
<1>2. PICK K : IsAnswerRun(K, a)
  BY AnswerRuns
<1> DEFINE D == {i \in 0 .. n : ReadUpTo(a, K[i], i, Width(a, i))}
<1>3. 0 \in D
  <2>1. FactsUpTo(a, 0, 0) = {}
    <3>1. \A f \in Facts(a) : f[1] \in Nat /\ f[1] # 0
      BY <1>1, FactsAre
    <3> QED BY <3>1 DEF FactsUpTo
  <2>2. IsFiniteSet(FactsUpTo(a, 0, 0)) /\ Cardinality(FactsUpTo(a, 0, 0)) = 0
    BY <2>1, FS_EmptySet
  <2>3. K[0] = NothingRead /\ K[0] \in Extracted
    BY <1>1, <1>2 DEF IsAnswerRun
  <2>4. K[0].claims = <<>> /\ ~ K[0].open
    BY <2>3 DEF NothingRead
  <2>5. Len(<<>>) = 0 /\ 1 .. 0 = {}
    OBVIOUS
  <2>6. ReadUpTo(a, K[0], 0, 0)
    BY <2>1, <2>2, <2>3, <2>4, <2>5 DEF ReadUpTo
  <2> QED BY <2>6, <1>1 DEF Width
<1>4. ASSUME NEW i \in 1 .. n, i - 1 \in D PROVE i \in D
  <2>1. K[i] = Grading!ReadLine(K[i - 1], a[i]) /\ ReadUpTo(a, K[i - 1], i - 1, Width(a, i - 1))
    BY <1>2, <1>4 DEF IsAnswerRun
  <2>2. ReadUpTo(a, K[i], i, Width(a, i))
    BY <2>1, <1>1, ReadToEnd
  <2>3. i \in 0 .. n
    OBVIOUS
  <2> QED BY <2>2, <2>3
<1>5. n \in D
  <2> HIDE DEF D, n
  <2> QED BY <1>1, <1>3, <1>4, AllUpTo
<1>6. ReadUpTo(a, K[n], n, Width(a, n)) /\ K[n].claims = Grading!ExtractCitedClaims(a)
  BY <1>2, <1>5 DEF IsAnswerRun
<1> QED BY <1>6

(* What an answer's claims are: as many as it has, each with its citations. *)
LEMMA ClaimsAre ==
    ASSUME NEW a \in Grading!Answer
    PROVE  /\ Grading!ExtractCitedClaims(a) \in Seq(CitedClaim)
           /\ IsFiniteSet(Facts(a))
           /\ Len(Grading!ExtractCitedClaims(a)) = Cardinality(Facts(a))
           /\ \A f \in Facts(a) :
                LET number == Cardinality(FactsUpTo(a, f[1], f[2]))
                IN  /\ number \in 1 .. Cardinality(Facts(a))
                    /\ Carries(Grading!ExtractCitedClaims(a)[number],
                               {a[f[1]][k] : k \in {x \in DOMAIN a[f[1]] :
                                  x >= f[2] /\ \A m \in f[2] + 1 .. x :
                                                 <<f[1], m>> \notin Facts(a)}})
<1> DEFINE n == Len(a)
           w == Width(a, n)
<1>1. n \in Nat /\ DOMAIN a = 1 .. n /\ w \in Nat
      /\ \A i \in DOMAIN a : DOMAIN a[i] = 1 .. Len(a[i]) /\ Len(a[i]) \in Nat
  BY DEF Grading!Answer, Width
<1>2. PICK acc : acc.claims = Grading!ExtractCitedClaims(a) /\ ReadUpTo(a, acc, n, w)
  BY ReadWhole
<1>3. \A f \in Facts(a) : /\ f[1] \in DOMAIN a /\ f[1] \in Nat /\ f[2] \in Nat
                          /\ f[2] \in DOMAIN a[f[1]]
  BY FactsAre
<1>4. FactsUpTo(a, n, w) = Facts(a)
  <2>1. \A f \in Facts(a) : f[1] < n \/ (f[1] = n /\ f[2] <= w)
    BY <1>1, <1>3 DEF Width
  <2> QED BY <2>1 DEF FactsUpTo
<1>5. ASSUME NEW f \in Facts(a)
      PROVE  ReadFor(a, f, n, w)
               = {x \in DOMAIN a[f[1]] : x >= f[2] /\ \A m \in f[2] + 1 .. x :
                                                        <<f[1], m>> \notin Facts(a)}
  <2>1. \A x \in DOMAIN a[f[1]] : f[1] < n \/ x <= w
    BY <1>1, <1>3 DEF Width
  <2> QED BY <2>1 DEF ReadFor
<1> HIDE DEF n, w
<1>6. IsFiniteSet(Facts(a)) /\ Len(acc.claims) = Cardinality(Facts(a))
      /\ acc.claims \in Seq(CitedClaim)
  BY <1>2, <1>4 DEF ReadUpTo, Extracted
<1>7. \A f \in Facts(a) : Cardinality(FactsUpTo(a, f[1], f[2])) \in 1 .. Cardinality(Facts(a))
  BY <1>1, <1>4, <1>6, NumberIn
<1>8. \A f \in Facts(a) : Carries(acc.claims[Cardinality(FactsUpTo(a, f[1], f[2]))],
                                  SentencesFor(a, f, n, w))
  BY <1>2, <1>4 DEF ReadUpTo
<1> QED BY <1>2, <1>5, <1>6, <1>7, <1>8 DEF SentencesFor

(* Every claim has its own citations, and those of the sentences behind it on *)
(* its line up to the next claim; no claim is lost, none is made up.          *)
LEMMA CitationsAreCarried ==
    ASSUME NEW a \in Grading!Answer
    PROVE  Grading!ClaimsCarryTheirCitations(a)
<1> DEFINE F == UNION {{i} \X {j \in DOMAIN a[i] : a[i][j].factual} : i \in DOMAIN a}
           upto(i, j) == {f \in F : f[1] < i \/ (f[1] = i /\ f[2] <= j)}
           citing(i, j) == {k \in DOMAIN a[i] : k >= j /\ \A m \in j + 1 .. k : <<i, m>> \notin F}
           claims == Grading!ExtractCitedClaims(a)
<1>1. F = Facts(a) /\ \A i, j : upto(i, j) = FactsUpTo(a, i, j)
  BY DEF Facts, FactsUpTo
<1>2. Len(claims) = Cardinality(F)
  BY <1>1, ClaimsAre
<1>3. ASSUME NEW f \in F
      PROVE  LET claim == claims[Cardinality(upto(f[1], f[2]))]
                 S == {a[f[1]][k] : k \in citing(f[1], f[2])}
             IN  /\ {c.place : c \in Grading!Range(claim.citations)}
                      = UNION {Grading!Range(Grading!Places(Grading!CitationsIn(s))) : s \in S}
                 /\ Grading!Range(claim.malformed)
                      = UNION {Grading!Range(Grading!MalformedIn(s)) : s \in S}
  <2>1. citing(f[1], f[2]) = {x \in DOMAIN a[f[1]] : x >= f[2] /\ \A m \in f[2] + 1 .. x :
                                                        <<f[1], m>> \notin Facts(a)}
    BY <1>1
  <2> HIDE DEF F, upto, citing, claims
  <2>2. Carries(claims[Cardinality(upto(f[1], f[2]))], {a[f[1]][k] : k \in citing(f[1], f[2])})
    BY <1>1, <2>1, ClaimsAre DEF claims
  <2> QED BY <2>2 DEF Carries, ClaimPlaces, SentencePlaces
<1> QED BY <1>2, <1>3, CountsAlike
        DEF Grading!ClaimsCarryTheirCitations, Grading!Cardinality, Cardinality

(* A graded rubric has one verdict on each point. *)
LEMMA RubricIsWhole ==
    ASSUME NEW reply, reply.indices \in Seq(Int), NEW n \in Nat
    PROVE  Grading!GradedRubricsAreWhole(reply, n)
<1> DEFINE ix == reply.indices
<1> SUFFICES ASSUME Grading!RubricIsGraded(reply, n)
             PROVE  /\ Len(ix) = n
                    /\ \A point \in 0 .. n - 1 :
                         Cardinality({i \in DOMAIN ix : ix[i] = point}) = 1
  BY CountsAlike DEF Grading!GradedRubricsAreWhole
<1>1. DOMAIN ix = 1 .. Len(ix) /\ Len(ix) \in Nat
  OBVIOUS
<1>2. PICK order \in Grading!Bijection(1 .. n, DOMAIN ix) : \A i \in 1 .. n : ix[order[i]] = i - 1
  BY DEF Grading!RubricIsGraded
<1>3. order \in Bijection(1 .. n, DOMAIN ix)
  BY DEF Grading!Bijection, Grading!Injection, Grading!Surjection, Grading!IsInjective,
         Bijection, Injection, Surjection, IsInjective
<1>4. /\ order \in [1 .. n -> DOMAIN ix]
      /\ \A k \in DOMAIN ix : \E i \in 1 .. n : order[i] = k
  BY <1>3 DEF Bijection, Injection, Surjection
<1>5. Len(ix) = n
  <2>1. \A m \in Nat : IsFiniteSet(1 .. m) /\ Cardinality(1 .. m) = m
    BY FS_Interval
  <2>2. ExistsBijection(1 .. n, DOMAIN ix)
    BY <1>3 DEF ExistsBijection
  <2> QED BY <2>1, <2>2, <1>1, FS_Bijection
<1>6. ASSUME NEW point \in 0 .. n - 1
      PROVE  Cardinality({i \in DOMAIN ix : ix[i] = point}) = 1
  <2>1. point + 1 \in 1 .. n
    OBVIOUS
  <2>2. \A i \in 1 .. n : ix[order[i]] = point <=> i = point + 1
    BY <1>2
  <2>3. {i \in DOMAIN ix : ix[i] = point} = {order[point + 1]}
    BY <2>1, <2>2, <1>4
  <2> QED BY <2>3, FS_Singleton
<1> QED BY <1>5, <1>6

(* The claims are checked one after the other. *)
LEMMA CheckIsFold ==
    ASSUME NEW a, NEW e, NEW j
    PROVE  Grading!CheckAnswer(a, e, j) =
             (CHOOSE g : g = [s \in SUBSET DOMAIN Grading!ExtractCitedClaims(a) |->
                IF s = {} THEN [checked |-> 0, verdicts |-> <<>>]
                ELSE Grading!Checked(g[s \ {Grading!Max(s)}],
                       Grading!ExtractCitedClaims(a)[Grading!Max(s)], e, j)])
             [DOMAIN Grading!ExtractCitedClaims(a)]
BY DEF Grading!CheckAnswer, Grading!FoldLeft, Grading!MapThenFoldSet

(* The states of the checking of an answer's claims: how many calls were made, *)
(* and the verdicts so far.                                                    *)
IsCheckRun(K, a, e, j) ==
    LET claims == Grading!ExtractCitedClaims(a)
    IN  /\ K[0] = [checked |-> 0, verdicts |-> <<>>]
        /\ K[Len(claims)] = Grading!CheckAnswer(a, e, j)
        /\ \A i \in 1 .. Len(claims) : K[i] = Grading!Checked(K[i - 1], claims[i], e, j)

(* Checking has such a run. *)
LEMMA CheckRuns ==
    ASSUME NEW a \in Grading!Answer, NEW e, NEW j
    PROVE  \E K : IsCheckRun(K, a, e, j)
<1> DEFINE claims == Grading!ExtractCitedClaims(a)
           n == Len(claims)
           nil == [checked |-> 0, verdicts |-> <<>>]
           W == {Grading!VerdictOn([checked |-> x], claims[i], e, j) : x \in Nat, i \in 1 .. n}
           V == [checked : Nat, verdicts : Seq(W)]
           h == [x \in V \X (1 .. n) |-> Grading!Checked(x[1], claims[x[2]], e, j)]
           Is(g) == g = [s \in SUBSET (1 .. n) |->
                           IF s = {} THEN nil
                           ELSE Grading!Checked(g[s \ {Grading!Max(s)}], claims[Grading!Max(s)],
                                                e, j)]
<1>1. n \in Nat /\ DOMAIN claims = 1 .. n
  <2>1. claims \in Seq(CitedClaim)
    BY ClaimsAre
  <2> HIDE DEF claims
  <2> QED BY <2>1
<1>2. nil \in V
  OBVIOUS
<1>3. ASSUME NEW x \in V, NEW i \in 1 .. n
      PROVE  Grading!Checked(x, claims[i], e, j) \in V
  <2> DEFINE v == Grading!VerdictOn(x, claims[i], e, j)
  <2>1. x.checked \in Nat /\ x.verdicts \in Seq(W)
    OBVIOUS
  <2>2. v = Grading!VerdictOn([checked |-> x.checked], claims[i], e, j)
    <3> HIDE DEF V
    <3> QED BY DEF Grading!VerdictOn, Grading!Asks
  <2>3. v \in W
    BY <2>1, <2>2
  <2> HIDE DEF W
  <2>4. Append(x.verdicts, v) \in Seq(W)
    <3> HIDE DEF v
    <3> QED BY <2>1, <2>3, AppendProperties
  <2>5. x.checked + (IF Grading!Asks(x, claims[i], e, j) THEN 1 ELSE 0) \in Nat
    BY <2>1
  <2> QED BY <2>4, <2>5 DEF Grading!Checked
<1>4. h \in [V \X (1 .. n) -> V]
  <2> HIDE DEF V
  <2> QED BY <1>3
<1> HIDE DEF V
<1>5. ASSUME NEW x \in V, NEW i \in 1 .. n
      PROVE  h[<<x, i>>] = Grading!Checked(x, claims[i], e, j)
  OBVIOUS
<1> HIDE DEF h, n, nil
<1>6. \A g : IsFold(h, n, nil, g) /\ (\A s \in SUBSET (1 .. n) : g[s] \in V) => Is(g)
  <2> SUFFICES ASSUME NEW g, IsFold(h, n, nil, g), \A s \in SUBSET (1 .. n) : g[s] \in V
               PROVE  Is(g)
    OBVIOUS
  <2>1. ASSUME NEW s \in SUBSET (1 .. n), s # {}
        PROVE  h[<<g[s \ {Grading!Max(s)}], Grading!Max(s)>>]
                 = Grading!Checked(g[s \ {Grading!Max(s)}], claims[Grading!Max(s)], e, j)
    <3>1. Grading!Max(s) \in 1 .. n /\ s \ {Grading!Max(s)} \in SUBSET (1 .. n)
      BY <2>1, <1>1, LargestIn
    <3> QED BY <3>1, <1>5
  <2> QED BY <2>1 DEF IsFold
<1>7. PICK g : IsFold(h, n, nil, g) /\ \A s \in SUBSET (1 .. n) : g[s] \in V
  BY <1>1, <1>2, <1>4, FoldExists
<1>8. Is(g)
  BY <1>6, <1>7
<1> DEFINE G == CHOOSE f : Is(f)
<1>9. Is(G)
  <2> HIDE DEF Is
  <2> QED BY <1>8
<1>10. Grading!CheckAnswer(a, e, j) = G[1 .. n]
  BY <1>1, CheckIsFold DEF nil
<1> HIDE DEF G, claims
<1>11. G[1 .. 0] = nil
  <2>1. 1 .. 0 = {} /\ {} \in SUBSET (1 .. n)
    OBVIOUS
  <2> QED BY <1>9, <2>1
<1>12. ASSUME NEW i \in 1 .. n PROVE G[1 .. i] = Grading!Checked(G[1 .. i - 1], claims[i], e, j)
  <2>1. 1 .. i \in SUBSET (1 .. n) /\ (1 .. i) \ {i} = 1 .. i - 1 /\ 1 .. i # {}
    <3>1. i \in Nat /\ i \in 1 .. i /\ i <= n
      BY <1>1
    <3>2. \A m \in 1 .. i : m \in 1 .. n
      BY <1>1, <3>1
    <3>3. \A m : m \in (1 .. i) \ {i} <=> m \in 1 .. i - 1
      BY <3>1
    <3> QED BY <3>1, <3>2, <3>3
  <2>2. Grading!Max(1 .. i) = i
    BY <1>1, LargestOfPrefix
  <2>3. G[1 .. i] = Grading!Checked(G[(1 .. i) \ {Grading!Max(1 .. i)}],
                                    claims[Grading!Max(1 .. i)], e, j)
    BY <1>9, <2>1
  <2> QED BY <2>1, <2>2, <2>3
<1> HIDE DEF Is
<1> DEFINE K == [i \in 0 .. n |-> G[1 .. i]]
<1>13. K[0] = nil /\ K[n] = Grading!CheckAnswer(a, e, j)
  BY <1>1, <1>10, <1>11
<1>14. \A i \in 1 .. n : K[i] = Grading!Checked(K[i - 1], claims[i], e, j)
  BY <1>1, <1>12
<1> HIDE DEF K
<1>15. IsCheckRun(K, a, e, j)
  BY <1>13, <1>14 DEF IsCheckRun, n, nil, claims
<1> QED BY <1>15

(* A verdict on every claim, reached after no more calls than claims before it. *)
LEMMA VerdictsAre ==
    ASSUME NEW a \in Grading!Answer, NEW e, NEW j
    PROVE  LET claims == Grading!ExtractCitedClaims(a)
               verdicts == Grading!CheckAnswer(a, e, j).verdicts
           IN  /\ Len(verdicts) = Len(claims) /\ DOMAIN verdicts = 1 .. Len(claims)
               /\ \A i \in 1 .. Len(claims) : \E acc :
                    /\ acc.checked \in 0 .. i - 1
                    /\ verdicts[i] = Grading!VerdictOn(acc, claims[i], e, j)
<1> DEFINE claims == Grading!ExtractCitedClaims(a)
           n == Len(claims)
<1>1. n \in Nat
  <2>1. claims \in Seq(CitedClaim)
    BY ClaimsAre
  <2> HIDE DEF claims
  <2> QED BY <2>1
<1>2. PICK K : IsCheckRun(K, a, e, j)
  BY CheckRuns
<1> DEFINE At(i) == Grading!VerdictOn(K[i - 1], claims[i], e, j)
           D == {i \in 0 .. n : /\ K[i].checked \in 0 .. i
                                /\ K[i].verdicts = [m \in 1 .. i |-> At(m)]}
<1>3. 0 \in D
  <2>1. K[0] = [checked |-> 0, verdicts |-> <<>>]
    BY <1>2 DEF IsCheckRun
  <2>2. [m \in 1 .. 0 |-> At(m)] = <<>>
    <3> HIDE DEF At
    <3> QED OBVIOUS
  <2> QED BY <2>1, <2>2, <1>1
<1>4. ASSUME NEW i \in 1 .. n, i - 1 \in D PROVE i \in D
  <2>1. K[i] = Grading!Checked(K[i - 1], claims[i], e, j)
    BY <1>2 DEF IsCheckRun
  <2>2. K[i].checked = K[i - 1].checked
                         + IF Grading!Asks(K[i - 1], claims[i], e, j) THEN 1 ELSE 0
    BY <2>1 DEF Grading!Checked
  <2>3. K[i].verdicts = Append(K[i - 1].verdicts, At(i))
    BY <2>1 DEF Grading!Checked
  <2> HIDE DEF At, n
  <2>4. K[i].checked \in 0 .. i
    BY <2>2, <1>1, <1>4
  <2>5. Append([m \in 1 .. i - 1 |-> At(m)], At(i)) = [m \in 1 .. i |-> At(m)]
    <3> DEFINE q == [m \in 1 .. i - 1 |-> At(m)]
    <3>1. q \in Seq({At(m) : m \in 1 .. i}) /\ Len(q) = i - 1 /\ i - 1 \in Nat
      BY <1>1
    <3>2. \A m \in 1 .. i - 1 : q[m] = At(m)
      OBVIOUS
    <3> HIDE DEF q
    <3>3. Append(q, At(i)) \in Seq({At(m) : m \in 1 .. i}) /\ DOMAIN Append(q, At(i)) = 1 .. i
          /\ \A m \in 1 .. i : Append(q, At(i))[m] = At(m)
      BY <3>1, <3>2, AppendProperties
    <3> DEFINE r == Append(q, At(i))
    <3>4. r \in Seq({At(m) : m \in 1 .. i}) /\ DOMAIN r = 1 .. i /\ \A m \in 1 .. i : r[m] = At(m)
      BY <3>3
    <3>5. r = [m \in 1 .. i |-> At(m)]
      <4> HIDE DEF r
      <4> QED BY <3>4
    <3> QED BY <3>5 DEF q
  <2>6. K[i].verdicts = [m \in 1 .. i |-> At(m)]
    BY <2>3, <2>5, <1>4
  <2> QED BY <2>4, <2>6, <1>1
<1>5. \A i \in 0 .. n : i \in D
  <2> HIDE DEF D, n
  <2> QED BY <1>1, <1>3, <1>4, AllUpTo
<1>6. n \in 0 .. n
  BY <1>1
<1>7. Grading!CheckAnswer(a, e, j).verdicts = [m \in 1 .. n |-> At(m)]
  BY <1>2, <1>5, <1>6 DEF IsCheckRun
<1>8. \A i \in 1 .. n : K[i - 1].checked \in 0 .. i - 1
  <2>1. \A i \in 1 .. n : i - 1 \in 0 .. n
    BY <1>1
  <2> HIDE DEF n
  <2> QED BY <2>1, <1>5
<1>9. \A i \in 1 .. n : \E acc : /\ acc.checked \in 0 .. i - 1
                                 /\ At(i) = Grading!VerdictOn(acc, claims[i], e, j)
  BY <1>8
<1>10. Len([m \in 1 .. n |-> At(m)]) = n
  <2> HIDE DEF At, n
  <2> QED BY <1>1
<1> HIDE DEF At
<1> QED BY <1>7, <1>9, <1>10

(* A claim of which a verdict says that it is supported. *)
Evidenced(claim, e, j) ==
    /\ j.live /\ claim.malformed = <<>> /\ claim.citations # <<>>
    /\ \A c \in Grading!Range(claim.citations) : \E x \in Grading!Range(e) : x.place = c.place
    /\ \E x \in Grading!Range(e) :
         /\ Grading!Cites(claim, x)
         /\ x.phrases \cap {j.replies[n].quote : n \in DOMAIN j.replies} # {}

(* What the judge is not asked about, and what it is. *)
LEMMA VerdictIs ==
    ASSUME NEW acc, NEW claim, NEW e, NEW j
    PROVE  LET known == Grading!DeterministicVerdict(claim, e)
               v == Grading!VerdictOn(acc, claim, e, j)
           IN  /\ known \in {"malformed_citation", "uncited", "citation_not_in_evidence", "open"}
               /\ known = "open" => /\ claim.malformed = <<>> /\ claim.citations # <<>>
                                    /\ Grading!MissingFrom(claim, e) = {}
               /\ known = "malformed_citation" <=> claim.malformed # <<>>
               /\ known = "uncited" => claim.citations = <<>>
               /\ known # "open" => v = known
               /\ known = "open" /\ ~ (j.live /\ Grading!Asks(acc, claim, e, j)) => v = "unknown"
               /\ known = "open" /\ j.live /\ Grading!Asks(acc, claim, e, j) =>
                    v = Grading!Judgement(j.replies[acc.checked + 1],
                                          Grading!EvidenceFor(claim, e))
<1>1. Grading!DeterministicVerdict(claim, e)
         \in {"malformed_citation", "uncited", "citation_not_in_evidence", "open"}
  BY DEF Grading!DeterministicVerdict
<1> QED BY <1>1 DEF Grading!DeterministicVerdict, Grading!VerdictOn

(* A supported claim is evidenced. *)
LEMMA SupportedIs ==
    ASSUME NEW a, NEW e, NEW j, IsCheck(a, j),
           NEW i \in 1 .. Len(Grading!ExtractCitedClaims(a)),
           Grading!CheckAnswer(a, e, j).verdicts[i] = "supported"
    PROVE  Evidenced(Grading!ExtractCitedClaims(a)[i], e, j)
<1> DEFINE claims == Grading!ExtractCitedClaims(a)
           claim == claims[i]
<1>1. a \in Grading!Answer /\ j.replies \in Seq(Grading!Reply)
      /\ (j.live => Len(claims) <= Len(j.replies))
  BY DEF IsCheck
<1>2. Len(claims) \in Nat
  <2>1. claims \in Seq(CitedClaim)
    BY <1>1, ClaimsAre
  <2> HIDE DEF claims
  <2> QED BY <2>1
<1>3. PICK acc : /\ acc.checked \in 0 .. i - 1
                 /\ Grading!VerdictOn(acc, claim, e, j) = "supported"
  BY <1>1, VerdictsAre
<1> HIDE DEF claims
<1> DEFINE r == j.replies[acc.checked + 1]
           shown == Grading!EvidenceFor(claim, e)
<1>4. Grading!DeterministicVerdict(claim, e) = "open"
  BY <1>3, VerdictIs
<1>5. /\ claim.malformed = <<>> /\ claim.citations # <<>>
      /\ Grading!MissingFrom(claim, e) = {}
  BY <1>4, VerdictIs
<1>6. j.live /\ Grading!Judgement(r, shown) = "supported"
  BY <1>3, <1>4, VerdictIs
<1>7. acc.checked + 1 \in DOMAIN j.replies /\ r \in Grading!Reply
  <2>1. i \in 1 .. Len(claims)
    BY DEF claims
  <2>2. acc.checked + 1 \in 1 .. Len(j.replies)
    BY <1>1, <1>2, <1>3, <1>6, <2>1
  <2> QED BY <1>1, <2>2
<1>8. \E x \in shown : r.quote \in x.phrases
  <2>1. r.kind \in {"supported", "contradicted", "not_addressed", "outage", "garbled"}
    BY <1>7 DEF Grading!Reply
  <2> HIDE DEF r, shown
  <2> QED BY <1>6, <2>1 DEF Grading!Judgement
<1>9. r.quote \in {j.replies[n].quote : n \in DOMAIN j.replies}
  BY <1>7
<1>10. \E x \in Grading!Range(e) : Grading!Cites(claim, x) /\ r.quote \in x.phrases
  BY <1>8 DEF Grading!EvidenceFor
<1>11. \A c \in Grading!Range(claim.citations) : \E x \in Grading!Range(e) : x.place = c.place
  BY <1>5 DEF Grading!MissingFrom
<1> HIDE DEF r, claim
<1>12. Evidenced(claim, e, j)
  BY <1>5, <1>6, <1>9, <1>10, <1>11 DEF Evidenced
<1> QED BY <1>12 DEF claim, claims

(* An answer passes if all its claims are supported. *)
LEMMA PassedIs ==
    ASSUME NEW v, NEW n \in Nat, Len(v) = n, DOMAIN v = 1 .. n,
           Grading!ClaimSupportGrade(FALSE, v).passed
    PROVE  \A i \in 1 .. n : v[i] = "supported"
<1> DEFINE S == {i \in DOMAIN v : v[i] = "supported"}
<1>1. CASE v = <<>>
  <2>1. n = 0
    BY <1>1
  <2> QED BY <2>1
<1>2. CASE v # <<>>
  <2>1. Cardinality(S) = n
    BY <1>2, CountsAlike DEF Grading!ClaimSupportGrade, Grading!CountOf
  <2>2. S \in SUBSET (1 .. n) /\ IsFiniteSet(1 .. n) /\ Cardinality(1 .. n) = n
    BY FS_Interval
  <2>3. S = 1 .. n
    <3> HIDE DEF S
    <3> QED BY <2>1, <2>2, FS_Subset
  <2> QED BY <2>3
<1> QED BY <1>1, <1>2

(* A claim is supported, and an answer passes, only by evidence. *)
LEMMA SupportTells ==
    ASSUME NEW a, NEW e, NEW j, IsCheck(a, j)
    PROVE  Grading!SupportIsEvidenced(a, e, j)
<1> DEFINE claims == Grading!ExtractCitedClaims(a)
           v == Grading!CheckAnswer(a, e, j).verdicts
           n == Len(claims)
<1>1. a \in Grading!Answer
  BY DEF IsCheck
<1>2. n \in Nat /\ DOMAIN claims = 1 .. n
  <2>1. claims \in Seq(CitedClaim)
    BY <1>1, ClaimsAre
  <2> HIDE DEF claims
  <2> QED BY <2>1
<1>3. Len(v) = n /\ DOMAIN v = 1 .. n
  BY <1>1, VerdictsAre
<1>4. \A i \in 1 .. n : v[i] = "supported" => Evidenced(claims[i], e, j)
  BY SupportedIs
<1> HIDE DEF v, n
<1>5. Grading!ClaimSupportGrade(FALSE, v).passed => \A i \in 1 .. n : v[i] = "supported"
  BY <1>2, <1>3, PassedIs
<1> HIDE DEF claims
<1>6. /\ \A i \in DOMAIN claims : v[i] = "supported" => Evidenced(claims[i], e, j)
      /\ Grading!ClaimSupportGrade(FALSE, v).passed =>
           \A i \in DOMAIN claims : Evidenced(claims[i], e, j)
  BY <1>2, <1>4, <1>5
<1>7. Len(v) = Len(claims)
  BY <1>3 DEF n
<1> QED BY <1>6, <1>7 DEF Grading!SupportIsEvidenced, Evidenced, v, claims

(* Some of the places of a sequence are no more than all of them, and all of *)
(* them if they are as many.                                                 *)
LEMMA SomePlaces ==
    ASSUME NEW X, NEW seq \in Seq(X), NEW S \in SUBSET DOMAIN seq
    PROVE  /\ Grading!Cardinality(S) \in 0 .. Len(seq) /\ Len(seq) \in Nat
           /\ Grading!Cardinality(S) = Len(seq) => S = DOMAIN seq
<1>1. Len(seq) \in Nat /\ DOMAIN seq = 1 .. Len(seq)
  OBVIOUS
<1>2. IsFiniteSet(DOMAIN seq) /\ Cardinality(DOMAIN seq) = Len(seq)
  <2>1. \A m \in Nat : IsFiniteSet(1 .. m) /\ Cardinality(1 .. m) = m
    BY FS_Interval
  <2> QED BY <1>1, <2>1
<1>3. IsFiniteSet(S) /\ Cardinality(S) <= Len(seq) /\ (Cardinality(S) = Len(seq) => S = DOMAIN seq)
  BY <1>2, FS_Subset
<1>4. Cardinality(S) \in Nat
  BY <1>3, FS_CardinalityType
<1> QED BY <1>1, <1>3, <1>4, CountsAlike

(* What an audit counts: no more good citations and no more errors than there *)
(* are attempts, and no error only if nothing is malformed.                   *)
LEMMA AuditIs ==
    ASSUME NEW a \in Grading!Answer, NEW grounds
    PROVE  LET audit == Grading!Audit(a, grounds)
           IN  /\ audit.valid \in 0 .. audit.attempts
               /\ audit.errors \in 0 .. audit.attempts
               /\ audit.errors = 0 =>
                    \A i \in DOMAIN a : \A k \in DOMAIN a[i] :
                      Grading!Range(Grading!MalformedIn(a[i][k])) = {}
<1> DEFINE ss == Grading!FlattenSeq(a)
           cs == Grading!CitationsOf(ss)
           ms == Grading!MalformedOf(ss)
           ds == Grading!Distinct(cs)
           good == {i \in DOMAIN ds : ds[i].place \in grounds}
<1>1. /\ ss \in Seq(Grading!Sentence)
      /\ Grading!Range(ss) = UNION {Grading!Range(a[i]) : i \in DOMAIN a}
  BY Flattened DEF Grading!Answer
<1> HIDE DEF ss
<1>2. \A i \in DOMAIN ss : /\ Grading!CitationsIn(ss[i]) \in Seq(Grading!Part)
                           /\ Grading!MalformedIn(ss[i]) \in Seq(Seq(Grading!Part))
  <2>1. \A i \in DOMAIN ss : ss[i] \in Grading!Sentence
    BY <1>1
  <2> QED BY <2>1, CitationsAre
<1>3. DOMAIN ss = 1 .. Len(ss) /\ Len(ss) \in Nat
  BY <1>1
<1>4. cs \in Seq(Grading!Part)
  <2> DEFINE q == [i \in DOMAIN ss |-> Grading!CitationsIn(ss[i])]
  <2>1. q \in Seq(Seq(Grading!Part))
    BY <1>2, <1>3
  <2>2. cs = Grading!FlattenSeq(q)
    BY DEF Grading!CitationsOf
  <2> HIDE DEF q, cs
  <2> QED BY <2>1, <2>2, Flattened
<1>5. /\ ms \in Seq(Seq(Grading!Part))
      /\ Grading!Range(ms) = UNION {Grading!Range(Grading!MalformedIn(ss[i])) : i \in DOMAIN ss}
  <2> DEFINE M(i) == Grading!MalformedIn(ss[i])
             q == [i \in DOMAIN ss |-> M(i)]
  <2>1. q \in Seq(Seq(Seq(Grading!Part)))
    BY <1>2, <1>3
  <2>2. ms = Grading!FlattenSeq(q)
    BY DEF Grading!MalformedOf
  <2>3. DOMAIN q = DOMAIN ss /\ \A i \in DOMAIN ss : q[i] = M(i)
    OBVIOUS
  <2> HIDE DEF q, ms
  <2>4. ms \in Seq(Seq(Grading!Part))
        /\ Grading!Range(ms) = UNION {Grading!Range(q[i]) : i \in DOMAIN q}
    BY <2>1, <2>2, Flattened
  <2>5. {Grading!Range(q[i]) : i \in DOMAIN q} = {Grading!Range(M(i)) : i \in DOMAIN ss}
    <3> HIDE DEF M
    <3> QED BY <2>3
  <2> QED BY <2>4, <2>5
<1> HIDE DEF cs, ms
<1>6. ds \in Seq(Grading!Part)
  BY <1>4, UniqueIs DEF Grading!Distinct
<1> HIDE DEF ds
<1>7. Grading!Cardinality(good) \in 0 .. Len(ds) /\ Len(ds) \in Nat
  BY <1>6, SomePlaces
<1>8. Len(ms) \in Nat
  BY <1>5
<1>9. /\ Grading!Audit(a, grounds).valid = Grading!Cardinality(good)
      /\ Grading!Audit(a, grounds).attempts = Len(ds) + Len(ms)
      /\ Grading!Audit(a, grounds).errors = Len(ms) + Len(ds) - Grading!Cardinality(good)
  BY DEF Grading!Audit, Grading!Tally, ss, cs, ms, ds
<1> HIDE DEF good
<1>10. /\ Grading!Audit(a, grounds).valid \in 0 .. Grading!Audit(a, grounds).attempts
       /\ Grading!Audit(a, grounds).errors \in 0 .. Grading!Audit(a, grounds).attempts
       /\ Grading!Audit(a, grounds).errors = 0 => Len(ms) = 0
  BY <1>7, <1>8, <1>9
<1>11. ASSUME Len(ms) = 0, NEW i \in DOMAIN a, NEW k \in DOMAIN a[i]
       PROVE  Grading!Range(Grading!MalformedIn(a[i][k])) = {}
  <2>1. Grading!Range(ms) = {}
    BY <1>11, <1>5 DEF Grading!Range
  <2>2. a[i][k] \in Grading!Range(ss)
    <3>1. a[i][k] \in Grading!Range(a[i])
      BY DEF Grading!Range
    <3> QED BY <3>1, <1>1
  <2>3. PICK m \in DOMAIN ss : ss[m] = a[i][k]
    BY <2>2 DEF Grading!Range
  <2>4. Grading!Range(Grading!MalformedIn(ss[m])) \subseteq Grading!Range(ms)
    <3> DEFINE R(x) == Grading!Range(Grading!MalformedIn(ss[x]))
    <3>1. Grading!Range(ms) = UNION {R(x) : x \in DOMAIN ss}
      BY <1>5
    <3> HIDE DEF R
    <3>2. R(m) \subseteq Grading!Range(ms)
      BY <3>1
    <3> QED BY <3>2 DEF R
  <2> QED BY <2>1, <2>3, <2>4
<1> QED BY <1>10, <1>11

(* Every claim is one of the answer's. *)
LEMMA EveryClaim ==
    ASSUME NEW a \in Grading!Answer, NEW n \in 1 .. Len(Grading!ExtractCitedClaims(a))
    PROVE  \E S \in SUBSET (UNION {Grading!Range(a[i]) : i \in DOMAIN a}) :
             Carries(Grading!ExtractCitedClaims(a)[n], S)
<1> DEFINE F == Facts(a)
           num == [f \in F |-> Cardinality(FactsUpTo(a, f[1], f[2]))]
           claims == Grading!ExtractCitedClaims(a)
           C == Cardinality(F)
<1>1. IsFiniteSet(F) /\ Len(claims) = C /\ C \in Nat
  BY ClaimsAre, FS_CardinalityType
<1>2. num \in [F -> 1 .. C]
  BY ClaimsAre
<1>3. ASSUME NEW f \in F, NEW g \in F, f # g PROVE num[f] # num[g]
  <2>1. /\ f = <<f[1], f[2]>> /\ f[1] \in Nat /\ f[2] \in Nat
        /\ g = <<g[1], g[2]>> /\ g[1] \in Nat /\ g[2] \in Nat
    BY FactsAre
  <2>2. \A x \in F : x[1] \in Nat /\ x[2] \in Nat
    BY FactsAre
  <2>3. \A x, y \in F : /\ FactsUpTo(a, x[1], x[2]) \in SUBSET F
                        /\ IsFiniteSet(FactsUpTo(a, x[1], x[2]))
    BY <1>1, FS_Subset DEF FactsUpTo
  <2>4. ASSUME NEW x \in F, NEW y \in F, x[1] < y[1] \/ (x[1] = y[1] /\ x[2] < y[2])
        PROVE  num[x] # num[y]
    <3>1. FactsUpTo(a, x[1], x[2]) \in SUBSET FactsUpTo(a, y[1], y[2])
          /\ y \in FactsUpTo(a, y[1], y[2]) /\ y \notin FactsUpTo(a, x[1], x[2])
      BY <2>2, <2>4 DEF FactsUpTo
    <3> QED BY <3>1, <2>3, FS_Subset
  <2>5. \/ f[1] < g[1] \/ (f[1] = g[1] /\ f[2] < g[2])
        \/ g[1] < f[1] \/ (g[1] = f[1] /\ g[2] < f[2])
    BY <2>1, <1>3
  <2> HIDE DEF num
  <2> QED BY <2>4, <2>5
<1>4. PICK f \in F : num[f] = n
  <2> DEFINE T == {num[f] : f \in F}
  <2>1. \A f, g \in F : num[f] = num[g] => f = g
    BY <1>3
  <2> HIDE DEF num, F
  <2>2. num \in Surjection(F, T)
    BY <1>2 DEF Surjection
  <2>3. num \in Injection(F, T)
    BY <2>1, <2>2 DEF Injection, IsInjective, Surjection
  <2>4. ExistsBijection(F, T)
    BY <2>2, <2>3 DEF ExistsBijection, Bijection
  <2>5. IsFiniteSet(T) /\ Cardinality(T) = C
    BY <1>1, <2>4, FS_Bijection
  <2>6. T \in SUBSET (1 .. C) /\ IsFiniteSet(1 .. C) /\ Cardinality(1 .. C) = C
    BY <1>1, <1>2, FS_Interval
  <2>7. T = 1 .. C
    <3> HIDE DEF T, C
    <3> QED BY <2>5, <2>6, FS_Subset
  <2>8. n \in T
    BY <1>1, <2>7
  <2> QED BY <2>8
<1> DEFINE S == {a[f[1]][k] : k \in {x \in DOMAIN a[f[1]] :
                   x >= f[2] /\ \A m \in f[2] + 1 .. x : <<f[1], m>> \notin Facts(a)}}
<1>5. Carries(claims[Cardinality(FactsUpTo(a, f[1], f[2]))], S)
  BY ClaimsAre
<1>6. f[1] \in DOMAIN a
  BY FactsAre
<1>7. S \subseteq Grading!Range(a[f[1]])
  BY DEF Grading!Range
<1>8. Carries(claims[n], S)
  BY <1>4, <1>5
<1> HIDE DEF S, F
<1>9. S \in SUBSET (UNION {Grading!Range(a[i]) : i \in DOMAIN a})
  BY <1>6, <1>7
<1> QED BY <1>8, <1>9 DEF claims

(* No more claims are covered than there are, and all if as many. *)
LEMMA CoverageIs ==
    ASSUME NEW a \in Grading!Answer
    PROVE  LET claims == Grading!ExtractCitedClaims(a)
               coverage == Grading!CoverageOf(claims)
           IN  /\ coverage.hits \in 0 .. coverage.of /\ coverage.of \in Nat
               /\ ~ (coverage.hits < coverage.of) =>
                    \A i \in 1 .. Len(claims) : claims[i].citations # <<>>
<1> DEFINE claims == Grading!ExtractCitedClaims(a)
           S == {i \in DOMAIN claims : claims[i].citations # <<>>}
<1>1. claims \in Seq(CitedClaim)
  BY ClaimsAre
<1>2. /\ Grading!CoverageOf(claims).hits = Grading!Cardinality(S)
      /\ Grading!CoverageOf(claims).of = Len(claims)
  BY DEF Grading!CoverageOf, Grading!Cited, Grading!Score
<1> HIDE DEF claims
<1>3. /\ Grading!Cardinality(S) \in 0 .. Len(claims) /\ Len(claims) \in Nat
      /\ Grading!Cardinality(S) = Len(claims) => S = DOMAIN claims
  BY <1>1, SomePlaces
<1>4. DOMAIN claims = 1 .. Len(claims)
  BY <1>1
<1>5. S = DOMAIN claims => \A i \in 1 .. Len(claims) : claims[i].citations # <<>>
  BY <1>4
<1> HIDE DEF S
<1> QED BY <1>2, <1>3, <1>5 DEF claims

(* A claim of an answer in which nothing is malformed is not. *)
LEMMA WellFormedClaims ==
    ASSUME NEW a \in Grading!Answer,
           \A i \in DOMAIN a : \A k \in DOMAIN a[i] :
             Grading!Range(Grading!MalformedIn(a[i][k])) = {},
           NEW n \in 1 .. Len(Grading!ExtractCitedClaims(a))
    PROVE  Grading!ExtractCitedClaims(a)[n].malformed = <<>>
<1> DEFINE claims == Grading!ExtractCitedClaims(a)
           M(s) == Grading!Range(Grading!MalformedIn(s))
<1>1. PICK S \in SUBSET (UNION {Grading!Range(a[i]) : i \in DOMAIN a}) :
         Carries(claims[n], S)
  BY EveryClaim
<1>2. claims[n] \in CitedClaim
  <2>1. claims \in Seq(CitedClaim)
    BY ClaimsAre
  <2> HIDE DEF claims
  <2> QED BY <2>1 DEF claims
<1>3. \A s \in S : M(s) = {}
  <2> SUFFICES ASSUME NEW s \in S PROVE M(s) = {}
    OBVIOUS
  <2>1. PICK i \in DOMAIN a : s \in Grading!Range(a[i])
    OBVIOUS
  <2> QED BY <2>1 DEF Grading!Range
<1>4. Grading!Range(claims[n].malformed) = UNION {M(s) : s \in S}
  BY <1>1 DEF Carries
<1>5. Grading!Range(claims[n].malformed) = {}
  <2> HIDE DEF M, claims
  <2> QED BY <1>3, <1>4
<1> HIDE DEF claims
<1> DEFINE m == claims[n].malformed
<1>6. m \in Seq(Seq(Grading!Part))
  BY <1>2 DEF CitedClaim
<1>7. \A i \in DOMAIN m : m[i] \in Grading!Range(m)
  BY DEF Grading!Range
<1>8. m = <<>>
  <2>1. \A i \in DOMAIN m : FALSE
    BY <1>5, <1>7
  <2> HIDE DEF m
  <2>2. DOMAIN m = 1 .. Len(m) /\ Len(m) \in Nat
    BY <1>6
  <2>3. Len(m) = 0
    BY <2>1, <2>2
  <2> QED BY <1>6, <2>3
<1> QED BY <1>8 DEF claims

(* The rates of an ablation are rates, and an answer that is not unsafe has no *)
(* claim that is uncited or badly cited.                                       *)
LEMMA AblationTells ==
    ASSUME NEW o, NEW j, IsAblation(o, j)
    PROVE  Grading!AblationIsSound(o, j)
<1> DEFINE gated == IF o.delivered THEN o.gated ELSE <<>>
           raw == Grading!Audit(o.ungated, o.grounds)
           rawCovered == Grading!CoverageOf(Grading!ExtractCitedClaims(o.ungated))
           final == Grading!Audit(gated, o.grounds)
           finalCovered == Grading!CoverageOf(Grading!ExtractCitedClaims(gated))
           a == Grading!Ablation(o)
           v == Grading!CheckAnswer(o.ungated, <<>>, j).verdicts
<1>1. o.ungated \in Grading!Answer /\ gated \in Grading!Answer /\ ~ j.live
  BY DEF IsAblation, Grading!Answer
<1>2. a = Grading!Rates(raw, rawCovered, final, finalCovered)
  BY DEF Grading!Ablation
<1> HIDE DEF gated
<1>3. /\ a.invalid.hits = raw.errors /\ a.invalid.of = raw.attempts
      /\ a.valid.hits = final.valid /\ a.valid.of = final.attempts
      /\ a.covered = finalCovered
      /\ a.unsafe = (raw.errors # 0 \/ rawCovered.hits < rawCovered.of)
  <2> HIDE DEF a, raw, rawCovered, final, finalCovered
  <2>1. a = [invalid |-> Grading!Score(raw.errors, raw.attempts),
             unsafe |-> raw.errors # 0 \/ rawCovered.hits < rawCovered.of,
             valid |-> Grading!Score(final.valid, final.attempts),
             covered |-> finalCovered]
    BY <1>2 DEF Grading!Rates
  <2>2. /\ a.invalid = Grading!Score(raw.errors, raw.attempts)
        /\ a.valid = Grading!Score(final.valid, final.attempts)
        /\ a.covered = finalCovered
    BY <2>1
  <2>3. a.unsafe = (raw.errors # 0 \/ rawCovered.hits < rawCovered.of)
    BY <2>1
  <2> QED BY <2>2, <2>3 DEF Grading!Score
<1>4. raw.errors \in 0 .. raw.attempts /\ final.valid \in 0 .. final.attempts
  BY <1>1, AuditIs
<1>5. finalCovered.hits \in 0 .. finalCovered.of
  BY <1>1, CoverageIs
<1>6. ASSUME ~ a.unsafe
      PROVE  raw.errors = 0 /\ Grading!Range(v) \cap {"uncited", "malformed_citation"} = {}
  <2>1. raw.errors = 0 /\ ~ (rawCovered.hits < rawCovered.of)
    BY <1>3, <1>6
  <2> DEFINE claims == Grading!ExtractCitedClaims(o.ungated)
  <2>2. \A i \in 1 .. Len(claims) : claims[i].citations # <<>>
    BY <1>1, <2>1, CoverageIs
  <2>3. \A i \in 1 .. Len(claims) : claims[i].malformed = <<>>
    <3>1. \A i \in DOMAIN o.ungated : \A k \in DOMAIN o.ungated[i] :
            Grading!Range(Grading!MalformedIn(o.ungated[i][k])) = {}
      BY <1>1, <2>1, AuditIs
    <3> QED BY <1>1, <3>1, WellFormedClaims
  <2>4. ASSUME NEW i \in DOMAIN v PROVE v[i] \notin {"uncited", "malformed_citation"}
    <3>1. i \in 1 .. Len(claims)
      BY <1>1, VerdictsAre
    <3>2. PICK acc : v[i] = Grading!VerdictOn(acc, claims[i], <<>>, j)
      BY <1>1, <3>1, VerdictsAre
    <3> DEFINE known == Grading!DeterministicVerdict(claims[i], <<>>)
    <3>3. known \in {"malformed_citation", "uncited", "citation_not_in_evidence", "open"}
          /\ (known = "malformed_citation" <=> claims[i].malformed # <<>>)
          /\ (known = "uncited" => claims[i].citations = <<>>)
          /\ (known # "open" => v[i] = known)
          /\ (known = "open" => v[i] = "unknown")
      BY <1>1, <3>2, VerdictIs
    <3> HIDE DEF known, claims, v
    <3> QED BY <2>2, <2>3, <3>1, <3>3
  <2> HIDE DEF v
  <2>5. Grading!Range(v) \cap {"uncited", "malformed_citation"} = {}
    BY <2>4 DEF Grading!Range
  <2> QED BY <2>1, <2>5
<1> HIDE DEF a, raw, final, finalCovered, v
<1>7. \A rate \in {a.invalid, a.valid, a.covered} : rate.hits \in 0 .. rate.of
  BY <1>3, <1>4, <1>5
<1>8. ~ a.unsafe => a.invalid.hits = 0
  BY <1>3, <1>6
<1> QED BY <1>6, <1>7, <1>8 DEF Grading!AblationIsSound, a, v

-----------------------------------------------------------------------------
(***************************************************************************)
(* Retrieval.                                                              *)
(*                                                                         *)
(* What is ranked is listed in an order (InOrderIs); each arm finds chunks *)
(* of its scope, top_k at most and none twice (IsFound); fusing such lists *)
(* keeps that and puts a chunk of both before what it outweighs            *)
(* (AgreementHolds).  The pool of a comparison, its reranking and the      *)
(* selection from it keep it too, and leave no compared document out.      *)
(***************************************************************************)

(* A strict total order of a finite set, told by what comes before each of it. *)
IsOrder(ahead, S) ==
    /\ IsFiniteSet(S) /\ ahead \in [S -> SUBSET S]
    /\ \A x \in S : x \notin ahead[x]
    /\ \A x, y \in S : x # y => x \in ahead[y] \/ y \in ahead[x]
    /\ \A x, y \in S : y \in ahead[x] => ahead[y] \subseteq ahead[x]

(* order lists S, each member once, in the order ahead tells. *)
IsListed(order, ahead, S) ==
    /\ order \in Seq(S) /\ Len(order) = Cardinality(S) /\ Cardinality(S) \in Nat
    /\ DOMAIN order = 1 .. Cardinality(S)
    /\ \A x \in S : \E n \in DOMAIN order : order[n] = x
    /\ \A m, n \in DOMAIN order : order[m] = order[n] => m = n
    /\ \A m, n \in DOMAIN order : m < n <=> order[m] \in ahead[order[n]]

(* InOrder lists a set in its order. *)
LEMMA InOrderIs ==
    ASSUME NEW S, NEW ahead, IsOrder(ahead, S)
    PROVE  IsListed(InOrder(ahead), ahead, S)
<1> DEFINE C == Cardinality(S)
           before(x) == Cardinality(ahead[x])
           order == InOrder(ahead)
<1>1. IsFiniteSet(S) /\ C \in Nat /\ DOMAIN ahead = S
  BY FS_CardinalityType DEF IsOrder
<1>2. ASSUME NEW x \in S
      PROVE  IsFiniteSet(ahead[x]) /\ before(x) \in Nat /\ before(x) < C
  <2>1. ahead[x] \in SUBSET S /\ ahead[x] # S
    BY DEF IsOrder
  <2>2. IsFiniteSet(ahead[x]) /\ before(x) <= C /\ before(x) # C
    BY <1>1, <2>1, FS_Subset
  <2>3. before(x) \in Nat
    BY <2>2, FS_CardinalityType
  <2> QED BY <1>1, <2>2, <2>3
<1>3. ASSUME NEW x \in S, NEW y \in S, y \in ahead[x] PROVE before(y) < before(x)
  <2>1. ahead[y] \in SUBSET ahead[x] /\ ahead[y] # ahead[x]
    BY <1>3 DEF IsOrder
  <2>2. before(y) <= before(x) /\ before(y) # before(x)
    BY <1>2, <2>1, FS_Subset
  <2> QED BY <1>2, <2>2
<1>4. ASSUME NEW x \in S, NEW y \in S, before(x) = before(y) PROVE x = y
  <2>1. before(x) \in Nat
    BY <1>2
  <2>2. x \notin ahead[y] /\ y \notin ahead[x]
    BY <1>3, <1>4, <2>1
  <2> QED BY <2>2 DEF IsOrder
<1>5. \A n \in 1 .. C : \E x \in S : before(x) = n - 1
  <2> DEFINE f == [x \in S |-> before(x) + 1]
  <2>1. f \in Injection(S, 1 .. C)
    <3>1. f \in [S -> 1 .. C]
      BY <1>1, <1>2
    <3>2. \A x, y \in S : f[x] = f[y] => x = y
      <4>1. \A x, y \in S : before(x) + 1 = before(y) + 1 => before(x) = before(y)
        BY <1>2
      <4> QED BY <1>4, <4>1
    <3> HIDE DEF f
    <3> QED BY <3>1, <3>2 DEF Injection, IsInjective
  <2>2. IsFiniteSet(1 .. C) /\ Cardinality(1 .. C) = C
    <3>1. \A m \in Nat : IsFiniteSet(1 .. m) /\ Cardinality(1 .. m) = m
      BY FS_Interval
    <3> HIDE DEF C
    <3> QED BY <1>1, <3>1
  <2>3. f \in Surjection(S, 1 .. C)
    <3> HIDE DEF f
    <3> QED BY <2>1, <2>2, FS_Injection
  <2>4. \A n \in 1 .. C : \E x \in S : f[x] = n
    <3> HIDE DEF f
    <3> QED BY <2>3 DEF Surjection
  <2> QED BY <1>2, <2>4
<1>6. DOMAIN order = 1 .. C /\ order = [n \in 1 .. C |-> order[n]]
  BY <1>1 DEF InOrder
<1>7. ASSUME NEW n \in 1 .. C PROVE order[n] \in S /\ before(order[n]) = n - 1
  <2>1. order[n] = CHOOSE x \in S : before(x) = n - 1
    BY <1>1 DEF InOrder
  <2> HIDE DEF order, before
  <2> QED BY <1>5, <2>1
<1>8. order \in Seq(S) /\ Len(order) = C
  <2> HIDE DEF order, C
  <2> QED BY <1>1, <1>6, <1>7
<1>9. \A x \in S : \E n \in 1 .. C : order[n] = x
  <2> TAKE x \in S
  <2>1. before(x) \in Nat /\ before(x) < C
    BY <1>2
  <2>2. PICK n \in 1 .. C : n - 1 = before(x)
    <3> HIDE DEF before, C, order
    <3>1. before(x) + 1 \in 1 .. C /\ (before(x) + 1) - 1 = before(x)
      BY <1>1, <2>1
    <3> QED BY <3>1
  <2>3. order[n] \in S /\ before(order[n]) = n - 1
    BY <1>7
  <2>4. order[n] = x
    <3> HIDE DEF before, C, order
    <3> QED BY <1>4, <2>2, <2>3
  <2> QED BY <2>4
<1>10. ASSUME NEW m \in 1 .. C, NEW n \in 1 .. C PROVE m < n <=> order[m] \in ahead[order[n]]
  <2> HIDE DEF order, C
  <2>1. /\ order[m] \in S /\ order[n] \in S
        /\ before(order[m]) = m - 1 /\ before(order[n]) = n - 1
    BY <1>7
  <2>2. CASE m < n
    <3>1. order[m] # order[n]
      BY <1>1, <2>1, <2>2
    <3>2. order[n] \notin ahead[order[m]]
      BY <1>1, <1>3, <2>1, <2>2
    <3> QED BY <2>1, <2>2, <3>1, <3>2 DEF IsOrder
  <2>3. CASE ~ (m < n)
    BY <1>1, <1>3, <2>1, <2>3
  <2> QED BY <2>2, <2>3
<1>11. ASSUME NEW m \in 1 .. C, NEW n \in 1 .. C, order[m] = order[n] PROVE m = n
  <2> HIDE DEF order, C, before
  <2> QED BY <1>1, <1>7, <1>11
<1> QED BY <1>1, <1>6, <1>8, <1>9, <1>10, <1>11 DEF IsListed

(* Numbers by descending score, then by number, are in order. *)
LEMMA RankedIs ==
    ASSUME NEW S, IsFiniteSet(S), S \subseteq Int, NEW score,
           \A x \in S : score[x] \in Int
    PROVE  /\ Ranked(S, score) \in Seq(S)
           /\ Len(Ranked(S, score)) = Cardinality(S) /\ Cardinality(S) \in Nat
           /\ DOMAIN Ranked(S, score) = 1 .. Cardinality(S)
           /\ \A x \in S : \E n \in DOMAIN Ranked(S, score) : Ranked(S, score)[n] = x
           /\ \A m, n \in DOMAIN Ranked(S, score) :
                Ranked(S, score)[m] = Ranked(S, score)[n] => m = n
           /\ \A m, n \in DOMAIN Ranked(S, score) :
                m < n => score[Ranked(S, score)[m]] >= score[Ranked(S, score)[n]]
<1> DEFINE ahead == [x \in S |-> {y \in S : score[y] > score[x] \/ (score[y] = score[x] /\ y < x)}]
<1>1. IsOrder(ahead, S)
  <2>1. ahead \in [S -> SUBSET S]
    OBVIOUS
  <2>2. \A x \in S : x \notin ahead[x]
    OBVIOUS
  <2>3. \A x, y \in S : x # y => x \in ahead[y] \/ y \in ahead[x]
    OBVIOUS
  <2>4. ASSUME NEW x \in S, NEW y \in S, y \in ahead[x], NEW z \in ahead[y]
        PROVE  z \in ahead[x]
    <3>1. score[x] \in Int /\ score[y] \in Int /\ score[z] \in Int /\ x \in Int /\ y \in Int
          /\ z \in S /\ z \in Int
      OBVIOUS
    <3>2. score[y] > score[x] \/ (score[y] = score[x] /\ y < x)
      BY <2>4
    <3>3. score[z] > score[y] \/ (score[z] = score[y] /\ z < y)
      BY <2>4
    <3> QED BY <3>1, <3>2, <3>3
  <2> HIDE DEF ahead
  <2> QED BY <2>1, <2>2, <2>3, <2>4 DEF IsOrder
<1>2. Ranked(S, score) = InOrder(ahead)
  BY DEF Ranked
<1>3. IsListed(Ranked(S, score), ahead, S)
  BY <1>1, <1>2, InOrderIs
<1>4. \A x, y \in S : x \in ahead[y] => score[x] >= score[y]
  OBVIOUS
<1> HIDE DEF ahead
<1> QED BY <1>3, <1>4 DEF IsListed

(* order lists some places of a sequence, each once, in their order. *)
IsPicked(order, s, P) ==
    /\ order \in Seq(P) /\ Len(order) = Cardinality(P) /\ Cardinality(P) \in Nat
    /\ DOMAIN order = 1 .. Cardinality(P)
    /\ \A i \in P : \E n \in DOMAIN order : order[n] = i
    /\ \A m, n \in DOMAIN order : m < n <=> order[m] < order[n]
    /\ \A n \in DOMAIN order : ElementsAt(s, P)[n] = s[order[n]]

(* The elements at some places of a sequence. *)
LEMMA ElementsAre ==
    ASSUME NEW X, NEW s \in Seq(X), NEW P \in SUBSET DOMAIN s
    PROVE  /\ ElementsAt(s, P) \in Seq(X) /\ Len(ElementsAt(s, P)) = Cardinality(P)
           /\ DOMAIN ElementsAt(s, P) = 1 .. Cardinality(P)
           /\ \E order : IsPicked(order, s, P)
<1> DEFINE ahead == [i \in P |-> {j \in P : j < i}]
           order == InOrder(ahead)
<1>1. Len(s) \in Nat /\ DOMAIN s = 1 .. Len(s) /\ P \subseteq Int
  OBVIOUS
<1>2. IsFiniteSet(P)
  <2>1. \A m \in Nat : IsFiniteSet(1 .. m)
    BY FS_Interval
  <2> QED BY <1>1, <2>1, FS_Subset
<1>3. IsOrder(ahead, P)
  <2>1. ahead \in [P -> SUBSET P]
    OBVIOUS
  <2>2. \A x \in P : x \notin ahead[x]
    BY <1>1
  <2>3. \A x, y \in P : x # y => x \in ahead[y] \/ y \in ahead[x]
    BY <1>1
  <2>4. \A x, y \in P : y \in ahead[x] => ahead[y] \subseteq ahead[x]
    BY <1>1
  <2> HIDE DEF ahead
  <2> QED BY <1>2, <2>1, <2>2, <2>3, <2>4 DEF IsOrder
<1>4. IsListed(order, ahead, P)
  BY <1>3, InOrderIs
<1>5. ElementsAt(s, P) = [n \in DOMAIN order |-> s[order[n]]]
  BY DEF ElementsAt
<1>6. \A x, y \in P : x \in ahead[y] <=> x < y
  OBVIOUS
<1> HIDE DEF ahead, order
<1>7. /\ order \in Seq(P) /\ DOMAIN order = 1 .. Cardinality(P)
      /\ \A m, n \in DOMAIN order : order[m] \in P /\ order[n] \in P
  BY <1>4 DEF IsListed
<1>8. \A m, n \in DOMAIN order : m < n <=> order[m] < order[n]
  BY <1>4, <1>6, <1>7 DEF IsListed
<1>9. /\ Len(order) = Cardinality(P) /\ Cardinality(P) \in Nat
      /\ \A i \in P : \E n \in DOMAIN order : order[n] = i
  BY <1>4 DEF IsListed
<1>10. /\ DOMAIN ElementsAt(s, P) = 1 .. Cardinality(P)
       /\ \A n \in DOMAIN order : ElementsAt(s, P)[n] = s[order[n]] /\ s[order[n]] \in X
  BY <1>5, <1>7
<1>11. ElementsAt(s, P) \in Seq(X) /\ Len(ElementsAt(s, P)) = Cardinality(P)
  <2>1. ElementsAt(s, P) = [n \in 1 .. Cardinality(P) |-> ElementsAt(s, P)[n]]
    BY <1>5, <1>7
  <2>2. Cardinality(P) \in Nat
        /\ \A n \in 1 .. Cardinality(P) : ElementsAt(s, P)[n] \in X
    BY <1>7, <1>9, <1>10
  <2> QED BY <2>1, <2>2
<1>12. IsPicked(order, s, P)
  BY <1>7, <1>8, <1>9, <1>10 DEF IsPicked
<1> QED BY <1>10, <1>11, <1>12

(* The smaller of two numbers. *)
LEMMA MinOfTwo ==
    ASSUME NEW m \in Int, NEW n \in Int
    PROVE  /\ Min({m, n}) \in {m, n} /\ Min({m, n}) <= m /\ Min({m, n}) <= n
           /\ m <= n => Min({m, n}) = m
           /\ n <= m => Min({m, n}) = n
<1>1. \E x \in {m, n} : \A y \in {m, n} : x =< y
  OBVIOUS
<1>2. Min({m, n}) \in {m, n} /\ \A y \in {m, n} : Min({m, n}) =< y
  BY <1>1 DEF Min
<1> QED BY <1>2

(* The first few of a sequence. *)
LEMMA TakeIs ==
    ASSUME NEW X, NEW s \in Seq(X), NEW n \in Nat
    PROVE  /\ Take(s, n) \in Seq(X)
           /\ Len(Take(s, n)) = Min({n, Len(s)})
           /\ Len(Take(s, n)) <= n /\ Len(Take(s, n)) <= Len(s)
           /\ DOMAIN Take(s, n) = 1 .. Len(Take(s, n))
           /\ DOMAIN Take(s, n) \subseteq DOMAIN s
           /\ \A i \in DOMAIN s : i <= n => i \in DOMAIN Take(s, n)
           /\ \A i \in DOMAIN Take(s, n) : Take(s, n)[i] = s[i]
<1> DEFINE m == Min({n, Len(s)})
<1>0. Len(s) \in Nat /\ DOMAIN s = 1 .. Len(s)
  OBVIOUS
<1>1. m \in Nat /\ m <= n /\ m <= Len(s) /\ m \in {n, Len(s)}
  <2>1. m \in {n, Len(s)} /\ m <= n /\ m <= Len(s)
    <3>1. \A x, y \in Int : Min({x, y}) \in {x, y} /\ Min({x, y}) <= x /\ Min({x, y}) <= y
      BY MinOfTwo
    <3>2. n \in Int /\ Len(s) \in Int
      BY <1>0
    <3> QED BY <3>1, <3>2
  <2> HIDE DEF m
  <2> QED BY <1>0, <2>1
<1>2. Take(s, n) = [i \in 1 .. m |-> s[i]]
  BY DEF Take
<1> HIDE DEF m
<1>5. 1 .. m \subseteq 1 .. Len(s) /\ \A i \in 1 .. Len(s) : i <= n => i \in 1 .. m
  <2>1. \A p, q, k \in Nat : p <= k /\ p <= q /\ p \in {q, k} =>
          1 .. p \subseteq 1 .. k /\ \A i \in 1 .. k : i <= q => i \in 1 .. p
    OBVIOUS
  <2> QED BY <1>0, <1>1, <2>1
<1>3. Take(s, n) \in Seq(X) /\ Len(Take(s, n)) = m
  <2>1. \A i \in 1 .. m : i \in 1 .. Len(s)
    BY <1>5
  <2>2. \A i \in 1 .. m : s[i] \in X
    BY <1>0, <2>1
  <2> QED BY <1>1, <1>2, <2>2
<1>4. DOMAIN Take(s, n) = 1 .. m /\ \A i \in 1 .. m : Take(s, n)[i] = s[i]
  BY <1>2
<1>6. Len(Take(s, n)) = Min({n, Len(s)})
  BY <1>3 DEF m
<1> QED BY <1>0, <1>1, <1>3, <1>4, <1>5, <1>6

(* The hits of a search: no chunk twice, each in the scope. *)
Hit(c) == [chunk : DOMAIN c.doc, bm25_rank : Nat, dense_rank : Nat]
IsFound(list, c, filters, k) ==
    /\ list \in Seq(Hit(c)) /\ Len(list) <= k
    /\ \A i, j \in DOMAIN list : list[i].chunk = list[j].chunk => i = j
    /\ \A i \in DOMAIN list : Passes(c, list[i].chunk, filters)

(* The chunks and the windows of a corpus are numbered. *)
LEMMA CorpusIs ==
    ASSUME NEW c, IsCorpus(c)
    PROVE  /\ Len(c.doc) \in Nat /\ DOMAIN c.doc = 1 .. Len(c.doc)
           /\ IsFiniteSet(DOMAIN c.doc) /\ DOMAIN c.doc \subseteq Int
           /\ Len(c.windows) \in Nat /\ DOMAIN c.windows = 1 .. Len(c.windows)
           /\ IsFiniteSet(DOMAIN c.windows) /\ DOMAIN c.windows \subseteq Int
           /\ Cardinality(DOMAIN c.windows) = Len(c.windows)
           /\ \A v \in DOMAIN c.windows : c.windows[v] \in DOMAIN c.doc
<1>1. \A m \in Nat : IsFiniteSet(1 .. m) /\ 1 .. m \subseteq Int /\ Cardinality(1 .. m) = m
  BY FS_Interval
<1>2. Len(c.doc) \in Nat /\ DOMAIN c.doc = 1 .. Len(c.doc)
  BY DEF IsCorpus
<1>3. /\ Len(c.windows) \in Nat /\ DOMAIN c.windows = 1 .. Len(c.windows)
      /\ \A v \in DOMAIN c.windows : c.windows[v] \in DOMAIN c.doc
  BY DEF IsCorpus
<1> QED BY <1>1, <1>2, <1>3

(* The first k of a list of chunks, as items that tell their ranks. *)
LexicalItems(hits, k) == [i \in 1 .. Min({k, Len(hits)}) |-> Item(hits[i], i, NoRank)]
DenseItems(hits, k) == [i \in 1 .. Min({k, Len(hits)}) |-> Item(hits[i], NoRank, i)]

(* The items made of distinct chunks of the scope are what a search finds. *)
LEMMA HitsAre ==
    ASSUME NEW c, NEW filters, NEW k \in Nat, NEW hits \in Seq(DOMAIN c.doc),
           \A i, j \in DOMAIN hits : hits[i] = hits[j] => i = j,
           \A i \in DOMAIN hits : Passes(c, hits[i], filters)
    PROVE  /\ IsFound(LexicalItems(hits, k), c, filters, k)
           /\ IsFound(DenseItems(hits, k), c, filters, k)
<1> DEFINE m == Min({k, Len(hits)})
<1>1. m \in Nat /\ m <= k /\ m <= Len(hits)
  <2>1. Len(hits) \in Nat
    OBVIOUS
  <2>2. \A x, y \in Int : Min({x, y}) \in {x, y} /\ Min({x, y}) <= x /\ Min({x, y}) <= y
    BY MinOfTwo
  <2>3. m \in {k, Len(hits)} /\ m <= k /\ m <= Len(hits)
    <3>1. k \in Int /\ Len(hits) \in Int
      BY <2>1
    <3> QED BY <2>2, <3>1
  <2> HIDE DEF m
  <2> QED BY <2>1, <2>3
<1> HIDE DEF m
<1>2. \A i \in 1 .. m : i \in DOMAIN hits /\ i \in Nat
  BY <1>1
<1>3. \A i \in 1 .. m : hits[i] \in DOMAIN c.doc
  BY <1>2
<1>4. ASSUME NEW f, f = [i \in 1 .. m |-> Item(hits[i], i, NoRank)] \/
                    f = [i \in 1 .. m |-> Item(hits[i], NoRank, i)]
      PROVE  IsFound(f, c, filters, k)
  <2>1. /\ DOMAIN f = 1 .. m
        /\ \A i \in 1 .. m : f[i] \in Hit(c) /\ f[i].chunk = hits[i]
    <3>1. CASE f = [i \in 1 .. m |-> Item(hits[i], i, NoRank)]
      BY <1>2, <1>3, <3>1 DEF Hit, Item, NoRank
    <3>2. CASE f = [i \in 1 .. m |-> Item(hits[i], NoRank, i)]
      BY <1>2, <1>3, <3>2 DEF Hit, Item, NoRank
    <3> QED BY <1>4, <3>1, <3>2
  <2>2. f = [i \in 1 .. m |-> f[i]]
    BY <1>4
  <2>3. f \in Seq(Hit(c)) /\ Len(f) = m
    BY <1>1, <2>1, <2>2
  <2>4. \A i, j \in DOMAIN f : f[i].chunk = f[j].chunk => i = j
    BY <1>2, <2>1
  <2>5. \A i \in DOMAIN f : Passes(c, f[i].chunk, filters)
    BY <1>2, <2>1
  <2> QED BY <1>1, <2>3, <2>4, <2>5 DEF IsFound
<1> QED BY <1>4 DEF m, LexicalItems, DenseItems

(* The lexical arm. *)
LEMMA LexicalFinds ==
    ASSUME NEW c, IsCorpus(c), NEW query, IsScored(c, query), NEW k \in Nat, NEW filters
    PROVE  IsFound(Bm25Search(c, query, k, filters), c, filters, k)
<1> DEFINE score == c.lexical[query]
           S == {x \in DOMAIN c.doc : score[x] > 0 /\ Passes(c, x, filters)}
           hits == Ranked(S, score)
<1>1. IsFiniteSet(S) /\ S \subseteq Int
  <2>1. S \in SUBSET DOMAIN c.doc
    OBVIOUS
  <2> HIDE DEF S
  <2> QED BY <2>1, CorpusIs, FS_Subset
<1>2. \A x \in S : score[x] \in Int
  BY DEF IsScored
<1>3. /\ hits \in Seq(S)
      /\ \A i, j \in DOMAIN hits : hits[i] = hits[j] => i = j
  <2> HIDE DEF S, score
  <2> QED BY <1>1, <1>2, RankedIs
<1>4. hits \in Seq(DOMAIN c.doc) /\ \A i \in DOMAIN hits : Passes(c, hits[i], filters)
  <2>1. \A i \in DOMAIN hits : hits[i] \in S
    <3> HIDE DEF hits, S
    <3> QED BY <1>3
  <2>2. S \subseteq DOMAIN c.doc /\ \A x \in S : Passes(c, x, filters)
    OBVIOUS
  <2> HIDE DEF hits, S
  <2> QED BY <1>3, <2>1, <2>2
<1>5. Bm25Search(c, query, k, filters) = LexicalItems(hits, k)
  BY DEF Bm25Search, LexicalItems
<1> HIDE DEF hits
<1>6. IsFound(LexicalItems(hits, k), c, filters, k)
  BY <1>3, <1>4, HitsAre
<1> QED BY <1>5, <1>6

(* A product of natural numbers is one, and so is the larger of two. *)
LEMMA SizesAreNat ==
    /\ \A x, y \in Nat : x * y \in Nat
    /\ \A x, y \in Nat : Max({x, y}) \in Nat /\ Min({x, y}) \in Nat
<1>1. \A x, y \in Nat : x * y \in Nat
  OBVIOUS
<1>2. ASSUME NEW x \in Nat, NEW y \in Nat PROVE Max({x, y}) \in Nat
  <2>1. \E z \in {x, y} : \A w \in {x, y} : z >= w
    OBVIOUS
  <2>2. Max({x, y}) \in {x, y}
    BY <2>1 DEF Max
  <2> QED BY <2>2
<1>3. ASSUME NEW x \in Nat, NEW y \in Nat PROVE Min({x, y}) \in Nat
  <2>1. Min({x, y}) \in {x, y}
    BY MinOfTwo
  <2> QED BY <2>1
<1> QED BY <1>1, <1>2, <1>3

(* The arms tell the ranks of their hits. *)
LEMMA ArmsTellRanks ==
    ASSUME NEW hits, NEW k \in Nat, Len(hits) \in Nat
    PROVE  /\ \A i \in DOMAIN LexicalItems(hits, k) :
                LexicalItems(hits, k)[i].bm25_rank = i
                /\ LexicalItems(hits, k)[i].dense_rank = NoRank
           /\ \A i \in DOMAIN DenseItems(hits, k) :
                DenseItems(hits, k)[i].dense_rank = i
                /\ DenseItems(hits, k)[i].bm25_rank = NoRank
BY DEF LexicalItems, DenseItems, Item

(* The dense arm: what passes the filters of what was fetched. *)
LEMMA DenseFinds ==
    ASSUME NEW c, IsCorpus(c), NEW query, IsScored(c, query), NEW k \in Nat, NEW filters
    PROVE  /\ IsFound(DenseSearch(c, query, k, filters), c, filters, k)
           /\ \A i \in DOMAIN DenseSearch(c, query, k, filters) :
                /\ DenseSearch(c, query, k, filters)[i].dense_rank = i
                /\ DenseSearch(c, query, k, filters)[i].bm25_rank = NoRank
<1> DEFINE fetch == IF filters = Unfiltered THEN k
                    ELSE Min({Len(c.doc), Max({k * OverFetch, MinFetch})})
           ranked == Ranked(DOMAIN c.doc, c.embedding[query])
           fetched == Take(ranked, fetch)
           P == {i \in DOMAIN fetched : Passes(c, fetched[i], filters)}
           hits == ElementsAt(fetched, P)
<1>1. fetch \in Nat
  <2>1. OverFetch \in Nat /\ MinFetch \in Nat /\ Len(c.doc) \in Nat
    BY CorpusIs, RetrievalAssumption DEF RetrievalAssumption
  <2>2. Max({k * OverFetch, MinFetch}) \in Nat
    BY <2>1, SizesAreNat
  <2> QED BY <2>1, <2>2, SizesAreNat
<1>2. /\ ranked \in Seq(DOMAIN c.doc)
      /\ \A i, j \in DOMAIN ranked : ranked[i] = ranked[j] => i = j
  <2>1. \A x \in DOMAIN c.doc : c.embedding[query][x] \in Int
    BY DEF IsScored
  <2> QED BY <2>1, CorpusIs, RankedIs
<1>3. /\ fetched \in Seq(DOMAIN c.doc) /\ DOMAIN fetched \subseteq DOMAIN ranked
      /\ \A i \in DOMAIN fetched : fetched[i] = ranked[i]
  <2> HIDE DEF ranked, fetch
  <2> QED BY <1>1, <1>2, TakeIs
<1>4. \A i, j \in DOMAIN fetched : fetched[i] = fetched[j] => i = j
  <2> HIDE DEF ranked, fetched
  <2> QED BY <1>2, <1>3
<1>5. PICK order : IsPicked(order, fetched, P)
  <2>1. P \in SUBSET DOMAIN fetched
    OBVIOUS
  <2> HIDE DEF fetched, P
  <2> QED BY <1>3, <2>1, ElementsAre
<1>6. ASSUME NEW n \in 1 .. Cardinality(P)
      PROVE  /\ order[n] \in P /\ order[n] \in DOMAIN fetched /\ order[n] \in Int
             /\ hits[n] \in DOMAIN c.doc /\ Passes(c, hits[n], filters)
  <2>1. order[n] \in P /\ hits[n] = fetched[order[n]]
    <3> HIDE DEF P, fetched
    <3> QED BY <1>5 DEF IsPicked
  <2>2. order[n] \in DOMAIN fetched /\ Passes(c, fetched[order[n]], filters)
    BY <2>1
  <2>3. DOMAIN fetched \subseteq Int
    <3> HIDE DEF fetched
    <3> QED BY <1>3
  <2> HIDE DEF fetched, P, hits
  <2> QED BY <1>3, <2>1, <2>2, <2>3
<1>7. hits \in Seq(DOMAIN c.doc) /\ DOMAIN hits = 1 .. Cardinality(P)
  <2>1. P \in SUBSET DOMAIN fetched
    OBVIOUS
  <2> HIDE DEF fetched, P
  <2> QED BY <1>3, <2>1, ElementsAre
<1>8. \A i, j \in DOMAIN hits : hits[i] = hits[j] => i = j
  <2> SUFFICES ASSUME NEW i \in DOMAIN hits, NEW j \in DOMAIN hits, hits[i] = hits[j]
               PROVE  i = j
    OBVIOUS
  <2> HIDE DEF P, fetched
  <2>1. hits[i] = fetched[order[i]] /\ hits[j] = fetched[order[j]]
    BY <1>5, <1>7 DEF IsPicked
  <2> HIDE DEF hits
  <2>2. order[i] = order[j] /\ order[i] \in Int
    BY <1>4, <1>6, <1>7, <2>1
  <2>3. ~ (i < j) /\ ~ (j < i)
    BY <1>5, <1>7, <2>2 DEF IsPicked
  <2> QED BY <1>7, <2>3
<1>9. DenseSearch(c, query, k, filters) = DenseItems(hits, k)
  BY DEF DenseSearch, DenseItems
<1>10. \A i \in DOMAIN hits : Passes(c, hits[i], filters)
  <2> HIDE DEF P, hits, fetched
  <2> QED BY <1>6, <1>7
<1> HIDE DEF hits
<1>11. IsFound(DenseItems(hits, k), c, filters, k)
  BY <1>7, <1>8, <1>10, HitsAre
<1>12. Len(hits) \in Nat
  BY <1>7
<1>13. \A i \in DOMAIN DenseItems(hits, k) :
         DenseItems(hits, k)[i].dense_rank = i /\ DenseItems(hits, k)[i].bm25_rank = NoRank
  BY <1>12, ArmsTellRanks
<1> QED BY <1>9, <1>11, <1>13

(* The best score of some numbers is the score of one of them. *)
LEMMA BestIsOne ==
    ASSUME NEW W, IsFiniteSet(W), W \subseteq Int, W # {}, NEW score,
           \A v \in W : score[v] \in Int
    PROVE  Max({score[v] : v \in W}) \in Int
<1> DEFINE first == Ranked(W, score)[1]
<1>1. /\ Ranked(W, score) \in Seq(W) /\ DOMAIN Ranked(W, score) = 1 .. Cardinality(W)
      /\ Cardinality(W) \in Nat
      /\ \A x \in W : \E n \in DOMAIN Ranked(W, score) : Ranked(W, score)[n] = x
      /\ \A m, n \in DOMAIN Ranked(W, score) :
           m < n => score[Ranked(W, score)[m]] >= score[Ranked(W, score)[n]]
  <2>1. /\ Ranked(W, score) \in Seq(W) /\ DOMAIN Ranked(W, score) = 1 .. Cardinality(W)
        /\ Cardinality(W) \in Nat
    BY RankedIs
  <2>2. \A x \in W : \E n \in DOMAIN Ranked(W, score) : Ranked(W, score)[n] = x
    BY RankedIs
  <2>3. \A m, n \in DOMAIN Ranked(W, score) :
          m < n => score[Ranked(W, score)[m]] >= score[Ranked(W, score)[n]]
    BY RankedIs
  <2> QED BY <2>1, <2>2, <2>3
<1>2. 1 \in DOMAIN Ranked(W, score) /\ first \in W
  <2>1. PICK n \in 1 .. Cardinality(W) : TRUE
    BY <1>1
  <2>2. 1 \in 1 .. Cardinality(W)
    BY <1>1, <2>1
  <2> QED BY <1>1, <2>2
<1>3. \A x \in W : score[first] >= score[x]
  <2> TAKE x \in W
  <2>1. PICK n \in DOMAIN Ranked(W, score) : Ranked(W, score)[n] = x
    BY <1>1
  <2>2. CASE n = 1
    BY <1>2, <2>1, <2>2
  <2>3. CASE n # 1
    <3>1. 1 < n
      BY <1>1, <2>3
    <3> QED BY <1>1, <1>2, <2>1, <3>1
  <2> QED BY <2>2, <2>3
<1> HIDE DEF first
<1>4. \E z \in {score[v] : v \in W} : \A y \in {score[v] : v \in W} : z >= y
  BY <1>2, <1>3
<1>5. Max({score[v] : v \in W}) \in {score[v] : v \in W}
  BY <1>4 DEF Max
<1> QED BY <1>5

(* The chunks of the scope that have a window, and the best window of each. *)
WindowScope(c, filters) == {x \in Range(c.windows) : Passes(c, x, filters)}
WindowBest(c, query) ==
    [x \in Range(c.windows) |->
       Max({c.window[query][v] : v \in {w \in DOMAIN c.windows : c.windows[w] = x}})]
WindowsRanked(c, query, filters) == Ranked(WindowScope(c, filters), WindowBest(c, query))

(* All of a sequence. *)
LEMMA TakeAll ==
    ASSUME NEW X, NEW s \in Seq(X)
    PROVE  Take(s, Len(s)) = s
<1>1. Len(s) \in Nat /\ s = [i \in 1 .. Len(s) |-> s[i]]
  OBVIOUS
<1>2. \A x, y \in Int : x <= y => Min({x, y}) = x
  BY MinOfTwo
<1>3. Min({Len(s), Len(s)}) = Len(s)
  <2>1. \A x \in Int : Min({x, x}) = x
    BY DEF Min
  <2>2. Len(s) \in Int
    BY <1>1
  <2> QED BY <2>1, <2>2, Zenon
<1> QED BY <1>1, <1>3 DEF Take

(* The windowed arm: the best of all chunks that have a window in the scope. *)
LEMMA WindowedIs ==
    ASSUME NEW c, IsCorpus(c), NEW query, IsScored(c, query), NEW k \in Nat, NEW filters
    PROVE  /\ WindowedSearch(c, query, k, filters)
                = DenseItems(WindowsRanked(c, query, filters), k)
           /\ IsFiniteSet(WindowScope(c, filters)) /\ WindowScope(c, filters) \subseteq DOMAIN c.doc
           /\ \A x \in WindowScope(c, filters) : WindowBest(c, query)[x] \in Int
<1> DEFINE scope == WindowScope(c, filters)
           best == WindowBest(c, query)
           group(x) == {w \in DOMAIN c.windows : c.windows[w] = x}
           ranked == Ranked(DOMAIN c.windows, c.window[query])
           ordered == Take(ranked, WindowsFetched(c, k))
           seen == {c.windows[v] : v \in Range(ordered)}
           own(x) == {w \in Range(ordered) : c.windows[w] = x}
           bestSeen == [x \in seen |-> Max({c.window[query][v] : v \in own(x)})]
<1>1. /\ Len(c.windows) \in Nat /\ DOMAIN c.windows = 1 .. Len(c.windows)
      /\ IsFiniteSet(DOMAIN c.windows) /\ DOMAIN c.windows \subseteq Int
      /\ Cardinality(DOMAIN c.windows) = Len(c.windows)
      /\ \A v \in DOMAIN c.windows : c.windows[v] \in DOMAIN c.doc
      /\ IsFiniteSet(DOMAIN c.doc)
  BY CorpusIs
<1>2. \A v \in DOMAIN c.windows : c.window[query][v] \in Int
  BY DEF IsScored
<1>3. /\ ranked \in Seq(DOMAIN c.windows) /\ DOMAIN ranked = DOMAIN c.windows
      /\ Len(ranked) = Len(c.windows)
      /\ \A x \in DOMAIN c.windows : \E n \in DOMAIN ranked : ranked[n] = x
  BY <1>1, <1>2, RankedIs
<1>4. Range(ordered) = DOMAIN c.windows
  <2> HIDE DEF ranked
  <2>1. ordered = ranked
    BY <1>3, TakeAll DEF WindowsFetched
  <2>2. Range(ranked) \subseteq DOMAIN c.windows
    BY <1>3 DEF Range
  <2>3. \A x \in DOMAIN c.windows : x \in Range(ranked)
    BY <1>3 DEF Range
  <2> HIDE DEF ordered
  <2> QED BY <2>1, <2>2, <2>3
<1>5. seen = Range(c.windows) /\ \A x : own(x) = group(x)
  <2> HIDE DEF ordered
  <2> QED BY <1>4 DEF Range
<1>6. bestSeen = best
  <2>1. \A x : {c.window[query][v] : v \in own(x)} = {c.window[query][v] : v \in group(x)}
    BY <1>5
  <2>2. best = [x \in Range(c.windows) |-> Max({c.window[query][v] : v \in group(x)})]
    BY DEF WindowBest
  <2> HIDE DEF own, group, seen, best
  <2> QED BY <1>5, <2>1, <2>2
<1>7. {x \in seen : Passes(c, x, filters)} = scope
  <2> HIDE DEF seen
  <2> QED BY <1>5 DEF WindowScope
<1>8. WindowedSearch(c, query, k, filters) = DenseItems(Ranked(scope, best), k)
  <2>1. WindowedSearch(c, query, k, filters)
          = DenseItems(Ranked({x \in seen : Passes(c, x, filters)}, bestSeen), k)
    BY DEF WindowedSearch, DenseItems
  <2> HIDE DEF seen, bestSeen, scope, best
  <2> QED BY <1>6, <1>7, <2>1
<1>9. scope \subseteq DOMAIN c.doc /\ IsFiniteSet(scope)
  <2>1. scope \in SUBSET DOMAIN c.doc
    BY <1>1 DEF Range, WindowScope
  <2> HIDE DEF scope
  <2> QED BY <1>1, <2>1, FS_Subset
<1>10. ASSUME NEW x \in scope PROVE best[x] \in Int
  <2>1. x \in Range(c.windows)
    BY DEF WindowScope
  <2>2. group(x) \in SUBSET DOMAIN c.windows /\ group(x) # {}
    BY <2>1 DEF Range
  <2>3. IsFiniteSet(group(x)) /\ group(x) \subseteq Int
    <3> HIDE DEF group
    <3> QED BY <1>1, <2>2, FS_Subset
  <2>4. \A v \in group(x) : c.window[query][v] \in Int
    BY <1>2
  <2>5. Max({c.window[query][v] : v \in group(x)}) \in Int
    <3> HIDE DEF group
    <3> QED BY <2>2, <2>3, <2>4, BestIsOne
  <2> QED BY <2>1, <2>5 DEF WindowBest
<1> QED BY <1>8, <1>9, <1>10 DEF WindowsRanked

(* The windowed search finds chunks of the scope. *)
LEMMA WindowedFinds ==
    ASSUME NEW c, IsCorpus(c), NEW query, IsScored(c, query), NEW k \in Nat, NEW filters
    PROVE  IsFound(WindowedSearch(c, query, k, filters), c, filters, k)
<1> DEFINE scope == WindowScope(c, filters)
           best == WindowBest(c, query)
           hits == WindowsRanked(c, query, filters)
<1>1. /\ WindowedSearch(c, query, k, filters)
           = DenseItems(hits, k)
      /\ IsFiniteSet(scope) /\ scope \subseteq DOMAIN c.doc
      /\ \A x \in scope : best[x] \in Int
  BY WindowedIs
<1>2. hits \in Seq(scope) /\ \A i, j \in DOMAIN hits : hits[i] = hits[j] => i = j
  <2>1. scope \subseteq Int
    <3> HIDE DEF scope
    <3> QED BY <1>1, CorpusIs
  <2> QED BY <1>1, <2>1, RankedIs DEF WindowsRanked
<1>3. \A x \in scope : Passes(c, x, filters)
  BY DEF WindowScope
<1> HIDE DEF hits, scope
<1>4. hits \in Seq(DOMAIN c.doc) /\ \A i \in DOMAIN hits : Passes(c, hits[i], filters)
  BY <1>1, <1>2, <1>3
<1>5. IsFound(DenseItems(hits, k), c, filters, k)
  BY <1>2, <1>4, HitsAre
<1> QED BY <1>1, <1>5

(* A windowed search returns the best chunks of its scope. *)
LEMMA WindowsExhausted ==
    ASSUME NEW c, IsCorpus(c), NEW r, IsScored(c, r.query), r.top_k \in Nat
    PROVE  WindowsAreExhaustive(c, r, WindowedSearch(c, r.query, r.top_k, r.filters))
<1> DEFINE scope == WindowScope(c, r.filters)
           whole == WindowBest(c, r.query)
           best == [x \in scope |-> Max({c.window[r.query][v] :
                                         v \in {w \in DOMAIN c.windows : c.windows[w] = x}})]
           hits == WindowsRanked(c, r.query, r.filters)
           found == WindowedSearch(c, r.query, r.top_k, r.filters)
           m == Min({r.top_k, Len(hits)})
<1>1. /\ found = DenseItems(hits, r.top_k)
      /\ IsFiniteSet(scope) /\ scope \subseteq DOMAIN c.doc
      /\ \A x \in scope : whole[x] \in Int
  BY WindowedIs
<1>2. \A x \in scope : best[x] = whole[x]
  BY DEF WindowScope, WindowBest
<1>3. /\ hits \in Seq(scope) /\ Len(hits) = Cardinality(scope) /\ Cardinality(scope) \in Nat
      /\ DOMAIN hits = 1 .. Cardinality(scope)
      /\ \A x \in scope : \E n \in DOMAIN hits : hits[n] = x
      /\ \A i, j \in DOMAIN hits : i < j => whole[hits[i]] >= whole[hits[j]]
  <2>1. scope \subseteq Int
    <3> HIDE DEF scope
    <3> QED BY <1>1, CorpusIs
  <2> QED BY <1>1, <2>1, RankedIs DEF WindowsRanked
<1> HIDE DEF hits, scope, whole, best, found
<1>4. m \in Nat /\ m <= Len(hits) /\ m = Min({r.top_k, Cardinality(scope)})
  <2>1. r.top_k \in Int /\ Len(hits) \in Int /\ m \in Nat
    <3>1. r.top_k \in Nat /\ Len(hits) \in Nat
      BY <1>3
    <3>2. Min({r.top_k, Len(hits)}) \in Nat
      BY <3>1, SizesAreNat, Zenon
    <3> QED BY <3>1, <3>2
  <2>2. \A x, y \in Int : Min({x, y}) <= y
    BY MinOfTwo
  <2> QED BY <1>3, <2>1, <2>2
<1>9. found = [i \in 1 .. m |-> Item(hits[i], NoRank, i)]
  BY <1>1 DEF DenseItems
<1> HIDE DEF m
<1>5. DOMAIN found = 1 .. m /\ \A i \in 1 .. m : found[i].chunk = hits[i]
  BY <1>9 DEF Item
<1>6. Len(found) = Min({r.top_k, Cardinality(scope)})
  <2>1. Len(found) = m
    BY <1>9, <1>4
  <2> QED BY <1>4, <2>1
<1>7. ASSUME NEW x \in ChunksOf(found), NEW y \in scope \ ChunksOf(found)
      PROVE  best[y] <= best[x]
  <2>1. PICK i \in 1 .. m : x = hits[i]
    BY <1>5 DEF ChunksOf
  <2>2. PICK j \in DOMAIN hits : y = hits[j]
    BY <1>3
  <2>3. j \notin 1 .. m
    BY <1>5, <2>2 DEF ChunksOf
  <2>4. i \in DOMAIN hits /\ i < j /\ x \in scope
    BY <1>3, <1>4, <2>1, <2>3
  <2>5. whole[x] >= whole[y] /\ whole[x] \in Int /\ whole[y] \in Int
    BY <1>1, <1>3, <2>1, <2>2, <2>4
  <2> QED BY <1>2, <2>4, <2>5
<1>8. WindowsAreExhaustive(c, r, found)
        <=> /\ Len(found) = Min({r.top_k, Cardinality(scope)})
            /\ \A x \in ChunksOf(found), y \in scope \ ChunksOf(found) : best[y] <= best[x]
  BY DEF WindowsAreExhaustive, scope, best, WindowScope
<1> QED BY <1>6, <1>7, <1>8 DEF found

Fraction == [num : Nat, den : Nat \ {0}]

(* Products keep an order and reflect it. *)
LEMMA TimesKeepsOrder ==
    ASSUME NEW x \in Int, NEW y \in Int, NEW z \in Nat
    PROVE  /\ x * z \in Int /\ y * z \in Int
           /\ x <= y => x * z <= y * z
           /\ x * z < y * z => x < y
<1>1. x <= y => x * z <= y * z
  <2>1. ASSUME x <= y PROVE (y - x) * z >= 0
    <3>1. y - x \in Nat
      BY <2>1
    <3>2. \A m, n \in Nat : m * n >= 0
      OBVIOUS
    <3> QED BY <3>1, <3>2
  <2>2. (y - x) * z = y * z - x * z
    OBVIOUS
  <2> QED BY <2>1, <2>2
<1>2. x * z < y * z => x < y
  <2>1. ASSUME y <= x PROVE y * z <= x * z
    <3>1. x - y \in Nat
      BY <2>1
    <3>2. \A m, n \in Nat : m * n >= 0
      OBVIOUS
    <3>3. (x - y) * z >= 0
      BY <3>1, <3>2
    <3>4. (x - y) * z = x * z - y * z
      OBVIOUS
    <3> QED BY <3>3, <3>4
  <2> QED BY <2>1
<1> QED BY <1>1, <1>2

(* Higher compares fractions as numbers are compared. *)
LEMMA HigherOrders ==
    /\ \A p, q \in Fraction : Higher(p, q) => ~ Higher(q, p)
    /\ \A p, q, s \in Fraction : ~ Higher(p, q) /\ ~ Higher(q, s) => ~ Higher(p, s)
<1>1. ASSUME NEW p \in Fraction, NEW q \in Fraction, Higher(p, q), Higher(q, p) PROVE FALSE
  <2>1. p.num * q.den \in Int /\ q.num * p.den \in Int
    BY DEF Fraction
  <2> QED BY <1>1, <2>1 DEF Higher
<1>2. ASSUME NEW p \in Fraction, NEW q \in Fraction, NEW s \in Fraction,
             ~ Higher(p, q), ~ Higher(q, s)
      PROVE  ~ Higher(p, s)
  <2>1. /\ p.num \in Nat /\ q.num \in Nat /\ s.num \in Nat
        /\ p.den \in Nat /\ q.den \in Nat /\ s.den \in Nat
        /\ p.den > 0 /\ q.den > 0 /\ s.den > 0
    BY DEF Fraction
  <2>2. \A x, y \in Nat : x * y \in Nat
    OBVIOUS
  <2>3. /\ p.num * q.den \in Nat /\ q.num * p.den \in Nat
        /\ q.num * s.den \in Nat /\ s.num * q.den \in Nat
        /\ p.num * s.den \in Nat /\ s.num * p.den \in Nat
    BY <2>1, <2>2
  <2>4. p.num * q.den <= q.num * p.den /\ q.num * s.den <= s.num * q.den
    BY <1>2, <2>3 DEF Higher
  <2>5. (p.num * q.den) * s.den <= (q.num * p.den) * s.den
    BY <2>1, <2>3, <2>4, TimesKeepsOrder
  <2>6. (q.num * s.den) * p.den <= (s.num * q.den) * p.den
    BY <2>1, <2>3, <2>4, TimesKeepsOrder
  <2>7. \A x, y, z \in Nat : (x * y) * z = (x * z) * y /\ (x * y) * z \in Nat
    OBVIOUS
  <2>8. /\ (p.num * q.den) * s.den = (p.num * s.den) * q.den
        /\ (q.num * p.den) * s.den = (q.num * s.den) * p.den
        /\ (s.num * q.den) * p.den = (s.num * p.den) * q.den
        /\ (p.num * s.den) * q.den \in Nat /\ (q.num * s.den) * p.den \in Nat
        /\ (s.num * p.den) * q.den \in Nat
    BY <2>1, <2>7
  <2>9. ~ ((s.num * p.den) * q.den < (p.num * s.den) * q.den)
    BY <2>5, <2>6, <2>8
  <2>10. ASSUME s.num * p.den < p.num * s.den PROVE FALSE
    <3>1. (s.num * p.den) * q.den # (p.num * s.den) * q.den
      <4>1. \A x, y \in Nat, z \in Nat \ {0} : x * z = y * z => x = y
        <5>1. \A x, y \in Nat, z \in Nat \ {0} : x * z = y * z => (x - y) * z = 0
          OBVIOUS
        <5>2. \A x \in Int, z \in Nat \ {0} : x * z = 0 => x = 0
          OBVIOUS
        <5> QED BY <5>1, <5>2
      <4>2. q.den \in Nat \ {0}
        BY <2>1
      <4> QED BY <2>3, <2>10, <4>1, <4>2
    <3>2. (s.num * p.den) * q.den <= (p.num * s.den) * q.den
      BY <2>1, <2>3, <2>10, TimesKeepsOrder
    <3> QED BY <2>8, <2>9, <3>1, <3>2
  <2> QED BY <2>3, <2>10 DEF Higher
<1> QED BY <1>1, <1>2

(* Numbers by descending fraction, then by number. *)
FractionOrder(S, score) ==
    InOrder([x \in S |-> {y \in S : \/ Higher(score[y], score[x])
                                    \/ ~ Higher(score[x], score[y]) /\ y < x}])

(* order lists S so. *)
IsByFraction(order, S, score) ==
    /\ order \in Seq(S) /\ Len(order) = Cardinality(S) /\ Cardinality(S) \in Nat
    /\ DOMAIN order = 1 .. Cardinality(S)
    /\ \A x \in S : \E n \in DOMAIN order : order[n] = x
    /\ \A m, n \in DOMAIN order : order[m] = order[n] => m = n
    /\ \A m, n \in DOMAIN order : Higher(score[order[m]], score[order[n]]) => m < n

(* Numbers by descending fractions, then by number, are in order. *)
LEMMA FractionsOrdered ==
    ASSUME NEW S, IsFiniteSet(S), S \subseteq Int, NEW score,
           \A x \in S : score[x] \in Fraction
    PROVE  IsByFraction(FractionOrder(S, score), S, score)
<1> DEFINE h(x, y) == Higher(score[x], score[y])
           ahead == [x \in S |-> {y \in S : h(y, x) \/ (~ h(x, y) /\ y < x)}]
           order == FractionOrder(S, score)
<1>1. /\ \A x, y \in S : h(x, y) => ~ h(y, x)
      /\ \A x, y, z \in S : ~ h(x, y) /\ ~ h(y, z) => ~ h(x, z)
  BY HigherOrders
<1>2. order = InOrder(ahead)
  BY DEF FractionOrder
<1> HIDE DEF h
<1>3. IsOrder(ahead, S)
  <2>1. ahead \in [S -> SUBSET S]
    OBVIOUS
  <2>2. \A x, y \in S : y \in ahead[x] <=> h(y, x) \/ (~ h(x, y) /\ y < x)
    OBVIOUS
  <2> HIDE DEF ahead
  <2>3. \A x \in S : x \notin ahead[x]
    BY <1>1, <2>2
  <2>4. \A x, y \in S : x # y => x \in ahead[y] \/ y \in ahead[x]
    BY <1>1, <2>2
  <2>5. ASSUME NEW x \in S, NEW y \in S, y \in ahead[x], NEW z \in ahead[y]
        PROVE  z \in ahead[x]
    <3>1. z \in S /\ x \in Int /\ y \in Int /\ z \in Int
      BY <2>1
    <3>2. (h(y, x) \/ (~ h(x, y) /\ y < x)) /\ (h(z, y) \/ (~ h(y, z) /\ z < y))
      BY <2>2, <2>5, <3>1
    <3>3. ~ h(x, y) /\ ~ h(y, z)
      BY <1>1, <3>1, <3>2
    <3>4. CASE h(z, x)
      BY <2>2, <3>1, <3>4
    <3>5. CASE ~ h(z, x)
      <4>1. ~ h(z, y) /\ ~ h(y, x)
        BY <1>1, <3>1, <3>3, <3>5
      <4>2. y < x /\ z < y
        BY <3>2, <4>1
      <4>3. ~ h(x, z)
        BY <1>1, <3>1, <3>3
      <4> QED BY <2>2, <3>1, <4>2, <4>3
    <3> QED BY <3>4, <3>5
  <2> QED BY <2>1, <2>3, <2>4, <2>5 DEF IsOrder
<1>4. IsListed(order, ahead, S)
  BY <1>2, <1>3, InOrderIs
<1>5. ASSUME NEW m \in DOMAIN order, NEW n \in DOMAIN order, h(order[m], order[n])
      PROVE  m < n
  <2>1. order[m] \in S /\ order[n] \in S
    BY <1>4 DEF IsListed
  <2>2. order[m] \in ahead[order[n]]
    BY <1>5, <2>1
  <2> QED BY <1>4, <2>2 DEF IsListed
<1> HIDE DEF ahead, order
<1>6. /\ order \in Seq(S) /\ Len(order) = Cardinality(S) /\ Cardinality(S) \in Nat
      /\ DOMAIN order = 1 .. Cardinality(S)
      /\ \A x \in S : \E n \in DOMAIN order : order[n] = x
      /\ \A m, n \in DOMAIN order : order[m] = order[n] => m = n
  BY <1>4 DEF IsListed
<1> QED BY <1>5, <1>6 DEF order, h, IsByFraction

(* The rank of a chunk is its one place in a list. *)
LEMMA RankIs ==
    ASSUME NEW c, NEW filters, NEW k, NEW list, IsFound(list, c, filters, k)
    PROVE  /\ Len(list) \in Nat /\ DOMAIN list = 1 .. Len(list)
           /\ \A i \in DOMAIN list : list[i] \in Hit(c) /\ RankIn(list, list[i].chunk) = i
           /\ \A x \in ChunksOf(list) : RankIn(list, x) \in DOMAIN list
                                        /\ list[RankIn(list, x)].chunk = x
           /\ ChunksOf(list) \subseteq DOMAIN c.doc
           /\ \A x \in ChunksOf(list) : Passes(c, x, filters)
<1>1. /\ Len(list) \in Nat /\ DOMAIN list = 1 .. Len(list)
      /\ \A i \in DOMAIN list : list[i] \in Hit(c)
      /\ \A i, j \in DOMAIN list : list[i].chunk = list[j].chunk => i = j
      /\ \A i \in DOMAIN list : Passes(c, list[i].chunk, filters)
  BY DEF IsFound
<1>2. \A x \in ChunksOf(list) : \E i \in DOMAIN list : list[i].chunk = x
  BY DEF ChunksOf
<1>3. \A x \in ChunksOf(list) : RankIn(list, x) \in DOMAIN list
                                /\ list[RankIn(list, x)].chunk = x
  BY <1>2 DEF RankIn
<1>4. \A i \in DOMAIN list : list[i].chunk \in ChunksOf(list)
  BY DEF ChunksOf
<1>5. \A i \in DOMAIN list : RankIn(list, list[i].chunk) = i
  BY <1>1, <1>3, <1>4
<1>6. \A x \in ChunksOf(list) : x \in DOMAIN c.doc /\ Passes(c, x, filters)
  BY <1>1, <1>2 DEF Hit
<1> QED BY <1>1, <1>3, <1>5, <1>6

(* Scores are fractions, whichever list comes first. *)
LEMMA ScoresAre ==
    ASSUME NEW c, NEW filters, NEW k, NEW l, NEW a, NEW b,
           IsFound(a, c, filters, k), IsFound(b, c, filters, l), NEW x
    PROVE  /\ Share(a, x) \in Fraction /\ Share(b, x) \in Fraction
           /\ RrfScore(a, b, x) \in Fraction
           /\ RrfScore(a, b, x) = RrfScore(b, a, x)
<1>1. RrfK \in Nat
  BY RetrievalAssumption DEF RetrievalAssumption
<1>2. ASSUME NEW list, NEW n, IsFound(list, c, filters, n) PROVE Share(list, x) \in Fraction
  <2>1. CASE x \in ChunksOf(list)
    <3>1. RankIn(list, x) \in Nat /\ RankIn(list, x) >= 1
      BY <1>2, <2>1, RankIs
    <3>2. RrfK + RankIn(list, x) \in Nat \ {0}
      BY <1>1, <3>1
    <3> QED BY <2>1, <3>2 DEF Share, Fraction
  <2>2. CASE x \notin ChunksOf(list)
    BY <2>2 DEF Share, Fraction
  <2> QED BY <2>1, <2>2
<1>3. Share(a, x) \in Fraction /\ Share(b, x) \in Fraction
  BY <1>2
<1>4. ASSUME NEW p \in Fraction, NEW q \in Fraction
      PROVE  /\ p.num * q.den + q.num * p.den \in Nat /\ p.den * q.den \in Nat \ {0}
             /\ p.num * q.den + q.num * p.den = q.num * p.den + p.num * q.den
             /\ p.den * q.den = q.den * p.den
  <2>1. /\ p.num \in Nat /\ q.num \in Nat /\ p.den \in Nat \ {0} /\ q.den \in Nat \ {0}
    BY DEF Fraction
  <2>2. \A y, z \in Nat : y * z \in Nat /\ y * z = z * y
    OBVIOUS
  <2>3. \A y, z \in Nat \ {0} : y * z # 0
    OBVIOUS
  <2>4. p.num * q.den \in Nat /\ q.num * p.den \in Nat /\ p.den * q.den \in Nat \ {0}
    BY <2>1, <2>2, <2>3
  <2> QED BY <2>1, <2>2, <2>4
<1>5. RrfScore(a, b, x) \in Fraction /\ RrfScore(a, b, x) = RrfScore(b, a, x)
  BY <1>3, <1>4 DEF RrfScore, Fraction
<1> QED BY <1>3, <1>5

(* A fused item is of its chunk and has the ranks some list has for it. *)
LEMMA MergedIs ==
    ASSUME NEW c, NEW filters, NEW k, NEW l, NEW a, NEW b,
           IsFound(a, c, filters, k), IsFound(b, c, filters, l), NEW x \in DOMAIN c.doc
    PROVE  Merged(a, b, x) \in Hit(c) /\ Merged(a, b, x).chunk = x
<1> DEFINE found(list) == IF x \in ChunksOf(list) THEN list[RankIn(list, x)]
                          ELSE Item(x, NoRank, NoRank)
           first(n, m) == IF n # NoRank THEN n ELSE m
<1>1. ASSUME NEW list, NEW n, IsFound(list, c, filters, n) PROVE found(list) \in Hit(c)
  <2>1. CASE x \in ChunksOf(list)
    BY <1>1, <2>1, RankIs
  <2>2. CASE x \notin ChunksOf(list)
    BY <2>2 DEF Item, Hit, NoRank
  <2> QED BY <2>1, <2>2
<1>2. found(a) \in Hit(c) /\ found(b) \in Hit(c)
  BY <1>1
<1>3. Merged(a, b, x) = Item(x, first(found(a).bm25_rank, found(b).bm25_rank),
                                first(found(a).dense_rank, found(b).dense_rank))
  BY DEF Merged
<1> HIDE DEF found
<1> QED BY <1>2, <1>3 DEF Item, Hit

(* The order in which two lists are fused. *)
FusedOrder(a, b) ==
    FractionOrder(ChunksOf(a) \cup ChunksOf(b),
                  [x \in ChunksOf(a) \cup ChunksOf(b) |-> RrfScore(a, b, x)])

(* Fuse lists the chunks of both lists, each once, by their scores. *)
IsFusion(c, a, b) ==
    LET order == FusedOrder(a, b)
    IN  /\ order \in Seq(ChunksOf(a) \cup ChunksOf(b)) /\ Len(order) \in Nat
        /\ DOMAIN order = 1 .. Len(order)
        /\ ChunksOf(a) \cup ChunksOf(b) \subseteq DOMAIN c.doc
        /\ \A x \in ChunksOf(a) \cup ChunksOf(b) : \E n \in DOMAIN order : order[n] = x
        /\ \A m, n \in DOMAIN order : order[m] = order[n] => m = n
        /\ \A m, n \in DOMAIN order :
             Higher(RrfScore(a, b, order[m]), RrfScore(a, b, order[n])) => m < n
        /\ Fuse(a, b) \in Seq(Hit(c)) /\ Len(Fuse(a, b)) = Len(order)
        /\ DOMAIN Fuse(a, b) = DOMAIN order
        /\ \A n \in DOMAIN order : Fuse(a, b)[n] = Merged(a, b, order[n])

(* Two lists of hits are fused so. *)
LEMMA FusedOrderIs ==
    ASSUME NEW c, IsCorpus(c), NEW filters, NEW k, NEW l, NEW a, NEW b,
           IsFound(a, c, filters, k), IsFound(b, c, filters, l)
    PROVE  IsFusion(c, a, b)
<1> DEFINE S == ChunksOf(a) \cup ChunksOf(b)
           score == [x \in S |-> RrfScore(a, b, x)]
           order == FusedOrder(a, b)
<1>1. S \subseteq DOMAIN c.doc
  BY RankIs
<1>2. IsFiniteSet(S) /\ S \subseteq Int
  <2>1. S \in SUBSET DOMAIN c.doc
    BY <1>1
  <2> HIDE DEF S
  <2> QED BY <2>1, CorpusIs, FS_Subset
<1>3. \A x \in S : score[x] \in Fraction /\ score[x] = RrfScore(a, b, x)
  BY ScoresAre
<1>4. order = FractionOrder(S, score)
  BY DEF FusedOrder
<1>5. Fuse(a, b) = [n \in DOMAIN order |-> Merged(a, b, order[n])]
  BY <1>4 DEF Fuse, FractionOrder
<1> HIDE DEF S, score, order
<1>6. /\ order \in Seq(S) /\ Len(order) = Cardinality(S) /\ Cardinality(S) \in Nat
      /\ DOMAIN order = 1 .. Cardinality(S)
      /\ \A x \in S : \E n \in DOMAIN order : order[n] = x
      /\ \A m, n \in DOMAIN order : order[m] = order[n] => m = n
      /\ \A m, n \in DOMAIN order : Higher(score[order[m]], score[order[n]]) => m < n
  <2>1. \A x \in S : score[x] \in Fraction
    BY <1>3
  <2>2. IsByFraction(FractionOrder(S, score), S, score)
    BY <1>2, <2>1, FractionsOrdered
  <2> QED BY <1>4, <2>2 DEF IsByFraction
<1>7. ASSUME NEW m \in DOMAIN order, NEW n \in DOMAIN order,
             Higher(RrfScore(a, b, order[m]), RrfScore(a, b, order[n]))
      PROVE  m < n
  <2>1. order[m] \in S /\ order[n] \in S
    BY <1>6
  <2> QED BY <1>3, <1>6, <1>7, <2>1
<1>8. ASSUME NEW n \in DOMAIN order
      PROVE  Merged(a, b, order[n]) \in Hit(c)
  <2>1. order[n] \in DOMAIN c.doc
    BY <1>1, <1>6
  <2> QED BY <2>1, MergedIs
<1>9. /\ Fuse(a, b) \in Seq(Hit(c)) /\ Len(Fuse(a, b)) = Len(order)
      /\ DOMAIN Fuse(a, b) = DOMAIN order
      /\ \A n \in DOMAIN order : Fuse(a, b)[n] = Merged(a, b, order[n])
  BY <1>5, <1>6, <1>8
<1> QED BY <1>1, <1>6, <1>7, <1>9 DEF S, order, IsFusion

(* Fusing two lists of hits and cutting the result is one again. *)
LEMMA FusedFinds ==
    ASSUME NEW c, IsCorpus(c), NEW filters, NEW k, NEW l, NEW a, NEW b,
           IsFound(a, c, filters, k), IsFound(b, c, filters, l), NEW n \in Nat
    PROVE  /\ IsFound(Fuse(a, b), c, filters, Len(Fuse(a, b)))
           /\ IsFound(Take(Fuse(a, b), n), c, filters, n)
<1> DEFINE order == FusedOrder(a, b)
           fused == Fuse(a, b)
<1>1. /\ order \in Seq(ChunksOf(a) \cup ChunksOf(b)) /\ Len(order) \in Nat
      /\ DOMAIN order = 1 .. Len(order)
      /\ ChunksOf(a) \cup ChunksOf(b) \subseteq DOMAIN c.doc
      /\ \A i, j \in DOMAIN order : order[i] = order[j] => i = j
      /\ fused \in Seq(Hit(c)) /\ Len(fused) = Len(order) /\ DOMAIN fused = DOMAIN order
      /\ \A i \in DOMAIN order : fused[i] = Merged(a, b, order[i])
  <2>1. IsFusion(c, a, b)
    BY FusedOrderIs
  <2> QED BY <2>1 DEF IsFusion
<1>2. \A x \in ChunksOf(a) \cup ChunksOf(b) : Passes(c, x, filters)
  BY RankIs
<1> HIDE DEF order, fused
<1>3. ASSUME NEW i \in DOMAIN order
      PROVE  fused[i] \in Hit(c) /\ fused[i].chunk = order[i] /\ Passes(c, order[i], filters)
  <2>1. order[i] \in ChunksOf(a) \cup ChunksOf(b) /\ order[i] \in DOMAIN c.doc
    BY <1>1
  <2> QED BY <1>1, <1>2, <2>1, MergedIs
<1>4. IsFound(fused, c, filters, Len(fused))
  BY <1>1, <1>3 DEF IsFound
<1>5. IsFound(Take(fused, n), c, filters, n)
  <2>1. /\ Take(fused, n) \in Seq(Hit(c)) /\ Len(Take(fused, n)) <= n
        /\ DOMAIN Take(fused, n) \subseteq DOMAIN fused
        /\ \A i \in DOMAIN Take(fused, n) : Take(fused, n)[i] = fused[i]
    BY <1>1, TakeIs
  <2>2. ASSUME NEW i \in DOMAIN Take(fused, n)
        PROVE  /\ i \in DOMAIN order /\ Take(fused, n)[i].chunk = order[i]
               /\ Passes(c, Take(fused, n)[i].chunk, filters)
    BY <1>1, <1>3, <2>1
  <2>3. \A i, j \in DOMAIN Take(fused, n) :
          Take(fused, n)[i].chunk = Take(fused, n)[j].chunk => i = j
    BY <1>1, <2>2
  <2> QED BY <2>1, <2>2, <2>3 DEF IsFound
<1> QED BY <1>4, <1>5 DEF fused

(* Two ranks, with RrfK added, outweigh one that is not half of either. *)
LEMMA TwoRanksWin ==
    ASSUME NEW a \in Nat, NEW b \in Nat, NEW s \in Nat, a <= 2 * s - 1, b <= 2 * s - 1,
           a >= 1
    PROVE  a * b < (b + a) * s
<1>1. a * b <= a * (2 * s - 1) /\ b * a <= b * (2 * s - 1)
  <2>1. 2 * s - 1 \in Int
    OBVIOUS
  <2>2. \A x, y \in Int, z \in Nat : x <= y => x * z <= y * z
    BY TimesKeepsOrder
  <2>3. b * a <= (2 * s - 1) * a /\ a * b <= (2 * s - 1) * b
    BY <2>1, <2>2
  <2> QED BY <2>3
<1>2. /\ a * (2 * s - 1) = 2 * (a * s) - a /\ b * (2 * s - 1) = 2 * (b * s) - b
      /\ (b + a) * s = b * s + a * s /\ b * a = a * b
      /\ a * s \in Int /\ b * s \in Int /\ a * b \in Int
  OBVIOUS
<1> QED BY <1>1, <1>2

(* So does the better of two ranks alone, with any second one. *)
LEMMA BetterRankWins ==
    ASSUME NEW a \in Nat, NEW b \in Nat, NEW s \in Nat, a >= 1, b >= 1, s >= 1,
           a <= s \/ b <= s
    PROVE  a * b < (b + a) * s
<1>1. \A x, y \in Int, z \in Nat : x <= y => x * z <= y * z
  BY TimesKeepsOrder
<1>2. /\ a * s \in Int /\ b * s \in Int /\ a * b \in Int
      /\ (b + a) * s = b * s + a * s /\ a * b = b * a /\ s * b = b * s /\ s * a = a * s
  OBVIOUS
<1>3. a * s >= s /\ b * s >= s
  <2>1. 1 * s <= a * s /\ 1 * s <= b * s
    BY <1>1
  <2> QED BY <2>1
<1>4. a * b <= b * s \/ a * b <= a * s
  <2>1. a <= s => a * b <= s * b
    BY <1>1
  <2>2. b <= s => b * a <= s * a
    BY <1>1
  <2> QED BY <1>2, <2>1, <2>2
<1> QED BY <1>2, <1>3, <1>4

(* A chunk of both lists that outweighs a chunk of one scores higher. *)
LEMMA BothScoreHigher ==
    ASSUME NEW c, NEW filters, NEW k, NEW l, NEW a, NEW b,
           IsFound(a, c, filters, k), IsFound(b, c, filters, l),
           NEW x \in ChunksOf(a) \cap ChunksOf(b),
           NEW y \in (ChunksOf(a) \cup ChunksOf(b)) \ (ChunksOf(a) \cap ChunksOf(b)),
           Outweighs({a, b}, x, y)
    PROVE  Higher(RrfScore(a, b, x), RrfScore(a, b, y))
<1> DEFINE p == RrfK + RankIn(a, x)
           q == RrfK + RankIn(b, x)
           list == IF y \in ChunksOf(a) THEN a ELSE b
           s == RrfK + RankIn(list, y)
<1>1. RrfK \in Nat
  BY RetrievalAssumption DEF RetrievalAssumption
<1>2. ASSUME NEW f, NEW n, IsFound(f, c, filters, n), NEW z \in ChunksOf(f)
      PROVE  RankIn(f, z) \in Nat /\ RankIn(f, z) >= 1
  BY <1>2, RankIs
<1>3. /\ RankIn(a, x) \in Nat /\ RankIn(a, x) >= 1
      /\ RankIn(b, x) \in Nat /\ RankIn(b, x) >= 1
  BY <1>2
<1>4. RankIn(list, y) \in Nat /\ RankIn(list, y) >= 1
  BY <1>2
<1>5. /\ p \in Nat /\ q \in Nat /\ s \in Nat /\ p >= 1 /\ q >= 1 /\ s >= 1
  <2> HIDE DEF list
  <2> QED BY <1>1, <1>3, <1>4
<1>51. (p <= 2 * s - 1 /\ q <= 2 * s - 1) \/ p <= s \/ q <= s
  <2>1. RankIn(a, x) \in RanksOf({a, b}, x) /\ RankIn(b, x) \in RanksOf({a, b}, x)
    BY DEF RanksOf
  <2>2. RankIn(list, y) \in RanksOf({a, b}, y)
    <3>1. list \in {a, b} /\ y \in ChunksOf(list)
      OBVIOUS
    <3> HIDE DEF list
    <3> QED BY <3>1 DEF RanksOf
  <2>3. \A n \in RanksOf({a, b}, x) : n = RankIn(a, x) \/ n = RankIn(b, x)
    BY DEF RanksOf
  <2> HIDE DEF list
  <2>4. CASE \A n \in RanksOf({a, b}, x) : n <= RrfK + 1
    <3>1. RankIn(a, x) <= RrfK + 1 /\ RankIn(b, x) <= RrfK + 1
      BY <2>1, <2>4
    <3> QED BY <3>1, <1>1, <1>3, <1>4
  <2>5. CASE \E n \in RanksOf({a, b}, x) : \A m \in RanksOf({a, b}, y) : n <= m
    <3>1. RankIn(a, x) <= RankIn(list, y) \/ RankIn(b, x) <= RankIn(list, y)
      BY <2>2, <2>3, <2>5
    <3> QED BY <3>1, <1>1, <1>3, <1>4
  <2> QED BY <2>4, <2>5 DEF Outweighs
<1>6. RrfScore(a, b, x) = [num |-> 1 * q + 1 * p, den |-> p * q]
  BY DEF RrfScore, Share
<1>7. RrfScore(a, b, y).num = 1 /\ RrfScore(a, b, y).den = s
  <2>1. CASE y \in ChunksOf(a)
    <3>1. RrfScore(a, b, y) = [num |-> 1 * 1 + 0 * s, den |-> s * 1]
      BY <2>1 DEF RrfScore, Share
    <3> HIDE DEF s
    <3> QED BY <1>5, <3>1
  <2>2. CASE y \notin ChunksOf(a)
    <3>1. RrfScore(a, b, y) = [num |-> 0 * s + 1 * 1, den |-> 1 * s]
      BY <2>2 DEF RrfScore, Share
    <3> HIDE DEF s
    <3> QED BY <1>5, <3>1
  <2> QED BY <2>1, <2>2
<1> HIDE DEF p, q, s
<1>8. p * q < (q + p) * s
  BY <1>5, <1>51, TwoRanksWin, BetterRankWins
<1>9. RrfScore(a, b, x).num = q + p /\ RrfScore(a, b, x).den = p * q
  BY <1>5, <1>6
<1>10. 1 * (p * q) = p * q
  BY <1>5
<1> QED BY <1>5, <1>7, <1>8, <1>9, <1>10 DEF Higher

(* Which list is fused first makes no difference to lists of different arms. *)
LEMMA FusedEitherWay ==
    ASSUME NEW c, IsCorpus(c), NEW filters, NEW k, NEW l, NEW a, NEW b,
           IsFound(a, c, filters, k), IsFound(b, c, filters, l),
           \A i \in DOMAIN a : a[i].bm25_rank = i /\ a[i].dense_rank = NoRank,
           \A i \in DOMAIN b : b[i].dense_rank = i /\ b[i].bm25_rank = NoRank
    PROVE  /\ Fuse(a, b) = Fuse(b, a)
           /\ \A x \in ChunksOf(a) \cup ChunksOf(b) :
                /\ Merged(a, b, x).bm25_rank = IF x \in ChunksOf(a) THEN RankIn(a, x) ELSE NoRank
                /\ Merged(a, b, x).dense_rank = IF x \in ChunksOf(b) THEN RankIn(b, x) ELSE NoRank
<1>1. FusedOrder(a, b) = FusedOrder(b, a)
  <2>1. ChunksOf(a) \cup ChunksOf(b) = ChunksOf(b) \cup ChunksOf(a)
    OBVIOUS
  <2>2. \A x : RrfScore(a, b, x) = RrfScore(b, a, x)
    BY ScoresAre
  <2>3. [x \in ChunksOf(a) \cup ChunksOf(b) |-> RrfScore(a, b, x)]
          = [x \in ChunksOf(b) \cup ChunksOf(a) |-> RrfScore(b, a, x)]
    BY <2>1, <2>2
  <2> QED BY <2>1, <2>3 DEF FusedOrder
<1>2. ASSUME NEW x \in ChunksOf(a) \cup ChunksOf(b)
      PROVE  LET m == IF x \in ChunksOf(a) THEN RankIn(a, x) ELSE NoRank
                 n == IF x \in ChunksOf(b) THEN RankIn(b, x) ELSE NoRank
             IN  Merged(a, b, x) = Item(x, m, n) /\ Merged(b, a, x) = Item(x, m, n)
  <2> DEFINE m == IF x \in ChunksOf(a) THEN RankIn(a, x) ELSE NoRank
             n == IF x \in ChunksOf(b) THEN RankIn(b, x) ELSE NoRank
             found(list) == IF x \in ChunksOf(list) THEN list[RankIn(list, x)]
                            ELSE Item(x, NoRank, NoRank)
             first(i, j) == IF i # NoRank THEN i ELSE j
  <2>1. found(a).bm25_rank = m /\ found(a).dense_rank = NoRank
    <3>1. CASE x \in ChunksOf(a)
      BY <3>1, RankIs
    <3>2. CASE x \notin ChunksOf(a)
      BY <3>2 DEF Item
    <3> QED BY <3>1, <3>2
  <2>2. found(b).dense_rank = n /\ found(b).bm25_rank = NoRank
    <3>1. CASE x \in ChunksOf(b)
      BY <3>1, RankIs
    <3>2. CASE x \notin ChunksOf(b)
      BY <3>2 DEF Item
    <3> QED BY <3>1, <3>2
  <2>3. /\ Merged(a, b, x) = Item(x, first(found(a).bm25_rank, found(b).bm25_rank),
                                  first(found(a).dense_rank, found(b).dense_rank))
        /\ Merged(b, a, x) = Item(x, first(found(b).bm25_rank, found(a).bm25_rank),
                                  first(found(b).dense_rank, found(a).dense_rank))
    BY DEF Merged
  <2> HIDE DEF found, m, n
  <2>4. Merged(a, b, x) = Item(x, m, n) /\ Merged(b, a, x) = Item(x, m, n)
    BY <2>1, <2>2, <2>3
  <2> QED BY <2>4 DEF m, n
<1>3. IsFusion(c, a, b) /\ IsFusion(c, b, a)
  BY FusedOrderIs
<1>4. /\ DOMAIN Fuse(a, b) = DOMAIN FusedOrder(a, b)
      /\ DOMAIN Fuse(b, a) = DOMAIN FusedOrder(a, b)
      /\ \A n \in DOMAIN FusedOrder(a, b) :
           /\ FusedOrder(a, b)[n] \in ChunksOf(a) \cup ChunksOf(b)
           /\ Fuse(a, b)[n] = Merged(a, b, FusedOrder(a, b)[n])
           /\ Fuse(b, a)[n] = Merged(b, a, FusedOrder(a, b)[n])
      /\ Fuse(a, b) \in Seq(Hit(c)) /\ Fuse(b, a) \in Seq(Hit(c))
  BY <1>1, <1>3 DEF IsFusion
<1>5. \A n \in DOMAIN FusedOrder(a, b) : Fuse(a, b)[n] = Fuse(b, a)[n]
  BY <1>2, <1>4
<1>6. Fuse(a, b) = Fuse(b, a)
  BY <1>4, <1>5
<1> QED BY <1>2, <1>6 DEF Item

(* A chunk that two arms found comes before one that it outweighs. *)
LEMMA AgreementHolds ==
    ASSUME NEW c, IsCorpus(c), NEW filters, NEW k, NEW l, NEW a, NEW b,
           IsFound(a, c, filters, k), IsFound(b, c, filters, l),
           \A i \in DOMAIN a : a[i].bm25_rank = i /\ a[i].dense_rank = NoRank,
           \A i \in DOMAIN b : b[i].dense_rank = i /\ b[i].bm25_rank = NoRank
    PROVE  AgreementWins(a, b, Fuse(a, b))
<1> DEFINE order == FusedOrder(a, b)
           fused == Fuse(a, b)
           both == ChunksOf(a) \cap ChunksOf(b)
<1>1. IsFusion(c, a, b)
  BY FusedOrderIs
<1>2. ASSUME NEW i \in DOMAIN fused
      PROVE  /\ i \in DOMAIN order /\ order[i] \in ChunksOf(a) \cup ChunksOf(b)
             /\ fused[i] = Merged(a, b, order[i]) /\ fused[i].chunk = order[i]
  <2>1. /\ i \in DOMAIN order /\ order[i] \in ChunksOf(a) \cup ChunksOf(b)
        /\ order[i] \in DOMAIN c.doc /\ fused[i] = Merged(a, b, order[i])
    BY <1>1 DEF IsFusion
  <2> QED BY <2>1, MergedIs
<1>3. ASSUME NEW i \in DOMAIN fused, NEW j \in DOMAIN fused,
             fused[i].chunk \in both, fused[j].chunk \notin both,
             Outweighs({a, b}, fused[i].chunk, fused[j].chunk)
      PROVE  i < j
  <2>1. order[i] \in both /\ order[j] \in (ChunksOf(a) \cup ChunksOf(b)) \ both
    BY <1>2, <1>3
  <2>2. Higher(RrfScore(a, b, order[i]), RrfScore(a, b, order[j]))
    BY <1>2, <1>3, <2>1, BothScoreHigher
  <2>3. i \in DOMAIN order /\ j \in DOMAIN order
    BY <1>2
  <2> QED BY <1>1, <2>2, <2>3 DEF IsFusion
<1>4. /\ fused = Fuse(b, a)
      /\ \A x \in ChunksOf(a) \cup ChunksOf(b) :
           /\ Merged(a, b, x).bm25_rank = IF x \in ChunksOf(a) THEN RankIn(a, x) ELSE NoRank
           /\ Merged(a, b, x).dense_rank = IF x \in ChunksOf(b) THEN RankIn(b, x) ELSE NoRank
  BY FusedEitherWay
<1>5. ASSUME NEW i \in DOMAIN fused
      PROVE  LET rank(list) == IF fused[i].chunk \in ChunksOf(list)
                               THEN RankIn(list, fused[i].chunk) ELSE NoRank
             IN  fused[i].bm25_rank = rank(a) /\ fused[i].dense_rank = rank(b)
  BY <1>2, <1>4
<1> QED BY <1>3, <1>4, <1>5 DEF AgreementWins

(* The hybrid arm, and the search that is reranked. *)
LEMMA HybridFinds ==
    ASSUME NEW c, IsCorpus(c), NEW query, IsScored(c, query), NEW k \in Nat, NEW filters,
           NEW windowed
    PROVE  IsFound(HybridSearch(c, query, k, filters, windowed), c, filters, k)
<1> DEFINE depth == k * DepthFactor
           a == Bm25Search(c, query, depth, filters)
           b == VectorSearch(c, query, depth, filters, windowed)
<1>1. depth \in Nat
  <2>1. DepthFactor \in Nat
    BY RetrievalAssumption DEF RetrievalAssumption
  <2> QED BY <2>1, SizesAreNat
<1>2. HybridSearch(c, query, k, filters, windowed) = Take(Fuse(a, b), k)
  BY DEF HybridSearch
<1> HIDE DEF depth
<1>3. IsFound(a, c, filters, depth)
  BY <1>1, LexicalFinds
<1>4. IsFound(b, c, filters, depth)
  <2>1. CASE windowed
    BY <1>1, <2>1, WindowedFinds DEF VectorSearch
  <2>2. CASE ~ windowed
    BY <1>1, <2>2, DenseFinds DEF VectorSearch
  <2> QED BY <2>1, <2>2
<1> HIDE DEF a, b
<1> QED BY <1>2, <1>3, <1>4, FusedFinds

(* A search that is expanded or not finds chunks of the scope. *)
LEMMA BaseFinds ==
    ASSUME NEW c, IsCorpus(c), NEW query, IsScored(c, query), IsScored(c, c.expanded[query]),
           NEW k \in Nat, NEW filters, NEW arm
    PROVE  IsFound(BaseSearch(arm, c, query, k, filters), c, filters, k)
<1> DEFINE hybrid(q) == HybridSearch(c, q, k, filters, arm.windowed)
           other == c.expanded[query]
<1>1. IsFound(hybrid(query), c, filters, k) /\ IsFound(hybrid(other), c, filters, k)
  BY HybridFinds
<1>2. \/ BaseSearch(arm, c, query, k, filters) = hybrid(query)
      \/ BaseSearch(arm, c, query, k, filters) = Take(Fuse(hybrid(query), hybrid(other)), k)
  BY DEF BaseSearch
<1>3. IsFound(Take(Fuse(hybrid(query), hybrid(other)), k), c, filters, k)
  <2> DEFINE a == hybrid(query)
             b == hybrid(other)
  <2>1. IsFound(a, c, filters, k) /\ IsFound(b, c, filters, k)
    BY <1>1
  <2> HIDE DEF a, b
  <2>2. IsFound(Take(Fuse(a, b), k), c, filters, k)
    BY <2>1, FusedFinds
  <2> QED BY <2>2 DEF a, b
<1> HIDE DEF hybrid, other
<1> QED BY <1>1, <1>2, <1>3

(* A finite set as a sequence: each member once. *)
LEMMA SequenceOf ==
    ASSUME NEW S, IsFiniteSet(S)
    PROVE  /\ Cardinality(S) \in Nat /\ SetToSeq(S) \in Seq(S)
           /\ Len(SetToSeq(S)) = Cardinality(S) /\ DOMAIN SetToSeq(S) = 1 .. Cardinality(S)
           /\ \A i, j \in DOMAIN SetToSeq(S) : SetToSeq(S)[i] = SetToSeq(S)[j] => i = j
           /\ \A x \in S : \E i \in DOMAIN SetToSeq(S) : SetToSeq(S)[i] = x
<1> DEFINE C == Cardinality(S)
           s == SetToSeq(S)
<1>1. C \in Nat /\ ExistsBijection(1 .. C, S)
  BY FS_CardinalityType
<1>2. \E f \in [1 .. C -> S] : \A i, j \in DOMAIN f : f[i] = f[j] => i = j
  BY <1>1 DEF ExistsBijection, Bijection, Injection, IsInjective
<1>3. s \in [1 .. C -> S] /\ \A i, j \in DOMAIN s : s[i] = s[j] => i = j
  BY <1>2 DEF SetToSeq, IsInjective
<1> HIDE DEF s
<1>4. s \in Seq(S) /\ Len(s) = C /\ DOMAIN s = 1 .. C
  <2> HIDE DEF C
  <2> QED BY <1>1, <1>3
<1>5. \A x \in S : \E i \in 1 .. C : s[i] = x
  <2>1. s \in Injection(1 .. C, S)
    BY <1>3 DEF Injection, IsInjective
  <2>2. IsFiniteSet(1 .. C) /\ Cardinality(1 .. C) = C
    <3>1. \A m \in Nat : IsFiniteSet(1 .. m) /\ Cardinality(1 .. m) = m
      BY FS_Interval
    <3> HIDE DEF C
    <3> QED BY <1>1, <3>1
  <2>3. s \in Surjection(1 .. C, S)
    BY <2>1, <2>2, FS_Injection
  <2> QED BY <2>3 DEF Surjection
<1> QED BY <1>1, <1>3, <1>4, <1>5 DEF s

(* The places of pools, row by row. *)
LEMMA PlacesOrdered ==
    ASSUME NEW N \in Nat, NEW pools, DOMAIN pools = 1 .. N,
           NEW S \in SUBSET ((1 .. RerankDepth) \X (1 .. N))
    PROVE  /\ IsFiniteSet(S)
           /\ IsOrder([z \in S |-> {y \in S : y[1] < z[1] \/ (y[1] = z[1] /\ y[2] < z[2])}], S)
<1> DEFINE ahead == [z \in S |-> {y \in S : y[1] < z[1] \/ (y[1] = z[1] /\ y[2] < z[2])}]
<1>1. RerankDepth \in Nat
  BY RetrievalAssumption DEF RetrievalAssumption
<1>2. IsFiniteSet(S)
  <2>1. \A m \in Nat : IsFiniteSet(1 .. m)
    BY FS_Interval
  <2>2. IsFiniteSet((1 .. RerankDepth) \X (1 .. N))
    BY <1>1, <2>1, FS_Product
  <2> QED BY <2>2, FS_Subset
<1>3. \A z \in S : z = <<z[1], z[2]>> /\ z[1] \in Int /\ z[2] \in Int
  BY <1>1
<1>4. /\ ahead \in [S -> SUBSET S]
      /\ \A y, z \in S : y \in ahead[z] <=> y[1] < z[1] \/ (y[1] = z[1] /\ y[2] < z[2])
  OBVIOUS
<1>5. \A z \in S : z \notin ahead[z]
  <2> HIDE DEF ahead
  <2> QED BY <1>3, <1>4
<1>6. \A y, z \in S : y # z => y \in ahead[z] \/ z \in ahead[y]
  <2> HIDE DEF ahead
  <2> SUFFICES ASSUME NEW y \in S, NEW z \in S, y # z PROVE y \in ahead[z] \/ z \in ahead[y]
    OBVIOUS
  <2>1. y[1] # z[1] \/ y[2] # z[2]
    BY <1>3
  <2> QED BY <1>3, <1>4, <2>1
<1>7. ASSUME NEW z \in S, NEW y \in S, y \in ahead[z] PROVE ahead[y] \subseteq ahead[z]
  <2> HIDE DEF ahead
  <2> SUFFICES ASSUME NEW x \in ahead[y] PROVE x \in ahead[z]
    OBVIOUS
  <2>1. x \in S
    BY <1>4
  <2>2. /\ y[1] < z[1] \/ (y[1] = z[1] /\ y[2] < z[2])
        /\ x[1] < y[1] \/ (x[1] = y[1] /\ x[2] < y[2])
    BY <1>4, <1>7, <2>1
  <2>3. x[1] < z[1] \/ (x[1] = z[1] /\ x[2] < z[2])
    BY <1>3, <2>1, <2>2
  <2> QED BY <1>4, <2>1, <2>3
<1> HIDE DEF ahead
<1>8. IsOrder(ahead, S)
  BY <1>2, <1>4, <1>5, <1>6, <1>7 DEF IsOrder
<1> QED BY <1>2, <1>8 DEF ahead

(* Pools of distinct hits. *)
ArePools(c, pools, N) ==
    /\ DOMAIN pools = 1 .. N
    /\ \A p \in 1 .. N : pools[p] \in Seq(Hit(c)) /\ DOMAIN pools[p] = 1 .. Len(pools[p])
    /\ \A p, q \in 1 .. N : \A i \in DOMAIN pools[p], j \in DOMAIN pools[q] :
         pools[p][i].chunk = pools[q][j].chunk => p = q /\ i = j

(* found is RerankDepth hits of the pools at most, none twice, with the best of *)
(* each that there is room for.                                                 *)
IsRoundRobin(found, c, pools, N) ==
    /\ found \in Seq(Hit(c)) /\ Len(found) <= RerankDepth
    /\ \A n \in DOMAIN found : \E p \in 1 .. N : \E i \in DOMAIN pools[p] :
         found[n] = pools[p][i]
    /\ \A m, n \in DOMAIN found : found[m].chunk = found[n].chunk => m = n
    /\ \A p \in 1 .. N : p <= RerankDepth /\ pools[p] # <<>> =>
         \E n \in DOMAIN found : found[n] = pools[p][1]

(* So is the round robin. *)
LEMMA RoundRobinIs ==
    ASSUME NEW c, NEW N \in Nat, NEW pools, ArePools(c, pools, N)
    PROVE  IsRoundRobin(RoundRobin(pools), c, pools, N)
<1> DEFINE S == PoolPlaces(pools)
           ahead == [z \in S |-> {y \in S : y[1] < z[1] \/ (y[1] = z[1] /\ y[2] < z[2])}]
           order == InOrder(ahead)
           all == [n \in DOMAIN order |-> pools[order[n][2]][order[n][1]]]
           C == Cardinality(S)
<1>1. RerankDepth \in Nat
  BY RetrievalAssumption DEF RetrievalAssumption
<1>2. \A p \in 1 .. N : Len(pools[p]) \in Nat /\ DOMAIN pools[p] = 1 .. Len(pools[p])
  BY DEF ArePools
<1>3. DOMAIN pools = 1 .. N /\ S \in SUBSET ((1 .. RerankDepth) \X (1 .. N))
  BY DEF PoolPlaces, ArePools
<1>4. ASSUME NEW z \in S
      PROVE  /\ z = <<z[1], z[2]>> /\ z[1] \in 1 .. RerankDepth /\ z[2] \in 1 .. N
             /\ z[1] \in DOMAIN pools[z[2]]
  <2>1. z[1] \in 1 .. RerankDepth /\ z[2] \in 1 .. N /\ z = <<z[1], z[2]>>
    BY <1>3
  <2>2. z[1] <= Len(pools[z[2]])
    BY DEF PoolPlaces
  <2> QED BY <1>1, <1>2, <2>1, <2>2
<1>5. IsOrder(ahead, S)
  <2> HIDE DEF S
  <2> QED BY <1>3, PlacesOrdered
<1>6. IsListed(order, ahead, S)
  <2> HIDE DEF ahead, S
  <2> QED BY <1>5, InOrderIs
<1>7. \A y, z \in S : y \in ahead[z] <=> y[1] < z[1] \/ (y[1] = z[1] /\ y[2] < z[2])
  OBVIOUS
<1>8. RoundRobin(pools) = Take(all, RerankDepth)
  BY DEF RoundRobin
<1> HIDE DEF S, ahead, order
<1>9. /\ C \in Nat /\ DOMAIN order = 1 .. C
      /\ \A n \in 1 .. C : order[n] \in S
      /\ \A x \in S : \E n \in 1 .. C : order[n] = x
      /\ \A m, n \in 1 .. C : order[m] = order[n] => m = n
      /\ \A m, n \in 1 .. C : m < n <=> order[m] \in ahead[order[n]]
  BY <1>6 DEF IsListed
<1>10. ASSUME NEW n \in 1 .. C
       PROVE  /\ order[n][2] \in 1 .. N /\ order[n][1] \in DOMAIN pools[order[n][2]]
              /\ all[n] = pools[order[n][2]][order[n][1]] /\ all[n] \in Hit(c)
  <2>1. order[n] \in S
    BY <1>9
  <2>2. order[n][2] \in 1 .. N /\ order[n][1] \in DOMAIN pools[order[n][2]]
    BY <1>4, <2>1
  <2>3. all[n] = pools[order[n][2]][order[n][1]]
    BY <1>9
  <2> QED BY <2>2, <2>3 DEF ArePools
<1>11. all \in Seq(Hit(c)) /\ Len(all) = C /\ DOMAIN all = 1 .. C
  <2>1. DOMAIN all = 1 .. C /\ \A n \in 1 .. C : all[n] \in Hit(c)
    BY <1>9, <1>10
  <2>2. all = [n \in 1 .. C |-> all[n]]
    BY <1>9
  <2> HIDE DEF all, C
  <2> QED BY <1>9, <2>1, <2>2
<1>12. ASSUME NEW m \in 1 .. C, NEW n \in 1 .. C, all[m].chunk = all[n].chunk PROVE m = n
  <2>1. order[m][2] = order[n][2] /\ order[m][1] = order[n][1]
    <3>1. \A p, q \in 1 .. N : \A i \in DOMAIN pools[p], j \in DOMAIN pools[q] :
            pools[p][i].chunk = pools[q][j].chunk => p = q /\ i = j
      BY DEF ArePools
    <3>2. /\ order[m][2] \in 1 .. N /\ order[m][1] \in DOMAIN pools[order[m][2]]
          /\ order[n][2] \in 1 .. N /\ order[n][1] \in DOMAIN pools[order[n][2]]
      BY <1>10
    <3>3. pools[order[m][2]][order[m][1]].chunk = pools[order[n][2]][order[n][1]].chunk
      BY <1>10, <1>12
    <3> HIDE DEF all, C
    <3> QED BY <3>1, <3>2, <3>3
  <2>2. order[m] = order[n]
    BY <1>4, <1>9, <2>1
  <2> QED BY <1>9, <2>2
<1> HIDE DEF all, C
<1>13. /\ RoundRobin(pools) \in Seq(Hit(c)) /\ Len(RoundRobin(pools)) <= RerankDepth
       /\ DOMAIN RoundRobin(pools) \subseteq 1 .. C
       /\ \A i \in 1 .. C : i <= RerankDepth => i \in DOMAIN RoundRobin(pools)
       /\ \A i \in DOMAIN RoundRobin(pools) : RoundRobin(pools)[i] = all[i]
  <2>1. /\ Take(all, RerankDepth) \in Seq(Hit(c)) /\ Len(Take(all, RerankDepth)) <= RerankDepth
        /\ DOMAIN Take(all, RerankDepth) \subseteq DOMAIN all
        /\ \A i \in DOMAIN all : i <= RerankDepth => i \in DOMAIN Take(all, RerankDepth)
        /\ \A i \in DOMAIN Take(all, RerankDepth) : Take(all, RerankDepth)[i] = all[i]
    BY <1>1, <1>11, TakeIs
  <2> QED BY <1>8, <1>11, <2>1
<1>14. ASSUME NEW p \in 1 .. N, p <= RerankDepth, pools[p] # <<>>
       PROVE  \E n \in DOMAIN RoundRobin(pools) : RoundRobin(pools)[n] = pools[p][1]
  <2> DEFINE z == <<1, p>>
  <2>1. z \in S
    <3>1. Len(pools[p]) \in Nat /\ Len(pools[p]) # 0
      BY <1>2, <1>14 DEF ArePools
    <3>2. 1 \in 1 .. RerankDepth /\ 1 <= Len(pools[p])
      BY <1>1, <1>14, <3>1
    <3> QED BY <1>3, <3>2 DEF S, PoolPlaces
  <2>2. PICK n \in 1 .. C : order[n] = z
    BY <1>9, <2>1
  <2>3. ASSUME NEW m \in 1 .. n - 1
        PROVE  m \in 1 .. C /\ order[m][1] = 1 /\ order[m][2] \in 1 .. p - 1
    <3>1. m \in 1 .. C /\ m < n
      BY <1>9
    <3>2. order[m] \in S /\ order[m] \in ahead[z]
      BY <1>9, <2>2, <3>1
    <3>3. order[m][1] < 1 \/ (order[m][1] = 1 /\ order[m][2] < p)
      BY <1>7, <2>1, <3>2
    <3>4. order[m][1] \in 1 .. RerankDepth /\ order[m][2] \in 1 .. N
      BY <1>4, <3>2
    <3> QED BY <3>1, <3>3, <3>4
  <2>4. n - 1 <= p - 1
    <3> DEFINE f == [m \in 1 .. n - 1 |-> order[m][2]]
    <3>1. f \in [1 .. n - 1 -> 1 .. p - 1]
      BY <2>3
    <3>2. ASSUME NEW i \in 1 .. n - 1, NEW j \in 1 .. n - 1, f[i] = f[j] PROVE i = j
      <4>1. order[i][2] = order[j][2] /\ order[i][1] = order[j][1]
        BY <2>3, <3>2
      <4>2. order[i] \in S /\ order[j] \in S
        BY <1>9, <2>3
      <4>3. order[i] = order[j]
        BY <1>4, <4>1, <4>2
      <4> QED BY <1>9, <2>3, <4>3
    <3>3. f \in Injection(1 .. n - 1, 1 .. p - 1)
      <4>1. DOMAIN f = 1 .. n - 1
        OBVIOUS
      <4> HIDE DEF f
      <4> QED BY <3>1, <3>2, <4>1 DEF Injection, IsInjective
    <3>4. \A m \in Nat : IsFiniteSet(1 .. m) /\ Cardinality(1 .. m) = m
      BY FS_Interval
    <3>5. n - 1 \in Nat /\ p - 1 \in Nat
      BY <1>9
    <3>6. Cardinality(1 .. n - 1) <= Cardinality(1 .. p - 1)
      <4> HIDE DEF f
      <4> QED BY <3>3, <3>4, <3>5, FS_Injection
    <3> QED BY <3>4, <3>5, <3>6
  <2>5. n <= RerankDepth
    BY <1>1, <1>9, <1>14, <2>4
  <2>6. n \in DOMAIN RoundRobin(pools) /\ RoundRobin(pools)[n] = all[n]
    BY <1>13, <2>5
  <2>7. all[n] = pools[p][1]
    BY <1>10, <2>2
  <2> QED BY <2>6, <2>7
<1>15. \A n \in DOMAIN RoundRobin(pools) : \E p \in 1 .. N : \E i \in DOMAIN pools[p] :
         RoundRobin(pools)[n] = pools[p][i]
  BY <1>10, <1>13
<1>16. \A m, n \in DOMAIN RoundRobin(pools) :
         RoundRobin(pools)[m].chunk = RoundRobin(pools)[n].chunk => m = n
  BY <1>12, <1>13
<1> QED BY <1>13, <1>14, <1>15, <1>16 DEF IsRoundRobin

(* The filters of one of the documents. *)
OnlyOf(filters, d) == [filters EXCEPT !.documents = {d}]

(* They keep to that document, and to the filters. *)
LEMMA OnlyOfScopes ==
    ASSUME NEW c, NEW r, IsSearch(c, r), NEW d, NEW x
    PROVE  /\ Passes(c, x, OnlyOf(r.filters, d)) /\ r.filters.scoped => c.doc[x] = d
           /\ Passes(c, x, OnlyOf(r.filters, d)) /\ d \in r.filters.documents
              => Passes(c, x, r.filters)
<1>1. /\ OnlyOf(r.filters, d).documents = {d}
      /\ OnlyOf(r.filters, d).scoped = r.filters.scoped
      /\ OnlyOf(r.filters, d).exclude_synthetic = r.filters.exclude_synthetic
  BY DEF IsSearch, OnlyOf
<1> QED BY <1>1 DEF Passes

(* The documents a comparison compares. *)
LEMMA ComparedAre ==
    ASSUME NEW c, NEW r, IsSearch(c, r)
    PROVE  /\ IsFiniteSet(ComparisonDocuments(r)) /\ Cardinality(ComparisonDocuments(r)) \in Nat
           /\ ComparisonDocuments(r) \subseteq r.filters.documents
           /\ ComparisonDocuments(r) # {} => r.filters.scoped
<1>1. ComparisonDocuments(r) = {} \/ (ComparisonDocuments(r) = r.filters.documents
                                      /\ r.filters.scoped)
  BY DEF ComparisonDocuments
<1>2. IsFiniteSet(ComparisonDocuments(r))
  BY <1>1, FS_EmptySet DEF IsSearch
<1>3. Cardinality(ComparisonDocuments(r)) \in Nat
  BY <1>2, FS_CardinalityType
<1> QED BY <1>1, <1>2, <1>3

(* The pool that is reranked: in the scope, and of each compared document if *)
(* there is room and the search of it finds anything.                        *)
LEMMA CandidatesAre ==
    ASSUME NEW c, NEW r, IsSearch(c, r), NEW arm
    PROVE  /\ IsFound(Candidates(arm, c, r), c, r.filters, RerankDepth)
           /\ arm.balance /\ Cardinality(ComparisonDocuments(r)) <= RerankDepth =>
                \A d \in ComparisonDocuments(r) :
                  BaseSearch(arm, c, r.query, RerankDepth, OnlyOf(r.filters, d)) # <<>> =>
                  \E x \in ChunksOf(Candidates(arm, c, r)) : c.doc[x] = d
<1> DEFINE compared == ComparisonDocuments(r)
           searched(scope) == BaseSearch(arm, c, r.query, RerankDepth, scope)
           named == IF arm.balance THEN SetToSeq(compared) ELSE <<>>
           scopes == IF named = <<>> THEN <<r.filters>>
                     ELSE [i \in DOMAIN named |-> OnlyOf(r.filters, named[i])]
           pools == [i \in DOMAIN scopes |-> searched(scopes[i])]
           N == Len(scopes)
<1>1. RerankDepth \in Nat
  BY RetrievalAssumption DEF RetrievalAssumption
<1>2. \A scope : IsFound(searched(scope), c, scope, RerankDepth)
  BY <1>1, BaseFinds DEF IsSearch
<1>3. /\ named \in Seq(compared) /\ Len(named) \in Nat
      /\ DOMAIN named = 1 .. Len(named)
      /\ \A i, j \in DOMAIN named : named[i] = named[j] => i = j
      /\ arm.balance => \A d \in compared : \E i \in DOMAIN named : named[i] = d
      /\ arm.balance => Len(named) = Cardinality(compared)
  <2>1. CASE arm.balance
    BY <2>1, ComparedAre, SequenceOf
  <2>2. CASE ~ arm.balance
    BY <2>2
  <2> QED BY <2>1, <2>2
<1>4. Candidates(arm, c, r) = RoundRobin(pools)
  BY DEF Candidates, OnlyOf
<1> HIDE DEF named, searched
<1>5. /\ N \in Nat /\ DOMAIN scopes = 1 .. N
      /\ named # <<>> => N = Len(named)
  <2>1. CASE named = <<>>
    BY <2>1
  <2>2. CASE named # <<>>
    BY <1>3, <2>2
  <2> QED BY <2>1, <2>2
<1>6. ASSUME NEW p \in 1 .. N, named # <<>>
      PROVE  /\ p \in DOMAIN named /\ named[p] \in compared
             /\ scopes[p] = OnlyOf(r.filters, named[p])
  BY <1>3, <1>5, <1>6
<1>7. named = <<>> => N = 1 /\ scopes[1] = r.filters
  OBVIOUS
<1>8. DOMAIN pools = 1 .. N /\ \A p \in 1 .. N : pools[p] = searched(scopes[p])
  BY <1>5
<1> HIDE DEF scopes, pools, N
<1>9. ASSUME NEW p \in 1 .. N, NEW i \in DOMAIN pools[p]
      PROVE  /\ Passes(c, pools[p][i].chunk, r.filters)
             /\ named # <<>> => c.doc[pools[p][i].chunk] = named[p]
  <2>1. Passes(c, pools[p][i].chunk, scopes[p])
    BY <1>2, <1>8 DEF IsFound
  <2>2. CASE named = <<>>
    BY <1>5, <1>7, <2>1, <2>2
  <2>3. CASE named # <<>>
    <3>1. compared # {} /\ named[p] \in r.filters.documents /\ r.filters.scoped
      BY <1>6, <2>3, ComparedAre
    <3>2. Passes(c, pools[p][i].chunk, OnlyOf(r.filters, named[p]))
      BY <1>6, <2>1, <2>3
    <3>3. c.doc[pools[p][i].chunk] = named[p]
      BY <3>1, <3>2, OnlyOfScopes
    <3>4. Passes(c, pools[p][i].chunk, r.filters)
      BY <3>1, <3>2, OnlyOfScopes
    <3> QED BY <3>3, <3>4
  <2> QED BY <2>2, <2>3
<1>10. ArePools(c, pools, N)
  <2>1. ASSUME NEW p \in 1 .. N
        PROVE  /\ pools[p] \in Seq(Hit(c)) /\ DOMAIN pools[p] = 1 .. Len(pools[p])
               /\ \A i, j \in DOMAIN pools[p] : pools[p][i].chunk = pools[p][j].chunk => i = j
    <3>1. IsFound(pools[p], c, scopes[p], RerankDepth)
      BY <1>2, <1>8
    <3> QED BY <3>1 DEF IsFound
  <2>2. ASSUME NEW p \in 1 .. N, NEW q \in 1 .. N, NEW i \in DOMAIN pools[p],
               NEW j \in DOMAIN pools[q], pools[p][i].chunk = pools[q][j].chunk
        PROVE  p = q
    <3>1. CASE named = <<>>
      BY <1>7, <3>1
    <3>2. CASE named # <<>>
      <4>1. named[p] = named[q]
        BY <1>9, <2>2, <3>2
      <4> QED BY <1>3, <1>6, <3>2, <4>1
    <3> QED BY <3>1, <3>2
  <2> QED BY <1>8, <2>1, <2>2 DEF ArePools
<1>11. /\ RoundRobin(pools) \in Seq(Hit(c)) /\ Len(RoundRobin(pools)) <= RerankDepth
       /\ \A n \in DOMAIN RoundRobin(pools) : \E p \in 1 .. N : \E i \in DOMAIN pools[p] :
            RoundRobin(pools)[n] = pools[p][i]
       /\ \A m, n \in DOMAIN RoundRobin(pools) :
            RoundRobin(pools)[m].chunk = RoundRobin(pools)[n].chunk => m = n
       /\ \A p \in 1 .. N : p <= RerankDepth /\ pools[p] # <<>> =>
            \E n \in DOMAIN RoundRobin(pools) : RoundRobin(pools)[n] = pools[p][1]
  BY <1>5, <1>10, RoundRobinIs DEF IsRoundRobin
<1>12. IsFound(RoundRobin(pools), c, r.filters, RerankDepth)
  <2>1. \A n \in DOMAIN RoundRobin(pools) : Passes(c, RoundRobin(pools)[n].chunk, r.filters)
    BY <1>9, <1>11
  <2> QED BY <1>11, <2>1 DEF IsFound
<1>13. ASSUME arm.balance, Cardinality(compared) <= RerankDepth, NEW d \in compared,
              searched(OnlyOf(r.filters, d)) # <<>>
       PROVE  \E x \in ChunksOf(RoundRobin(pools)) : c.doc[x] = d
  <2>1. PICK p \in DOMAIN named : named[p] = d
    BY <1>3, <1>13
  <2>2. named # <<>> /\ p \in 1 .. N /\ p <= RerankDepth
    <3>1. Len(named) = Cardinality(compared) /\ p \in 1 .. Len(named)
      BY <1>3, <1>13
    <3>2. named # <<>>
      BY <3>1
    <3>3. p \in Nat /\ p <= Cardinality(compared) /\ Cardinality(compared) \in Nat
      BY <1>3, <3>1
    <3> HIDE DEF compared
    <3> QED BY <1>1, <1>5, <1>13, <3>1, <3>2, <3>3
  <2>3. pools[p] = searched(OnlyOf(r.filters, d)) /\ pools[p] # <<>>
    BY <1>6, <1>8, <1>13, <2>1, <2>2
  <2>4. PICK n \in DOMAIN RoundRobin(pools) : RoundRobin(pools)[n] = pools[p][1]
    BY <1>11, <2>2, <2>3
  <2>5. 1 \in DOMAIN pools[p]
    BY <1>10, <2>2, <2>3 DEF ArePools
  <2>6. c.doc[pools[p][1].chunk] = d
    BY <1>9, <2>1, <2>2, <2>5
  <2> QED BY <2>4, <2>6 DEF ChunksOf
<1> QED BY <1>4, <1>12, <1>13 DEF searched

(* The k least of a finite set of numbers are k at most, or all of them. *)
LEMMA LeastIs ==
    ASSUME NEW S, IsFiniteSet(S), S \subseteq Int, NEW k \in Nat
    PROVE  /\ Least(S, k) \subseteq S /\ IsFiniteSet(Least(S, k))
           /\ Cardinality(Least(S, k)) \in Nat /\ Cardinality(Least(S, k)) <= k
           /\ Cardinality(S) <= k => Least(S, k) = S
<1> DEFINE below(i) == {j \in S : j < i}
           T == Least(S, k)
<1>1. T = {i \in S : Cardinality(below(i)) < k}
  BY DEF Least
<1>2. ASSUME NEW i \in S
      PROVE  IsFiniteSet(below(i)) /\ Cardinality(below(i)) \in Nat
  <2>1. below(i) \in SUBSET S
    OBVIOUS
  <2> QED BY <2>1, FS_Subset, FS_CardinalityType
<1>3. ASSUME NEW i \in S, NEW j \in S, i < j
      PROVE  Cardinality(below(i)) < Cardinality(below(j))
  <2>1. i \in Int /\ j \in Int
    OBVIOUS
  <2>2. below(i) \in SUBSET below(j) /\ i \in below(j) /\ i \notin below(i)
    <3>1. \A x \in S : x \in Int /\ (x < i => x < j)
      BY <1>3, <2>1
    <3>2. ~ (i < i)
      BY <2>1
    <3> QED BY <1>3, <3>1, <3>2
  <2>3. /\ Cardinality(below(i)) <= Cardinality(below(j))
        /\ Cardinality(below(j)) = Cardinality(below(i)) => below(j) = below(i)
    <3>1. \A B \in SUBSET below(j) :
            /\ Cardinality(B) <= Cardinality(below(j))
            /\ Cardinality(below(j)) = Cardinality(B) => below(j) = B
      BY <1>2, FS_Subset
    <3> QED BY <2>2, <3>1
  <2>4. below(j) # below(i)
    BY <2>2
  <2>5. Cardinality(below(i)) \in Nat /\ Cardinality(below(j)) \in Nat
    BY <1>2
  <2> HIDE DEF below
  <2> QED BY <2>3, <2>4, <2>5
<1> HIDE DEF below, T
<1>4. T \in SUBSET S
  BY <1>1
<1>5. IsFiniteSet(T) /\ Cardinality(T) \in Nat
  BY <1>4, FS_Subset, FS_CardinalityType
<1>6. Cardinality(T) <= k
  <2> DEFINE f == [i \in T |-> Cardinality(below(i)) + 1]
  <2>1. f \in [T -> 1 .. k]
    <3>1. \A i \in T : Cardinality(below(i)) \in Nat /\ Cardinality(below(i)) < k
      BY <1>1, <1>2
    <3>2. \A n \in Nat : n < k => n + 1 \in 1 .. k
      OBVIOUS
    <3> QED BY <3>1, <3>2
  <2>2. ASSUME NEW i \in T, NEW j \in T, f[i] = f[j] PROVE i = j
    <3>1. i \in S /\ j \in S /\ i \in Int /\ j \in Int
      BY <1>4
    <3>2. Cardinality(below(i)) \in Nat /\ Cardinality(below(j)) \in Nat
      BY <1>2, <3>1
    <3>3. Cardinality(below(i)) = Cardinality(below(j))
      BY <2>2, <3>2
    <3>4. ~ (i < j) /\ ~ (j < i)
      BY <1>3, <3>1, <3>2, <3>3
    <3> QED BY <3>1, <3>4
  <2>3. f \in Injection(T, 1 .. k)
    <3>1. DOMAIN f = T
      OBVIOUS
    <3> HIDE DEF f
    <3> QED BY <2>1, <2>2, <3>1 DEF Injection, IsInjective
  <2>4. IsFiniteSet(1 .. k) /\ Cardinality(1 .. k) = k
    <3>1. \A m \in Nat : IsFiniteSet(1 .. m) /\ Cardinality(1 .. m) = m
      BY FS_Interval
    <3> QED BY <3>1
  <2> HIDE DEF f
  <2> QED BY <2>3, <2>4, FS_Injection
<1>7. Cardinality(S) <= k => T = S
  <2> SUFFICES ASSUME Cardinality(S) <= k, NEW i \in S
               PROVE  i \in T
    BY <1>4
  <2>1. below(i) \in SUBSET S /\ i \notin below(i)
    BY DEF below
  <2>2. /\ Cardinality(below(i)) <= Cardinality(S)
        /\ Cardinality(S) = Cardinality(below(i)) => S = below(i)
    BY <2>1, FS_Subset
  <2>3. Cardinality(S) \in Nat /\ Cardinality(below(i)) \in Nat
    BY <1>2, FS_CardinalityType
  <2>4. Cardinality(below(i)) < k
    BY <2>1, <2>2, <2>3
  <2> QED BY <1>1, <2>4
<1> QED BY <1>4, <1>5, <1>6, <1>7 DEF T

(* Reranking puts what it is given in another order. *)
LEMMA RerankedIs ==
    ASSUME NEW c, IsCorpus(c), NEW filters, NEW k, NEW list, IsFound(list, c, filters, k),
           NEW relevance \in [DOMAIN c.doc -> Int]
    PROVE  /\ IsFound(Reranked(list, relevance), c, filters, Len(Reranked(list, relevance)))
           /\ ChunksOf(Reranked(list, relevance)) = ChunksOf(list)
<1> DEFINE S == ChunksOf(list)
           order == Ranked(S, relevance)
           found == Reranked(list, relevance)
<1>1. /\ \A i \in DOMAIN list : list[i] \in Hit(c)
      /\ \A x \in S : RankIn(list, x) \in DOMAIN list /\ list[RankIn(list, x)].chunk = x
      /\ S \subseteq DOMAIN c.doc
      /\ \A x \in S : Passes(c, x, filters)
  <2> HIDE DEF S
  <2> QED BY RankIs DEF S
<1>2. IsFiniteSet(S) /\ S \subseteq Int /\ \A x \in S : relevance[x] \in Int
  <2>1. IsFiniteSet(DOMAIN c.doc) /\ DOMAIN c.doc \subseteq Int
    BY CorpusIs
  <2>2. S \in SUBSET DOMAIN c.doc
    BY <1>1
  <2> HIDE DEF S
  <2> QED BY <2>1, <2>2, FS_Subset
<1>3. found = [i \in DOMAIN order |-> list[RankIn(list, order[i])]]
  BY DEF Reranked
<1> HIDE DEF S
<1>4. /\ order \in Seq(S) /\ Len(order) \in Nat /\ DOMAIN order = 1 .. Len(order)
      /\ \A x \in S : \E n \in DOMAIN order : order[n] = x
      /\ \A m, n \in DOMAIN order : order[m] = order[n] => m = n
  <2>1. \A x \in S : \E n \in DOMAIN order : order[n] = x
    BY <1>2, RankedIs
  <2>2. \A m, n \in DOMAIN order : order[m] = order[n] => m = n
    BY <1>2, RankedIs
  <2>3. /\ order \in Seq(S) /\ Len(order) = Cardinality(S) /\ Cardinality(S) \in Nat
        /\ DOMAIN order = 1 .. Cardinality(S)
    BY <1>2, RankedIs
  <2> HIDE DEF order
  <2> QED BY <2>1, <2>2, <2>3
<1> HIDE DEF order, found
<1>5. ASSUME NEW n \in DOMAIN order
      PROVE  order[n] \in S /\ found[n] \in Hit(c) /\ found[n].chunk = order[n]
  <2>1. order[n] \in S
    BY <1>4
  <2> QED BY <1>1, <1>3, <2>1
<1>6. DOMAIN found = DOMAIN order
  BY <1>3
<1>7. found \in Seq(Hit(c)) /\ Len(found) = Len(order)
  <2>1. found = [n \in 1 .. Len(order) |-> found[n]]
    BY <1>3, <1>4
  <2> QED BY <1>4, <1>5, <1>6, <2>1
<1>8. IsFound(found, c, filters, Len(found))
  <2>1. \A i, j \in DOMAIN found : found[i].chunk = found[j].chunk => i = j
    BY <1>4, <1>5, <1>6
  <2>2. \A i \in DOMAIN found : Passes(c, found[i].chunk, filters)
    BY <1>1, <1>5, <1>6
  <2> QED BY <1>4, <1>7, <2>1, <2>2 DEF IsFound
<1>9. ChunksOf(found) = S
  <2>1. \A x \in S : \E n \in DOMAIN found : found[n].chunk = x
    BY <1>4, <1>5, <1>6
  <2>2. \A n \in DOMAIN found : found[n].chunk \in S
    BY <1>5, <1>6
  <2> QED BY <2>1, <2>2 DEF ChunksOf
<1> QED BY <1>8, <1>9 DEF found, S

(* The places of the best hit of each of the documents. *)
LeadsOf(c, ranked, named) ==
    {i \in DOMAIN ranked :
       /\ c.doc[ranked[i].chunk] \in named
       /\ \A j \in 1 .. i - 1 : c.doc[ranked[j].chunk] # c.doc[ranked[i].chunk]}

(* There is one best hit of each of the documents that has any. *)
LEMMA LeadsAre ==
    ASSUME NEW c, NEW ranked \in Seq(Hit(c)), NEW named, IsFiniteSet(named)
    PROVE  /\ LeadsOf(c, ranked, named) \in SUBSET DOMAIN ranked
           /\ Cardinality(LeadsOf(c, ranked, named)) <= Cardinality(named)
           /\ \A i \in DOMAIN ranked : c.doc[ranked[i].chunk] \in named =>
                \E n \in LeadsOf(c, ranked, named) :
                  c.doc[ranked[n].chunk] = c.doc[ranked[i].chunk]
<1> DEFINE L == LeadsOf(c, ranked, named)
           doc(i) == c.doc[ranked[i].chunk]
<1>1. DOMAIN ranked = 1 .. Len(ranked) /\ Len(ranked) \in Nat
  OBVIOUS
<1>2. L = {i \in DOMAIN ranked : doc(i) \in named /\ \A j \in 1 .. i - 1 : doc(j) # doc(i)}
  BY DEF LeadsOf
<1> HIDE DEF L, doc
<1>3. ASSUME NEW i \in L, NEW j \in L, doc(i) = doc(j) PROVE i = j
  <2>1. i \in DOMAIN ranked /\ j \in DOMAIN ranked
    BY <1>2
  <2>2. i \in Nat /\ j \in Nat /\ i >= 1 /\ j >= 1
    BY <1>1, <2>1
  <2>3. i \notin 1 .. j - 1 /\ j \notin 1 .. i - 1
    BY <1>2, <1>3
  <2> QED BY <2>2, <2>3
<1>4. Cardinality(L) <= Cardinality(named)
  <2> DEFINE f == [i \in L |-> doc(i)]
  <2>1. f \in [L -> named] /\ DOMAIN f = L /\ \A i \in L : f[i] = doc(i)
    BY <1>2
  <2> HIDE DEF f
  <2>2. f \in Injection(L, named)
    BY <1>3, <2>1 DEF Injection, IsInjective
  <2> QED BY <2>2, FS_Injection
<1>5. ASSUME NEW i \in DOMAIN ranked, doc(i) \in named
      PROVE  \E n \in L : doc(n) = doc(i)
  <2> DEFINE same == {j \in DOMAIN ranked : doc(j) = doc(i)}
  <2>1. same \subseteq Nat /\ same # {}
    BY <1>1
  <2>2. PICK n \in same : \A j \in same : n <= j
    <3> HIDE DEF same
    <3> QED BY <2>1, LeastOf
  <2>3. n \in DOMAIN ranked /\ doc(n) = doc(i)
    OBVIOUS
  <2>4. ASSUME NEW j \in 1 .. n - 1 PROVE doc(j) # doc(n)
    <3>1. j \in DOMAIN ranked /\ ~ (n <= j)
      BY <1>1, <2>3
    <3> QED BY <2>2, <2>3, <3>1
  <2> QED BY <1>2, <1>5, <2>3, <2>4
<1>6. L \in SUBSET DOMAIN ranked
  BY <1>2
<1> QED BY <1>4, <1>5, <1>6 DEF L, doc

(* What is selected is of what was ranked, k at most; and of each of the *)
(* documents if there is room for them and any of it was ranked.         *)
LEMMA SelectIs ==
    ASSUME NEW c, NEW filters, NEW m, NEW ranked, IsFound(ranked, c, filters, m),
           NEW named, IsFiniteSet(named), NEW k \in Nat
    PROVE  /\ IsFound(SelectWithCoverage(c, ranked, named, k), c, filters, k)
           /\ Cardinality(named) <= k =>
                \A x \in ChunksOf(ranked) : c.doc[x] \in named =>
                  \E y \in ChunksOf(SelectWithCoverage(c, ranked, named, k)) :
                    c.doc[y] = c.doc[x]
<1> DEFINE L == LeadsOf(c, ranked, named)
           reserved == Least(L, k)
           rest == DOMAIN ranked \ reserved
           others == Least(rest, k - Cardinality(reserved))
           P == reserved \cup others
           found == SelectWithCoverage(c, ranked, named, k)
<1>1. /\ ranked \in Seq(Hit(c))
      /\ DOMAIN ranked = 1 .. Len(ranked) /\ Len(ranked) \in Nat
      /\ \A i, j \in DOMAIN ranked : ranked[i].chunk = ranked[j].chunk => i = j
      /\ \A i \in DOMAIN ranked : Passes(c, ranked[i].chunk, filters)
  BY DEF IsFound
<1>2. found = ElementsAt(ranked, P)
  BY DEF SelectWithCoverage, LeadsOf
<1>3. /\ L \in SUBSET DOMAIN ranked /\ Cardinality(L) <= Cardinality(named)
      /\ \A i \in DOMAIN ranked : c.doc[ranked[i].chunk] \in named =>
           \E n \in L : c.doc[ranked[n].chunk] = c.doc[ranked[i].chunk]
  BY <1>1, LeadsAre
<1>4. IsFiniteSet(DOMAIN ranked) /\ DOMAIN ranked \subseteq Int
  <2>1. \A n \in Nat : IsFiniteSet(1 .. n) /\ 1 .. n \subseteq Int
    BY FS_Interval
  <2> QED BY <1>1, <2>1
<1> HIDE DEF L, found
<1>5. IsFiniteSet(L) /\ L \subseteq Int /\ Cardinality(L) \in Nat
  BY <1>3, <1>4, FS_Subset, FS_CardinalityType
<1>6. /\ reserved \subseteq L /\ IsFiniteSet(reserved)
      /\ Cardinality(reserved) \in Nat /\ Cardinality(reserved) <= k
      /\ Cardinality(L) <= k => reserved = L
  BY <1>5, LeastIs
<1> HIDE DEF reserved
<1>7. IsFiniteSet(rest) /\ rest \subseteq Int
  <2>1. rest \in SUBSET DOMAIN ranked
    OBVIOUS
  <2> HIDE DEF rest
  <2> QED BY <1>4, <2>1, FS_Subset
<1>8. k - Cardinality(reserved) \in Nat
  BY <1>6
<1>9. /\ others \subseteq rest /\ IsFiniteSet(others) /\ Cardinality(others) \in Nat
      /\ Cardinality(others) <= k - Cardinality(reserved)
  <2> HIDE DEF rest
  <2> QED BY <1>7, <1>8, LeastIs
<1>10. P \in SUBSET DOMAIN ranked
  BY <1>3, <1>6, <1>9
<1> HIDE DEF others, rest
<1>11. Cardinality(P) <= k
  <2>1. /\ IsFiniteSet(P) /\ IsFiniteSet(reserved \cap others)
        /\ Cardinality(P) = Cardinality(reserved) + Cardinality(others)
                            - Cardinality(reserved \cap others)
    <3>1. reserved \cap others \in SUBSET reserved
      OBVIOUS
    <3>2. IsFiniteSet(reserved \cap others)
      BY <1>6, <3>1, FS_Subset
    <3> QED BY <1>6, <1>9, <3>2, FS_Union
  <2>2. Cardinality(reserved \cap others) \in Nat
    BY <2>1, FS_CardinalityType
  <2> HIDE DEF P
  <2> QED BY <1>6, <1>9, <2>1, <2>2
<1> HIDE DEF P
<1>12. PICK order : IsPicked(order, ranked, P)
  <2>1. ranked \in Seq(Hit(c)) /\ P \in SUBSET DOMAIN ranked
    BY <1>1, <1>10
  <2> QED BY <2>1, ElementsAre
<1>13. /\ DOMAIN order = 1 .. Cardinality(P) /\ Cardinality(P) \in Nat
       /\ \A n \in DOMAIN order : order[n] \in P /\ order[n] \in DOMAIN ranked
                                  /\ order[n] \in Int /\ found[n] = ranked[order[n]]
  <2>1. \A n \in DOMAIN order : order[n] \in P /\ found[n] = ranked[order[n]]
    BY <1>2, <1>12 DEF IsPicked
  <2> QED BY <1>4, <1>10, <1>12, <2>1 DEF IsPicked
<1>14. found \in Seq(Hit(c)) /\ Len(found) = Cardinality(P) /\ DOMAIN found = 1 .. Cardinality(P)
  <2>1. ranked \in Seq(Hit(c)) /\ P \in SUBSET DOMAIN ranked
    BY <1>1, <1>10
  <2> QED BY <1>2, <2>1, ElementsAre
<1>15. IsFound(found, c, filters, k)
  <2>1. ASSUME NEW i \in DOMAIN found, NEW j \in DOMAIN found, found[i].chunk = found[j].chunk
        PROVE  i = j
    <3>1. i \in DOMAIN order /\ j \in DOMAIN order /\ i \in Int /\ j \in Int
      BY <1>13, <1>14
    <3>2. order[i] = order[j]
      BY <1>1, <1>13, <2>1, <3>1
    <3>3. ~ (order[i] < order[j]) /\ ~ (order[j] < order[i])
      BY <1>13, <3>1, <3>2
    <3>4. ~ (i < j) /\ ~ (j < i)
      BY <1>12, <3>1, <3>3 DEF IsPicked
    <3> QED BY <3>1, <3>4
  <2>2. \A i \in DOMAIN found : Passes(c, found[i].chunk, filters)
    BY <1>1, <1>13, <1>14
  <2> QED BY <1>11, <1>14, <2>1, <2>2 DEF IsFound
<1>16. ASSUME Cardinality(named) <= k, NEW x \in ChunksOf(ranked), c.doc[x] \in named
       PROVE  \E y \in ChunksOf(found) : c.doc[y] = c.doc[x]
  <2>1. PICK i \in DOMAIN ranked : ranked[i].chunk = x
    BY DEF ChunksOf
  <2>2. PICK n \in L : c.doc[ranked[n].chunk] = c.doc[x]
    BY <1>3, <1>16, <2>1
  <2>3. Cardinality(L) <= k
    <3>1. Cardinality(named) \in Nat
      BY FS_CardinalityType
    <3> QED BY <1>3, <1>5, <1>16, <3>1
  <2>4. n \in P
    BY <1>6, <2>3 DEF P
  <2>5. PICK j \in DOMAIN order : order[j] = n
    BY <1>12, <2>4 DEF IsPicked
  <2>6. j \in DOMAIN found /\ found[j] = ranked[n]
    BY <1>13, <1>14, <2>5
  <2> QED BY <2>2, <2>6 DEF ChunksOf
<1> QED BY <1>15, <1>16 DEF found

(* A reranked search stays in the scope, and has a chunk of each compared  *)
(* document if there is room for them and the search of it finds anything. *)
LEMMA RerankedSearchIs ==
    ASSUME NEW c, NEW r, IsSearch(c, r), NEW arm
    PROVE  /\ IsFound(RerankedSearch(arm, c, r), c, r.filters, r.top_k)
           /\ arm.balance /\ Cardinality(ComparisonDocuments(r)) <= RerankDepth
              /\ Cardinality(ComparisonDocuments(r)) <= r.top_k =>
                \A d \in ComparisonDocuments(r) :
                  BaseSearch(arm, c, r.query, RerankDepth, OnlyOf(r.filters, d)) # <<>> =>
                  \E x \in ChunksOf(RerankedSearch(arm, c, r)) : c.doc[x] = d
<1> DEFINE query == IF arm.expand THEN c.expanded[r.query] ELSE r.query
           named == IF arm.balance THEN ComparisonDocuments(r) ELSE {}
           pool == Candidates(arm, c, r)
           ranked == Reranked(pool, c.relevance[query])
           found == RerankedSearch(arm, c, r)
<1>1. /\ IsCorpus(c) /\ IsScored(c, r.query) /\ IsScored(c, c.expanded[r.query])
      /\ r.top_k \in Nat \ {0}
  BY DEF IsSearch
<1>2. r.top_k \in Nat
  BY <1>1
<1>3. c.relevance[query] \in [DOMAIN c.doc -> Int]
  BY <1>1 DEF IsScored
<1>4. IsFiniteSet(named)
  BY ComparedAre, FS_EmptySet
<1>5. found = SelectWithCoverage(c, ranked, named, r.top_k)
  BY DEF RerankedSearch
<1>6. IsFound(pool, c, r.filters, RerankDepth)
  BY CandidatesAre
<1> HIDE DEF query, pool
<1>7. /\ IsFound(ranked, c, r.filters, Len(ranked)) /\ ChunksOf(ranked) = ChunksOf(pool)
  BY <1>1, <1>3, <1>6, RerankedIs
<1> HIDE DEF ranked, named, found
<1>8. IsFound(found, c, r.filters, r.top_k)
  BY <1>2, <1>4, <1>5, <1>7, SelectIs
<1>9. ASSUME arm.balance, Cardinality(ComparisonDocuments(r)) <= RerankDepth,
             Cardinality(ComparisonDocuments(r)) <= r.top_k, NEW d \in ComparisonDocuments(r),
             BaseSearch(arm, c, r.query, RerankDepth, OnlyOf(r.filters, d)) # <<>>
      PROVE  \E x \in ChunksOf(found) : c.doc[x] = d
  <2>1. PICK x \in ChunksOf(pool) : c.doc[x] = d
    BY <1>9, CandidatesAre DEF pool
  <2>2. named = ComparisonDocuments(r)
    BY <1>9 DEF named
  <2>3. \A y \in ChunksOf(ranked) : c.doc[y] \in named =>
          \E z \in ChunksOf(found) : c.doc[z] = c.doc[y]
    BY <1>2, <1>4, <1>5, <1>7, <1>9, <2>2, SelectIs
  <2> QED BY <1>7, <1>9, <2>1, <2>2, <2>3
<1> QED BY <1>8, <1>9 DEF found

(* Every arm finds chunks of the scope, top_k at most and none twice. *)
LEMMA SearchFinds ==
    ASSUME NEW c, NEW r, IsSearch(c, r), NEW name
    PROVE  IsFound(Search(name, c, r), c, r.filters, r.top_k)
<1>1. /\ IsCorpus(c) /\ IsScored(c, r.query) /\ r.top_k \in Nat \ {0}
  BY DEF IsSearch
<1>2. r.top_k \in Nat
  BY <1>1
<1>3. IsFound(Bm25Search(c, r.query, r.top_k, r.filters), c, r.filters, r.top_k)
  BY <1>1, <1>2, LexicalFinds
<1>4. IsFound(DenseSearch(c, r.query, r.top_k, r.filters), c, r.filters, r.top_k)
  BY <1>1, <1>2, DenseFinds
<1>5. IsFound(HybridSearch(c, r.query, r.top_k, r.filters, FALSE), c, r.filters, r.top_k)
  BY <1>1, <1>2, HybridFinds
<1>6. IsFound(RerankedSearch(ArmOf(name), c, r), c, r.filters, r.top_k)
  BY RerankedSearchIs
<1> DEFINE kind == ArmOf(name).search
<1>7. CASE kind = "bm25"
  BY <1>3, <1>7 DEF Search
<1>8. CASE kind = "dense"
  BY <1>4, <1>8 DEF Search
<1>9. CASE kind = "rrf_hybrid"
  BY <1>5, <1>9 DEF Search
<1>10. CASE kind \notin {"bm25", "dense", "rrf_hybrid"}
  BY <1>6, <1>10 DEF Search
<1> QED BY <1>7, <1>8, <1>9, <1>10

(* What a list finds is as many chunks as it is long. *)
LEMMA FoundOnce ==
    ASSUME NEW c, NEW filters, NEW k, NEW list, IsFound(list, c, filters, k)
    PROVE  Cardinality(ChunksOf(list)) = Len(list)
<1> DEFINE f == [i \in 1 .. Len(list) |-> list[i].chunk]
           S == ChunksOf(list)
<1>1. /\ Len(list) \in Nat /\ DOMAIN list = 1 .. Len(list)
      /\ \A i, j \in DOMAIN list : list[i].chunk = list[j].chunk => i = j
  BY DEF IsFound
<1>2. /\ DOMAIN f = 1 .. Len(list) /\ \A i \in 1 .. Len(list) : f[i] \in S
      /\ \A x \in S : \E i \in 1 .. Len(list) : f[i] = x
      /\ \A i, j \in 1 .. Len(list) : f[i] = f[j] => i = j
  BY <1>1 DEF ChunksOf
<1>3. f \in [1 .. Len(list) -> S]
  BY <1>2
<1> HIDE DEF f, S
<1>4. ExistsBijection(1 .. Len(list), S)
  BY <1>2, <1>3 DEF ExistsBijection, Bijection, Injection, Surjection, IsInjective
<1>5. Cardinality(S) = Len(list)
  BY <1>1, <1>4, FS_CountingElements
<1> QED BY <1>5 DEF S

(* What each arm finds. *)
ArmsOf(c, r) == [name \in ArmNames |-> Search(name, c, r)]

(* The arms stay in the scope of the request. *)
LEMMA ScopeIsKept ==
    ASSUME NEW c, NEW r, IsSearch(c, r),
           NEW arms, arms = ArmsOf(c, r)
    PROVE  StaysInScope(c, r, arms)
<1>1. ASSUME NEW name \in ArmNames
      PROVE  /\ Len(arms[name]) <= r.top_k
             /\ Cardinality(ChunksOf(arms[name])) = Len(arms[name])
             /\ \A x \in ChunksOf(arms[name]) : Passes(c, x, r.filters)
  <2>1. IsFound(arms[name], c, r.filters, r.top_k)
    BY SearchFinds DEF ArmsOf
  <2>2. Cardinality(ChunksOf(arms[name])) = Len(arms[name])
    BY <2>1, FoundOnce
  <2>3. \A x \in ChunksOf(arms[name]) : Passes(c, x, r.filters)
    BY <2>1 DEF IsFound, ChunksOf
  <2> QED BY <2>1, <2>2, <2>3 DEF IsFound
<1>2. \A found \in Range(arms) : \E name \in ArmNames : found = arms[name]
  BY DEF Range, ArmsOf
<1> QED BY <1>1, <1>2 DEF StaysInScope

(* The arms that balance cover what a comparison compares. *)
LEMMA ComparisonsAreCovered ==
    ASSUME NEW c, NEW r, IsSearch(c, r),
           NEW arms, arms = ArmsOf(c, r)
    PROVE  ComparisonsCover(c, r, arms)
<1> DEFINE named == ComparisonDocuments(r)
           findable(arm, d) == BaseSearch(arm, c, r.query, RerankDepth, OnlyOf(r.filters, d)) # <<>>
<1>1. RerankDepth \in Nat /\ r.top_k \in Nat
  BY RetrievalAssumption DEF RetrievalAssumption, IsSearch
<1>2. Cardinality(named) \in Nat
  BY ComparedAre
<1>3. Min({r.top_k, RerankDepth}) <= r.top_k /\ Min({r.top_k, RerankDepth}) <= RerankDepth
      /\ Min({r.top_k, RerankDepth}) \in {r.top_k, RerankDepth}
  <2>1. \A x, y \in Int : Min({x, y}) <= x /\ Min({x, y}) <= y /\ Min({x, y}) \in {x, y}
    BY MinOfTwo
  <2>2. r.top_k \in Int /\ RerankDepth \in Int
    BY <1>1
  <2> QED BY <2>1, <2>2
<1> HIDE DEF named, findable
<1>4. ASSUME NEW name \in ArmNames, ArmOf(name).balance,
             Cardinality(named) <= Min({r.top_k, RerankDepth}), NEW d \in named,
             findable(ArmOf(name), d)
      PROVE  \E x \in ChunksOf(arms[name]) : c.doc[x] = d
  <2>1. arms[name] = RerankedSearch(ArmOf(name), c, r)
    <3>1. ArmOf(name).search = "rerank"
      BY <1>4 DEF ArmOf, Arm
    <3> QED BY <3>1 DEF Search, ArmsOf
  <2>2. Cardinality(named) <= r.top_k /\ Cardinality(named) <= RerankDepth
    BY <1>1, <1>2, <1>3, <1>4
  <2>3. \E x \in ChunksOf(RerankedSearch(ArmOf(name), c, r)) : c.doc[x] = d
    BY <1>4, <2>2, RerankedSearchIs DEF named, findable
  <2> QED BY <2>1, <2>3
<1> QED BY <1>4 DEF ComparisonsCover, named, findable, OnlyOf

(* The vector arm, windowed or not, finds chunks of the scope, and tells where. *)
LEMMA VectorFinds ==
    ASSUME NEW c, IsCorpus(c), NEW query, IsScored(c, query), NEW k \in Nat, NEW filters,
           NEW windowed
    PROVE  LET b == VectorSearch(c, query, k, filters, windowed)
           IN  /\ IsFound(b, c, filters, k)
               /\ \A i \in DOMAIN b : b[i].dense_rank = i /\ b[i].bm25_rank = NoRank
<1> DEFINE b == VectorSearch(c, query, k, filters, windowed)
<1>1. CASE ~ windowed
  BY <1>1, DenseFinds DEF VectorSearch
<1>2. CASE windowed
  <2> DEFINE hits == WindowsRanked(c, query, filters)
  <2>1. /\ b = DenseItems(hits, k)
        /\ IsFiniteSet(WindowScope(c, filters))
        /\ WindowScope(c, filters) \subseteq DOMAIN c.doc
        /\ \A x \in WindowScope(c, filters) : WindowBest(c, query)[x] \in Int
    BY <1>2, WindowedIs DEF VectorSearch
  <2>2. Len(hits) \in Nat
    <3>1. WindowScope(c, filters) \subseteq Int
      BY <2>1, CorpusIs
    <3> QED BY <2>1, <3>1, RankedIs DEF WindowsRanked
  <2>3. IsFound(b, c, filters, k)
    BY <1>2, WindowedFinds DEF VectorSearch
  <2> HIDE DEF hits, b
  <2>4. \A i \in DOMAIN b : b[i].dense_rank = i /\ b[i].bm25_rank = NoRank
    BY <2>1, <2>2, ArmsTellRanks
  <2> QED BY <2>3, <2>4 DEF b
<1> QED BY <1>1, <1>2

(* The lexical arm tells where it found a chunk. *)
LEMMA LexicalRanks ==
    ASSUME NEW c, IsCorpus(c), NEW query, IsScored(c, query), NEW k \in Nat, NEW filters
    PROVE  LET a == Bm25Search(c, query, k, filters)
           IN  \A i \in DOMAIN a : a[i].bm25_rank = i /\ a[i].dense_rank = NoRank
<1> DEFINE a == Bm25Search(c, query, k, filters)
           S == {x \in DOMAIN c.doc : c.lexical[query][x] > 0 /\ Passes(c, x, filters)}
           hits == Ranked(S, c.lexical[query])
<1>1. a = LexicalItems(hits, k)
  BY DEF Bm25Search, LexicalItems
<1>2. Len(hits) \in Nat
  <2>1. IsFiniteSet(S) /\ S \subseteq Int
    <3>1. S \in SUBSET DOMAIN c.doc
      OBVIOUS
    <3> HIDE DEF S
    <3> QED BY <3>1, CorpusIs, FS_Subset
  <2>2. \A x \in S : c.lexical[query][x] \in Int
    BY DEF IsScored
  <2> HIDE DEF S
  <2> QED BY <2>1, <2>2, RankedIs
<1> HIDE DEF hits, a
<1>3. \A i \in DOMAIN a : a[i].bm25_rank = i /\ a[i].dense_rank = NoRank
  BY <1>1, <1>2, ArmsTellRanks
<1> QED BY <1>3 DEF a

(* Agreement wins in every fusion of the two arms, however deep they are. *)
LEMMA ArmsAgree ==
    ASSUME NEW c, NEW r, IsSearch(c, r), NEW f \in Fusions(c, r)
    PROVE  AgreementWins(f.lists[1], f.lists[2], f.fused)
<1>1. PICK k \in {r.top_k, RerankDepth}, windowed \in BOOLEAN :
        LET a == Bm25Search(c, r.query, k * DepthFactor, r.filters)
            b == VectorSearch(c, r.query, k * DepthFactor, r.filters, windowed)
        IN  f.lists[1] = a /\ f.lists[2] = b /\ f.fused = Fuse(a, b)
  BY DEF Fusions
<1> DEFINE depth == k * DepthFactor
           a == Bm25Search(c, r.query, depth, r.filters)
           b == VectorSearch(c, r.query, depth, r.filters, windowed)
<1>2. IsCorpus(c) /\ IsScored(c, r.query) /\ depth \in Nat
  <2>1. k \in Nat /\ DepthFactor \in Nat
    BY RetrievalAssumption DEF RetrievalAssumption, IsSearch
  <2>2. depth \in Nat
    BY <2>1, SizesAreNat
  <2> QED BY <2>2 DEF IsSearch
<1>3. f.lists[1] = a /\ f.lists[2] = b /\ f.fused = Fuse(a, b)
  BY <1>1
<1> HIDE DEF depth
<1>4. /\ IsFound(a, c, r.filters, depth)
      /\ \A i \in DOMAIN a : a[i].bm25_rank = i /\ a[i].dense_rank = NoRank
  BY <1>2, LexicalFinds, LexicalRanks
<1>5. /\ IsFound(b, c, r.filters, depth)
      /\ \A i \in DOMAIN b : b[i].dense_rank = i /\ b[i].bm25_rank = NoRank
  BY <1>2, VectorFinds
<1> HIDE DEF a, b
<1>6. AgreementWins(a, b, Fuse(a, b))
  BY <1>2, <1>4, <1>5, AgreementHolds
<1> QED BY <1>3, <1>6

-----------------------------------------------------------------------------
(***************************************************************************)
(* The spans of a run.                                                     *)
(*                                                                         *)
(* A call's span ends in the next row: that row is the call's end or the   *)
(* run's.  What an admission is recorded on is found by going back over    *)
(* the admissions before it to the completed attempt they follow.          *)
(***************************************************************************)

(* The rows of a journal are numbered, and the last one alone is terminal. *)
LEMMA JournalIs ==
    ASSUME NEW log, Exports!IsJournal(log)
    PROVE  /\ Len(log) \in Nat /\ Len(log) # 0 /\ DOMAIN log = 1 .. Len(log)
           /\ \A i \in 1 .. Len(log) : log[i].event \in Exports!TERMINAL <=> i = Len(log)
<1>1. \E R \in {[event: STRING, node: STRING, call: Nat, ok: BOOLEAN]} : log \in Seq(R)
  BY DEF Exports!IsJournal
<1>2. PICK R : log \in Seq(R)
  BY <1>1
<1>3. Len(log) \in Nat /\ DOMAIN log = 1 .. Len(log)
  BY <1>2, LenProperties
<1>4. Len(log) # 0
  BY <1>2, EmptySeq DEF Exports!IsJournal
<1>5. \A i \in DOMAIN log : log[i].event \in Exports!TERMINAL <=> i = Len(log)
  BY DEF Exports!IsJournal
<1>6. \A i \in 1 .. Len(log) : log[i].event \in Exports!TERMINAL <=> i = Len(log)
  BY <1>3, <1>5, ZenonT(20)
<1>7. Len(log) \in Nat
  BY <1>3
<1>8. DOMAIN log = 1 .. Len(log)
  BY <1>3
<1> QED BY <1>4, <1>6, <1>7, <1>8, ZenonT(20)

(* A row is the first to close a span if it is the next one and closes it. *)
LEMMA NextRowCloses ==
    ASSUME NEW log, Len(log) \in Nat, NEW i \in 1 .. Len(log) - 1, NEW closing,
           log[i + 1].event \in Exports!TERMINAL \/ i + 1 \in closing
    PROVE  Exports!NextRow(log, i, closing) = i + 1
<1> DEFINE S == {Len(log)} \cup {k \in i + 1 .. Len(log) :
                                    log[k].event \in Exports!TERMINAL \/ k \in closing}
<1>1. i + 1 \in S
  OBVIOUS
<1>2. \A k \in S : k \in Int /\ i + 1 <= k
  OBVIOUS
<1>3. Exports!NextRow(log, i, closing) = Exports!Min(S)
  BY DEF Exports!NextRow
<1> HIDE DEF S
<1>4. Exports!Min(S) \in S /\ \A k \in S : Exports!Min(S) <= k
  BY <1>1, <1>2 DEF Exports!Min
<1> QED BY <1>1, <1>2, <1>3, <1>4

(* The next row of a started call closes its span. *)
ClosesNext(log, i) ==
    /\ i \in 1 .. Len(log) - 1
    /\ log[i].event = "model_started" => Exports!ModelSpan(log, i).to = i + 1
    /\ log[i].event = "tool_started" =>
         /\ Exports!ToolSpan(log, i).to = i + 1
         /\ Exports!ToolSpan(log, i).failed <=> log[i + 1].event # "tool_completed"
         /\ log[i + 1].event = "tool_completed" => log[i + 1].call = log[i].call

LEMMA CallsCloseNext ==
    ASSUME NEW log, Exports!IsJournal(log), NEW i \in DOMAIN log,
           log[i].event \in {"model_started", "tool_started"}
    PROVE  ClosesNext(log, i)
<1>0. Len(log) \in Nat /\ DOMAIN log = 1 .. Len(log)
  BY JournalIs
<1>1. \A k \in 1 .. Len(log) : log[k].event \in Exports!TERMINAL <=> k = Len(log)
  BY JournalIs
<1>2. i \in 1 .. Len(log) - 1
  <2>1. log[i].event \notin Exports!TERMINAL
    BY DEF Exports!TERMINAL
  <2>2. i \in 1 .. Len(log)
    BY <1>0
  <2>3. i # Len(log)
    BY <1>1, <2>1, <2>2
  <2> QED BY <1>0, <2>2, <2>3
<1>3. i + 1 \in DOMAIN log /\ i + 1 \in 1 .. Len(log)
  <2>1. i + 1 \in 1 .. Len(log)
    BY <1>0, <1>2
  <2> QED BY <1>0, <2>1
<1>4. CASE i + 1 = Len(log)
  <2>1. log[i + 1].event \in Exports!TERMINAL
    BY <1>1, <1>3, <1>4
  <2>2. \A closing : Exports!NextRow(log, i, closing) = i + 1
    BY <1>0, <1>2, <2>1, NextRowCloses
  <2>3. log[i + 1].event # "tool_completed"
    BY <2>1 DEF Exports!TERMINAL
  <2> QED BY <1>2, <2>2, <2>3 DEF ClosesNext, Exports!ModelSpan, Exports!ToolSpan, Exports!Span
<1>5. CASE i + 1 # Len(log)
  <2>1. i + 1 \in 2 .. Len(log) - 1 /\ (i + 1) - 1 = i
    BY <1>0, <1>2, <1>5
  <2>2. /\ log[i].event = "model_started" => log[i + 1].node = log[i].node
        /\ log[i].event = "tool_started"
             => log[i + 1].event \in {"tool_completed", "tool_failed"}
        /\ log[i].event = "tool_started" => log[i + 1].call = log[i].call
    <3> DEFINE m == i + 1
    <3>1. /\ log[m - 1].event = "model_started" => log[m].node = log[m - 1].node
          /\ log[m - 1].event = "tool_started"
               => log[m].event \in {"tool_completed", "tool_failed"}
          /\ log[m - 1].event = "tool_started" => log[m].call = log[m - 1].call
      <4> m \in 2 .. Len(log) - 1
        BY <2>1
      <4> HIDE DEF m
      <4> QED BY DEF Exports!IsJournal
    <3> QED BY <2>1, <3>1
  <2>3. CASE log[i].event = "model_started"
    <3> DEFINE closing == {j \in DOMAIN log : log[j].node = log[i].node}
    <3>1. i + 1 \in closing
      BY <1>3, <2>2, <2>3
    <3>2. Exports!NextRow(log, i, closing) = i + 1
      BY <1>0, <1>2, <3>1, NextRowCloses
    <3>3. Exports!ModelSpan(log, i).to = i + 1
      BY <3>2 DEF Exports!ModelSpan, Exports!Span
    <3> QED BY <1>2, <2>3, <3>3 DEF ClosesNext
  <2>4. CASE log[i].event = "tool_started"
    <3> DEFINE closing == {j \in Exports!Rows(log, "tool_completed")
                                  \cup Exports!Rows(log, "tool_failed") :
                             log[j].call = log[i].call}
    <3>1. i + 1 \in closing
      BY <1>3, <2>2, <2>4 DEF Exports!Rows
    <3>2. Exports!NextRow(log, i, closing) = i + 1
      BY <1>0, <1>2, <3>1, NextRowCloses
    <3>3. /\ Exports!ToolSpan(log, i).to = i + 1
          /\ Exports!ToolSpan(log, i).failed <=> log[i + 1].event # "tool_completed"
      BY <3>2 DEF Exports!ToolSpan, Exports!Span
    <3> QED BY <1>2, <2>2, <2>4, <3>3 DEF ClosesNext
  <2> QED BY <2>3, <2>4
<1> QED BY <1>4, <1>5

(* An admission follows, after other admissions, a completed attempt. *)
FollowsAttempt(log, i, c) ==
    /\ c \in 1 .. i - 2
    /\ log[c].event = "tool_started" /\ log[c + 1].event = "tool_completed"
    /\ \A k \in c + 2 .. i : log[k].event = "evidence_added"

LEMMA AdmissionsFollow ==
    ASSUME NEW log, Exports!IsJournal(log), NEW i \in DOMAIN log,
           log[i].event = "evidence_added"
    PROVE  \E c \in Nat : FollowsAttempt(log, i, c)
<1>0. Len(log) \in Nat /\ DOMAIN log = 1 .. Len(log)
  BY JournalIs
<1>1. \A k \in 1 .. Len(log) : log[k].event \in Exports!TERMINAL <=> k = Len(log)
  BY JournalIs
<1>2. i \in 1 .. Len(log) - 1
  <2>1. log[i].event \notin Exports!TERMINAL
    BY DEF Exports!TERMINAL
  <2>2. i \in 1 .. Len(log)
    BY <1>0
  <2>3. i # Len(log)
    BY <1>1, <2>1, <2>2
  <2> QED BY <1>0, <2>2, <2>3
<1>3. log[1].event \notin {"evidence_added", "tool_completed"}
  BY DEF Exports!IsJournal, Exports!TERMINAL
<1> DEFINE T == {j \in 1 .. i : \A k \in j .. i : log[k].event = "evidence_added"}
<1>4. i \in T /\ T \subseteq Nat
  BY <1>2
<1>5. PICK j \in T : \A y \in T : j <= y
  BY <1>4, LeastOf
<1>6. j \in 2 .. i /\ \A k \in j .. i : log[k].event = "evidence_added"
  <2>1. j \in 1 .. i /\ \A k \in j .. i : log[k].event = "evidence_added"
    OBVIOUS
  <2>2. log[j].event = "evidence_added"
    BY <1>0, <1>2, <2>1
  <2>3. j # 1
    BY <1>3, <2>2
  <2> QED BY <1>0, <1>2, <2>1, <2>3
<1>7. log[j].event = "evidence_added" /\ j \in 2 .. Len(log) - 1
  BY <1>0, <1>2, <1>6
<1>8. log[j - 1].event \in {"tool_completed", "evidence_added"}
  BY <1>7 DEF Exports!IsJournal
<1>9. log[j - 1].event # "evidence_added"
  <2> SUFFICES ASSUME log[j - 1].event = "evidence_added" PROVE FALSE
    OBVIOUS
  <2>1. \A k \in j - 1 .. i : log[k].event = "evidence_added"
    BY <1>2, <1>6
  <2>2. j - 1 \in T
    BY <1>2, <1>6, <2>1
  <2> QED BY <1>5, <1>6, <2>2
<1>10. log[j - 1].event = "tool_completed"
  BY <1>8, <1>9
<1>11. j - 1 \in 2 .. Len(log) - 1
  <2>1. j - 1 # 1
    BY <1>3, <1>10
  <2> QED BY <1>0, <1>7, <2>1
<1>12. log[(j - 1) - 1].event = "tool_started"
  BY <1>10, <1>11 DEF Exports!IsJournal
<1>13. (j - 1) - 1 = j - 2 /\ (j - 2) + 1 = j - 1 /\ (j - 2) + 2 = j
       /\ j - 2 \in Nat /\ j - 2 \in 1 .. i - 2
  BY <1>2, <1>6, <1>11
<1> HIDE DEF T
<1>14. FollowsAttempt(log, i, j - 2)
  BY <1>6, <1>10, <1>12, <1>13 DEF FollowsAttempt
<1> QED BY <1>13, <1>14

(* It is recorded on that attempt. *)
LEMMA AdmittedOnIt ==
    ASSUME NEW log, Exports!IsJournal(log), NEW i \in DOMAIN log, NEW c \in Nat,
           FollowsAttempt(log, i, c)
    PROVE  Exports!AdmittedOn(log, i) = {c}
<1>1. Len(log) \in Nat /\ DOMAIN log = 1 .. Len(log) /\ i \in 1 .. Len(log)
  BY JournalIs
<1> DEFINE S == {0} \cup {j \in Exports!Rows(log, "tool_started") : j < i}
<1>2. c \in 1 .. i - 2 /\ c \in S
  BY <1>1 DEF FollowsAttempt, Exports!Rows
<1>3. ASSUME NEW j \in S PROVE j \in Int /\ j <= c
  <2>1. CASE j = 0
    BY <2>1
  <2>2. CASE j # 0
    <3>1. j \in 1 .. Len(log) /\ log[j].event = "tool_started" /\ j < i
      BY <1>1, <2>2 DEF Exports!Rows
    <3>2. j # c + 1
      BY <3>1 DEF FollowsAttempt
    <3>3. ~ (j \in c + 2 .. i)
      BY <3>1 DEF FollowsAttempt
    <3> QED BY <1>1, <1>2, <3>1, <3>2, <3>3
  <2> QED BY <2>1, <2>2
<1>4. Exports!AdmittedOn(log, i) = {Exports!Max(S)} \ {0}
  BY DEF Exports!AdmittedOn
<1> HIDE DEF S
<1>5. Exports!Max(S) \in S /\ \A k \in S : Exports!Max(S) >= k
  <2>1. \A k \in S : c >= k
    BY <1>2, <1>3
  <2> QED BY <1>2, <2>1 DEF Exports!Max
<1>6. Exports!Max(S) = c /\ c # 0
  <2> DEFINE m == Exports!Max(S)
  <2>1. m \in S /\ m >= c
    BY <1>2, <1>5
  <2> HIDE DEF m
  <2>2. m \in Int /\ m <= c
    BY <2>1, <1>3
  <2>3. m = c /\ c # 0
    BY <1>1, <1>2, <2>1, <2>2
  <2> QED BY <2>3 DEF m
<1> QED BY <1>4, <1>6

(* A span that is not of a verification is of a started call, and ends next. *)
IsCallSpan(log, s) ==
    /\ s.from \in DOMAIN log
    /\ \/ log[s.from].event = "model_started" /\ s = Exports!ModelSpan(log, s.from)
          /\ s.kind = "chat"
       \/ log[s.from].event = "tool_started" /\ s = Exports!ToolSpan(log, s.from)
          /\ s.kind = "tool"

LEMMA CallSpanIs ==
    ASSUME NEW log, NEW s \in Exports!Spans(log), s.kind # "verify"
    PROVE  IsCallSpan(log, s)
<1>1. CASE \E i \in Exports!Rows(log, "model_started") : s = Exports!ModelSpan(log, i)
  <2>1. PICK i \in Exports!Rows(log, "model_started") : s = Exports!ModelSpan(log, i)
    BY <1>1
  <2>2. s.from = i /\ s.kind = "chat"
    BY <2>1 DEF Exports!ModelSpan, Exports!Span
  <2> QED BY <2>1, <2>2 DEF IsCallSpan, Exports!Rows
<1>2. CASE \E i \in Exports!Rows(log, "tool_started") : s = Exports!ToolSpan(log, i)
  <2>1. PICK i \in Exports!Rows(log, "tool_started") : s = Exports!ToolSpan(log, i)
    BY <1>2
  <2>2. s.from = i /\ s.kind = "tool"
    BY <2>1 DEF Exports!ToolSpan, Exports!Span
  <2> QED BY <2>1, <2>2 DEF IsCallSpan, Exports!Rows
<1>3. CASE \E i \in Exports!Rows(log, "verification_completed") :
             s = Exports!VerifySpan(log, i)
  BY <1>3 DEF Exports!VerifySpan, Exports!Span
<1> QED BY <1>1, <1>2, <1>3 DEF Exports!Spans

(* A verification is in no first row: its span begins in the row before. *)
LEMMA VerifySpanIs ==
    ASSUME NEW log, Exports!IsJournal(log),
           NEW i \in Exports!Rows(log, "verification_completed")
    PROVE  Exports!VerifySpan(log, i).from < Exports!VerifySpan(log, i).to
<1>1. DOMAIN log = 1 .. Len(log) /\ Len(log) \in Nat
  BY JournalIs
<1>2. i \in 1 .. Len(log) /\ log[i].event = "verification_completed"
  BY <1>1 DEF Exports!Rows
<1>3. i # 1
  BY <1>2 DEF Exports!IsJournal, Exports!TERMINAL
<1>4. i \in Nat /\ i >= 2
  BY <1>1, <1>2, <1>3
<1>5. Exports!Max({1, i - 1}) \in {1, i - 1}
  <2>1. \E x \in {1, i - 1} : \A y \in {1, i - 1} : x >= y
    BY <1>4
  <2> QED BY <2>1 DEF Exports!Max
<1>6. Exports!Max({1, i - 1}) < i
  BY <1>4, <1>5
<1> QED BY <1>6 DEF Exports!VerifySpan, Exports!Span

(* A journal's spans are its calls. *)
LEMMA SpansTell ==
    ASSUME NEW log, Exports!IsJournal(log)
    PROVE  Exports!SpansAreTheCalls(log)
<1> DEFINE spans == Exports!Spans(log)
           found == {s \in Exports!Spans(log) : s.kind # "verify"}
           Started == Exports!Rows(log, "model_started") \cup Exports!Rows(log, "tool_started")
<1>1. Len(log) \in Nat /\ DOMAIN log = 1 .. Len(log)
  BY JournalIs
<1>2. ASSUME NEW s \in found
      PROVE  /\ IsCallSpan(log, s) /\ s.from \in Started
             /\ ClosesNext(log, s.from) /\ s.to = s.from + 1
             /\ s.from \in 1 .. Len(log) - 1
  <2>1. IsCallSpan(log, s)
    BY CallSpanIs
  <2>2. ClosesNext(log, s.from)
    BY <2>1, CallsCloseNext DEF IsCallSpan
  <2>3. s.from \in Started
    BY <2>1 DEF IsCallSpan, Exports!Rows
  <2>4. s.to = s.from + 1 /\ s.from \in 1 .. Len(log) - 1
    BY <2>1, <2>2 DEF IsCallSpan, ClosesNext
  <2> QED BY <2>1, <2>2, <2>3, <2>4
<1>3. {s.from : s \in found} = Started
  <2>1. ASSUME NEW i \in Started PROVE \E s \in found : s.from = i
    <3>1. CASE i \in Exports!Rows(log, "model_started")
      <4>1. Exports!ModelSpan(log, i) \in found /\ Exports!ModelSpan(log, i).from = i
        BY <3>1 DEF Exports!Spans, Exports!ModelSpan, Exports!Span
      <4> QED BY <4>1
    <3>2. CASE i \in Exports!Rows(log, "tool_started")
      <4>1. Exports!ToolSpan(log, i) \in found /\ Exports!ToolSpan(log, i).from = i
        BY <3>2 DEF Exports!Spans, Exports!ToolSpan, Exports!Span
      <4> QED BY <4>1
    <3> QED BY <3>1, <3>2
  <2>2. \A s \in found : s.from \in Started
    BY <1>2
  <2> HIDE DEF found, Started
  <2> QED BY <2>1, <2>2
<1>4. ASSUME NEW s \in spans PROVE s.from < s.to
  <2>1. CASE s.kind # "verify"
    <3>1. s \in found
      BY <2>1
    <3>2. s.to = s.from + 1 /\ s.from \in 1 .. Len(log) - 1
      BY <3>1, <1>2
    <3>3. s.from \in Int
      BY <1>1, <3>2
    <3> QED BY <3>2, <3>3
  <2>2. CASE s.kind = "verify"
    <3>1. PICK i \in Exports!Rows(log, "verification_completed") :
                 s = Exports!VerifySpan(log, i)
      <4>1. \A i : Exports!ModelSpan(log, i).kind = "chat"
                  /\ Exports!ToolSpan(log, i).kind = "tool"
        BY DEF Exports!ModelSpan, Exports!ToolSpan, Exports!Span
      <4>2. \/ \E i \in Exports!Rows(log, "model_started") : s = Exports!ModelSpan(log, i)
            \/ \E i \in Exports!Rows(log, "tool_started") : s = Exports!ToolSpan(log, i)
            \/ \E i \in Exports!Rows(log, "verification_completed") :
                 s = Exports!VerifySpan(log, i)
        BY DEF Exports!Spans
      <4> QED BY <2>2, <4>1, <4>2
    <3> QED BY <3>1, VerifySpanIs
  <2> QED BY <2>1, <2>2
<1>5. ASSUME NEW s \in found, NEW i \in s.from + 1 .. s.to - 1 PROVE i \notin Started
  <2>1. s.to = s.from + 1 /\ s.from \in 1 .. Len(log) - 1
    BY <1>2
  <2>2. s.from \in Int
    BY <1>1, <2>1
  <2>3. s.from + 1 .. s.to - 1 = {}
    BY <2>1, <2>2
  <2> QED BY <2>3
<1>6. ASSUME NEW s \in found, s.kind = "tool", ~ s.failed
      PROVE  log[s.to].call = log[s.from].call
  <2>1. IsCallSpan(log, s) /\ ClosesNext(log, s.from) /\ s.to = s.from + 1
    BY <1>2
  <2>2. log[s.from].event = "tool_started" /\ s = Exports!ToolSpan(log, s.from)
    BY <1>6, <2>1 DEF IsCallSpan
  <2>3. log[s.from + 1].event = "tool_completed"
    BY <1>6, <2>1, <2>2 DEF ClosesNext
  <2> QED BY <2>1, <2>2, <2>3 DEF ClosesNext
<1>7. ASSUME NEW i \in Exports!Rows(log, "evidence_added")
      PROVE  /\ Exports!AdmittedOn(log, i) # {}
             /\ \A s \in found : s.from \in Exports!AdmittedOn(log, i) => s.to < i /\ ~ s.failed
  <2>1. i \in DOMAIN log /\ log[i].event = "evidence_added"
    BY DEF Exports!Rows
  <2>2. PICK c \in Nat : FollowsAttempt(log, i, c)
    BY <2>1, AdmissionsFollow
  <2>3. Exports!AdmittedOn(log, i) = {c}
    BY <2>1, <2>2, AdmittedOnIt
  <2>4. ASSUME NEW s \in found, s.from = c PROVE s.to < i /\ ~ s.failed
    <3>1. IsCallSpan(log, s) /\ ClosesNext(log, s.from) /\ s.to = s.from + 1
      BY <1>2
    <3>2. c \in 1 .. i - 2 /\ log[c].event = "tool_started"
          /\ log[c + 1].event = "tool_completed"
      BY <2>2 DEF FollowsAttempt
    <3>3. s = Exports!ToolSpan(log, c)
      BY <2>4, <3>1, <3>2 DEF IsCallSpan
    <3>4. ~ Exports!ToolSpan(log, c).failed
      BY <2>4, <3>1, <3>2 DEF ClosesNext
    <3>5. s.to < i
      BY <1>1, <2>1, <2>4, <3>1, <3>2
    <3> QED BY <3>3, <3>4, <3>5
  <2> QED BY <2>3, <2>4
<1> HIDE DEF spans, found, Started
<1>8. Exports!SpansAreTheCalls(log)
  <2> USE DEF spans, found, Started
  <2> QED BY <1>3, <1>4, <1>5, <1>6, <1>7 DEF Exports!SpansAreTheCalls
<1> QED BY <1>8

-----------------------------------------------------------------------------
(* A job computes on an input of its own, and a search puts out what it finds. *)
InputInv ==
    /\ job = "rank" => input \in Rankings
    /\ job = "decide" => input \in Decisions
    /\ job = "ablate" => input \in Ablations
    /\ job = "claims" => input \in Checks
    /\ job = "spans" => input \in Journals
    /\ job = "search" => /\ input \in Searches
                         /\ output.arms = ArmsOf(input[1], input[2])
                         /\ output.windows = WindowedSearch(input[1], input[2].query,
                                                           input[2].top_k, input[2].filters)
                         /\ output.fusions = Fusions(input[1], input[2])

-----------------------------------------------------------------------------
(***************************************************************************)
(* The properties of Offline: a step of one machine is no step of another. *)
(***************************************************************************)

(* Every step is a step of each machine or leaves it alone. *)
LEMMA OfflineStep ==
    ASSUME [OfflineNext]_offlineVars
    PROVE  /\ [Disk!Next]_diskVars /\ [Review!Next]_reviewVars
           /\ [Exports!Next]_traceVars /\ [Gate!Next]_armVars /\ [Server!Next]_serverVars
<1>1. CASE UNCHANGED offlineVars
    BY <1>1 DEF offlineVars, machineVars
<1>2. CASE KeepCorpus
    BY <1>2 DEF KeepCorpus
<1>3. CASE ReviewReports
    BY <1>3 DEF ReviewReports
<1>4. CASE ExportRuns
    BY <1>4 DEF ExportRuns
<1>5. CASE CompareGates
    BY <1>5 DEF CompareGates
<1>6. CASE ServeRequests
    BY <1>6 DEF ServeRequests
<1>7. CASE SearchCorpus \/ GradeRetrieval \/ GradeDecision \/ Ablate \/ CheckClaims \/ MakeSpans
    BY <1>7 DEF SearchCorpus, GradeRetrieval, GradeDecision, Ablate, CheckClaims, MakeSpans,
               Compute, machineVars
<1> QED BY <1>1, <1>2, <1>3, <1>4, <1>5, <1>6, <1>7 DEF OfflineNext

(* Whatever was ingested, revised or left behind by a dead process between,   *)
(* chunks that load under a window index are of the sources the manifest      *)
(* names by their ids, and the index was made from them unless a build died   *)
(* behind its vectors and none ended since.                                   *)
THEOREM LoadedIsCurrent == OfflineSpec => []WhatLoadsIsCurrent
<1>1. OfflineInit => CorpusInv
    BY CorpusInit DEF OfflineInit
<1>2. CorpusInv /\ [OfflineNext]_offlineVars => CorpusInv'
    BY OfflineStep, CorpusStep
<1>3. CorpusInv => WhatLoadsIsCurrent
    BY CorpusTells DEF WhatLoadsIsCurrent
<1> QED BY <1>1, <1>2, <1>3, PTL DEF OfflineSpec

(* The invariant of the label review. *)
LEMMA ReviewHolds == OfflineSpec => []ReviewInv
<1>1. OfflineInit => ReviewInv
    BY ReviewInit DEF OfflineInit
<1>2. ReviewInv /\ [OfflineNext]_offlineVars => ReviewInv'
    BY OfflineStep, ReviewStep
<1> QED BY <1>1, <1>2, PTL DEF OfflineSpec

(* The frozen labels of what may be reported, or compared, before any         *)
(* correction: one of every case, a complete judgement of the very answer     *)
(* reported, which calls no failed run a success.  Corrections may (see the   *)
(* run failures_win).                                                         *)
THEOREM LabelsAreReviews == OfflineSpec => []ReportedLabelsAreReviews
<1>1. ReviewInv => ReportedLabelsAreReviews
    BY ReviewReported DEF ReportedLabelsAreReviews
<1> QED BY <1>1, ReviewHolds, PTL

(* No outcome that may be reported was settled after a verdict of the judge   *)
(* on its report had been unsealed.                                           *)
THEOREM OutcomesFirst == OfflineSpec => []OutcomesPredateVerdicts
<1>1. ReviewInv => OutcomesPredateVerdicts
    BY ReviewOutcomes DEF OutcomesPredateVerdicts
<1> QED BY <1>1, ReviewHolds, PTL

(* Every second trace of a run tells of a race or a death, and the marker is  *)
(* of a trace of the run, whatever processes export it, at any time, and die. *)
THEOREM SecondTraceExplained == OfflineSpec => []ExportsRaceOrDie
<1>1. OfflineInit => ExportInv
    BY ExportInit DEF OfflineInit
<1>2. ExportInv /\ [OfflineNext]_offlineVars => ExportInv'
    BY OfflineStep, ExportStep
<1>3. ExportInv => ExportsRaceOrDie
    BY ExportTells DEF ExportsRaceOrDie
<1> QED BY <1>1, <1>2, <1>3, PTL DEF OfflineSpec

(* The arms of the ablation meet the same faults on the same tasks, however   *)
(* they interleave, and differ by what the gate withholds and the repair adds. *)
THEOREM AblationFair == OfflineSpec => []AblationIsFair
<1>1. OfflineInit => GateInv
    BY GateInit DEF OfflineInit
<1>2. GateInv /\ [OfflineNext]_offlineVars => GateInv'
    BY OfflineStep, GateStep
<1>3. GateInv => AblationIsFair
    BY GateTells DEF AblationIsFair
<1> QED BY <1>1, <1>2, <1>3, PTL DEF OfflineSpec

(* A request is answered by the arm and in the mode it names, with the model  *)
(* setting of the start, whatever was cached before and rebuilt meanwhile.    *)
THEOREM AnsweredAsAsked == OfflineSpec => []ServedAsAsked
<1>1. OfflineInit => ServerInv
    BY ServerInit DEF OfflineInit
<1>2. ServerInv /\ [OfflineNext]_offlineVars => ServerInv'
    BY OfflineStep, ServerStep
<1>3. ServerInv => ServedAsAsked
    BY ServerTells DEF ServedAsAsked
<1> QED BY <1>1, <1>2, <1>3, PTL DEF OfflineSpec

(* The invariant of the jobs that compute. *)
LEMMA InputHolds == OfflineSpec => []InputInv
<1>1. OfflineInit => InputInv
  BY DEF OfflineInit, InputInv
<1>2. InputInv /\ [OfflineNext]_offlineVars => InputInv'
  <2> SUFFICES ASSUME InputInv, [OfflineNext]_offlineVars
               PROVE  InputInv'
    OBVIOUS
  <2>1. CASE UNCHANGED offlineVars
    BY <2>1 DEF offlineVars, InputInv
  <2>2. CASE job' \in {"corpus", "review", "export", "gates", "serve"}
    BY <2>2 DEF InputInv
  <2>3. CASE GradeRetrieval
    BY <2>3 DEF GradeRetrieval, Compute, InputInv
  <2>4. CASE GradeDecision
    BY <2>4 DEF GradeDecision, Compute, InputInv
  <2>5. CASE Ablate
    BY <2>5 DEF Ablate, Compute, InputInv
  <2>6. CASE CheckClaims
    BY <2>6 DEF CheckClaims, Compute, InputInv
  <2>7. CASE SearchCorpus
    <3>1. job' = "search" /\ input' \in Searches
      BY <2>7 DEF SearchCorpus, Compute
    <3>2. output'.arms = ArmsOf(input'[1], input'[2])
      BY <2>7 DEF SearchCorpus, ArmsOf
    <3>3. output'.windows = WindowedSearch(input'[1], input'[2].query, input'[2].top_k,
                                           input'[2].filters)
      BY <2>7 DEF SearchCorpus
    <3>4. output'.fusions = Fusions(input'[1], input'[2])
      BY <2>7 DEF SearchCorpus
    <3> QED BY <3>1, <3>2, <3>3, <3>4 DEF InputInv
  <2>8. CASE MakeSpans
    BY <2>8 DEF MakeSpans, Compute, InputInv
  <2> QED BY <2>1, <2>2, <2>3, <2>4, <2>5, <2>6, <2>7, <2>8 DEF OfflineNext, KeepCorpus,
             ReviewReports, ExportRuns, CompareGates, ServeRequests
<1> QED BY <1>1, <1>2, PTL DEF OfflineSpec

(* Whatever result is graded, its graders agree. *)
THEOREM GradersAgree == OfflineSpec => []GradesAgree
<1>1. InputInv => GradesAgree
  <2> SUFFICES ASSUME InputInv PROVE GradesAgree
    OBVIOUS
  <2>1. ASSUME job = "rank"
        PROVE  Grading!RetrievalGradersAgree(input[1], input[2], input[3])
    BY <2>1, OfflineAssumption, RankingGrades DEF InputInv
  <2>2. ASSUME job = "decide"
        PROVE  Grading!DecisionsAgree(input[1], input[2])
    BY <2>2, OfflineAssumption, DecisionGrades DEF InputInv
  <2> QED BY <2>1, <2>2 DEF GradesAgree
<1> QED BY <1>1, InputHolds, PTL

(* Whatever answer is checked, against whatever evidence and with whatever    *)
(* judge: its claims have the citations of their sentences and of those that  *)
(* follow, what counts as supported is quoted from evidence the claim itself  *)
(* cites, a rubric has one verdict on each point, and an answer whose audit   *)
(* finds nothing unsafe has no claim that is uncited or badly cited.          *)
THEOREM SupportEvidenced == OfflineSpec => []SupportIsEvidenced
<1>1. InputInv => SupportIsEvidenced
  <2> SUFFICES ASSUME InputInv PROVE SupportIsEvidenced
    OBVIOUS
  <2>1. ASSUME job = "claims"
        PROVE  /\ Grading!ClaimsCarryTheirCitations(input[1])
               /\ Grading!SupportIsEvidenced(input[1], input[2], input[3])
               /\ \A n \in DOMAIN input[3].replies :
                    Grading!GradedRubricsAreWhole(input[3].replies[n], 2)
    <3>1. IsCheck(input[1], input[3])
      BY <2>1, OfflineAssumption DEF InputInv
    <3>2. input[1] \in Grading!Answer /\ input[3].replies \in Seq(Grading!Reply)
      BY <3>1 DEF IsCheck
    <3>3. ASSUME NEW n \in DOMAIN input[3].replies
          PROVE  Grading!GradedRubricsAreWhole(input[3].replies[n], 2)
      <4>1. input[3].replies[n].indices \in Seq(Int)
        <5>1. input[3].replies[n] \in Grading!Reply
          BY <3>2
        <5> QED BY <5>1 DEF Grading!Reply
      <4> QED BY <4>1, RubricIsWhole
    <3> QED BY <3>1, <3>2, <3>3, CitationsAreCarried, SupportTells
  <2>2. ASSUME job = "ablate"
        PROVE  Grading!AblationIsSound(input[1], input[2])
    BY <2>2, OfflineAssumption, AblationTells DEF InputInv
  <2> QED BY <2>1, <2>2 DEF SupportIsEvidenced
<1> QED BY <1>1, InputHolds, PTL

(* Whatever corpus is searched, with whatever scores: each arm returns at most *)
(* top_k chunks of the scope and none twice; and in a fusion of two arms, as   *)
(* deep as the arms are searched, a chunk that both found comes before one     *)
(* that only one found and that it outweighs, each with the rank it had in     *)
(* either, whichever arm is named first.  Deeper than rank RrfK + 1 in both a  *)
(* chunk of both may come after one that is first in one.                      *)
THEOREM SearchAgrees == OfflineSpec => []SearchesAgree
<1>1. InputInv => SearchesAgree
  <2> SUFFICES ASSUME InputInv, job = "search"
               PROVE  /\ \A f \in output.fusions :
                           AgreementWins(f.lists[1], f.lists[2], f.fused)
                      /\ StaysInScope(input[1], input[2], output.arms)
    BY DEF SearchesAgree
  <2>1. IsSearch(input[1], input[2])
    BY OfflineAssumption DEF InputInv
  <2>2. output.arms = ArmsOf(input[1], input[2])
        /\ output.fusions = Fusions(input[1], input[2])
    BY DEF InputInv
  <2>3. \A f \in output.fusions : AgreementWins(f.lists[1], f.lists[2], f.fused)
    BY <2>1, <2>2, ArmsAgree
  <2>4. StaysInScope(input[1], input[2], output.arms)
    BY <2>1, <2>2, ScopeIsKept
  <2> QED BY <2>3, <2>4
<1> QED BY <1>1, InputHolds, PTL

(* Whatever corpus is searched: a windowed search leaves no chunk out that has *)
(* a better window than one it returns, and a comparison with room for its     *)
(* documents returns a chunk of each one the arm finds anything in.            *)
THEOREM SearchCovers == OfflineSpec => []SearchesCover
<1>1. InputInv => SearchesCover
  <2> SUFFICES ASSUME InputInv, job = "search"
               PROVE  /\ WindowsAreExhaustive(input[1], input[2], output.windows)
                      /\ ComparisonsCover(input[1], input[2], output.arms)
    BY DEF SearchesCover
  <2>1. IsSearch(input[1], input[2])
    BY OfflineAssumption DEF InputInv
  <2>2. output.arms = ArmsOf(input[1], input[2])
        /\ output.windows = WindowedSearch(input[1], input[2].query, input[2].top_k,
                                           input[2].filters)
    BY DEF InputInv
  <2>3. IsCorpus(input[1]) /\ IsScored(input[1], input[2].query) /\ input[2].top_k \in Nat
    BY <2>1 DEF IsSearch
  <2> QED BY <2>1, <2>2, <2>3, WindowsExhausted, ComparisonsAreCovered
<1> QED BY <1>1, InputHolds, PTL

(* The spans of a run are its calls, however it ended: each started call has   *)
(* one, which its own end or the run's closes, none begins within another, and *)
(* what a call found is recorded on the attempt that found it.                 *)
THEOREM SpansAgree == OfflineSpec => []SpansAreTheCalls
<1>1. InputInv => SpansAreTheCalls
  <2> SUFFICES ASSUME InputInv, job = "spans" PROVE Exports!SpansAreTheCalls(input)
    BY DEF SpansAreTheCalls
  <2>1. Exports!IsJournal(input)
    BY OfflineAssumption DEF InputInv
  <2> QED BY <2>1, SpansTell
<1> QED BY <1>1, InputHolds, PTL

===============================================================================
