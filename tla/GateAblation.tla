---------------------------- MODULE GateAblation ----------------------------
(***************************************************************************)
(* Experiment C: the citation gate taken apart                             *)
(* (experiments/citation_gate_ablation.py).  Three arms answer the same    *)
(* tasks concurrently, each task with a V1 agent of its own graph: without *)
(* checks, with them, and with one repair.  A fault schedule may replace   *)
(* every so-many-th draft by one that cites a place nobody retrieved.      *)
(*                                                                         *)
(* A draft is known by what the auditor says of it: "good"; "bad", with a  *)
(* citation in error; "garbled", with attempts but no citation; "uncited"; *)
(* "empty".  What the stub writes depends on the task alone.               *)
(***************************************************************************)
EXTENDS Integers, Sequences, FiniteSets

CONSTANTS
    Suites,    \* sequences of [evidence, honest, fault, behavior]
    Schedules, \* values of --fault-every; 0 turns it off
    LiveTasks  \* bound: the longest suite a live model answers

Arms == {"ungated", "verify_only", "verify_repair"}
LiveDrafts == {"good", "bad", "garbled", "uncited", "empty"}

VARIABLES
    suite, every, live,
    node,     \* arm -> where its agent is in the current task
    counter,  \* arm -> the calls its faulty writer counts
    drafts,   \* arm -> the drafts of the current task
    results   \* arm -> what it recorded, a task after the other

gateVars == <<suite, every, live, node, counter, drafts, results>>

Init ==
    /\ suite = <<>> /\ every = 0 /\ live = FALSE
    /\ node = [a \in Arms |-> "search"]
    /\ counter = [a \in Arms |-> 0]
    /\ drafts = [a \in Arms |-> <<>>]
    /\ results = [a \in Arms |-> <<>>]

\* Faults are injected into the stub only.
Prepare ==
    /\ suite = <<>> /\ suite' \in Suites
    /\ every' \in Schedules /\ live' \in BOOLEAN
    /\ live' => every' = 0 /\ Len(suite') <= LiveTasks
    /\ UNCHANGED <<node, counter, drafts, results>>

-----------------------------------------------------------------------------
At(a, n) == node[a] = n /\ Len(results[a]) < Len(suite)
Task(a) == suite[Len(results[a]) + 1]

\* Mutation: one counter for all the tasks of an arm.
CounterKept(a) == counter

\* A new faulty writer for each task, which counts from the task's index.
CounterReset(a) == [counter EXCEPT ![a] = Len(results[a])]

\* record and the audits, under the arm and the task.
Record(a, status) ==
    /\ results' = [results EXCEPT ![a] = Append(@,
         [status |-> status, drafts |-> drafts[a],
          repaired |-> node[a] = "rewrite" \/ Len(drafts[a]) > 1])]
    /\ drafts' = [drafts EXCEPT ![a] = <<>>]
    /\ node' = [node EXCEPT ![a] = "search"]

Search(a) ==
    /\ At(a, "search")
    /\ \/ /\ Task(a).evidence
          /\ counter' = CounterReset(a)
          /\ node' = [node EXCEPT ![a] = "write"]
          /\ UNCHANGED <<drafts, results>>
       \/ /\ ~ Task(a).evidence
          /\ Record(a, "abstained")
          /\ UNCHANGED counter
    /\ UNCHANGED <<suite, every, live>>

\* What the delegate of the recording writer answers, the counter at n.
Drafted(task, n) ==
    CASE live -> LiveDrafts
      [] ~ live /\ every > 0 /\ n % every = 0 -> {task.fault}
      [] OTHER -> {task.honest}

Write(a) ==
    /\ At(a, "write") \/ At(a, "rewrite")
    /\ counter' = [counter EXCEPT ![a] = @ + 1]
    /\ \E d \in Drafted(Task(a), counter[a] + 1) : drafts' = [drafts EXCEPT ![a] = Append(@, d)]
    /\ node' = [node EXCEPT ![a] = "verify"]
    /\ UNCHANGED <<suite, every, live, results>>

\* The retriever fails, or the live writer does.
Fails(a) ==
    /\ At(a, "search") \/ (live /\ (At(a, "write") \/ At(a, "rewrite")))
    /\ Record(a, "failed")
    /\ UNCHANGED <<suite, every, live, counter>>

\* The ungated verifier approves whatever parses; that nothing does, the
\* graph sees for itself.
Approved(a, d) ==
    IF a = "ungated" THEN d \in {"good", "bad", "empty"} ELSE d \in {"good", "empty"}

MaxRepairs(a) == IF a = "verify_repair" THEN 1 ELSE 0

Verify(a) ==
    /\ At(a, "verify")
    /\ LET draft == drafts[a][Len(drafts[a])]
           repairs == Len(drafts[a]) - 1
       IN  \/ Approved(a, draft) /\ Record(a, "completed")
           \/ /\ ~ Approved(a, draft) /\ repairs < MaxRepairs(a)
              /\ node' = [node EXCEPT ![a] = "rewrite"]
              /\ UNCHANGED <<drafts, results>>
           \/ ~ Approved(a, draft) /\ repairs = MaxRepairs(a) /\ Record(a, "abstained")
    /\ UNCHANGED <<suite, every, live, counter>>

Next == Prepare \/ \E a \in Arms : Search(a) \/ Write(a) \/ Fails(a) \/ Verify(a)

-----------------------------------------------------------------------------
(***************************************************************************)
(* The artifact.                                                           *)
(***************************************************************************)

Delivered(a, i) == results[a][i].status = "completed"
DraftsOf(a, i) == results[a][i].drafts
Final(a, i) == DraftsOf(a, i)[Len(DraftsOf(a, i))]
Recorded(a) == DOMAIN results[a]

\* The metrics the arms are compared by: validity is not scored without a gate.
Scores(a, i) ==
    LET r == results[a][i]
        right == (suite[i].behavior = "abstain") = (r.status = "abstained")
        valid == r.status = "abstained" \/ (r.status = "completed" /\ Final(a, i) = "good")
        score(b) == IF b THEN 1 ELSE 0
    IN  [m \in {"abstention_correctness"}
               \cup (IF a = "ungated" THEN {} ELSE {"post_gate_citation_validity"}) |->
           IF m = "abstention_correctness" THEN score(right) ELSE score(valid)]

\* paired: the tasks both arms scored by the metric, and who was better.
Paired(left, right, m) ==
    LET both == {i \in Recorded(left) \cap Recorded(right) :
                   m \in DOMAIN Scores(left, i) \cap DOMAIN Scores(right, i)}
        diff(i) == Scores(left, i)[m] - Scores(right, i)[m]
    IN  [wins |-> {i \in both : diff(i) > 0}, lost_on |-> {i \in both : diff(i) < 0},
         ties |-> {i \in both : diff(i) = 0}]

\* summarize_citation_ablation, where it is about repairs.
RepairTriggers(a) == {i \in Recorded(a) : results[a][i].repaired}
RepairSuccesses(a) ==
    {i \in RepairTriggers(a) : Delivered(a, i) /\ Final(a, i) \in {"good", "empty"}}

-----------------------------------------------------------------------------
(***************************************************************************)
(* Properties.                                                             *)
(***************************************************************************)

BothDrafted(i, a, b) ==
    \A arm \in {a, b} : i \in Recorded(arm) /\ DraftsOf(arm, i) # <<>>

\* With the stub, every arm meets the same first draft of a task, however
\* many drafts its earlier tasks took ("DECISION: reset injection by task",
\* experiments/citation_gate_ablation.py:190).
FaultsAreShared ==
    \A a, b \in Arms : \A i \in 1 .. Len(suite) :
      ~ live /\ BothDrafted(i, a, b) => Head(DraftsOf(a, i)) = Head(DraftsOf(b, i))

\* The gate delivers nothing the auditor finds in error, and with the stub
\* it only withholds: what one gated arm delivers, the other two deliver.
GateOnlyWithholds ==
    /\ \A a \in Arms \ {"ungated"} : \A i \in Recorded(a) :
         Delivered(a, i) => Final(a, i) \in {"good", "empty"}
    /\ \A a \in Arms : \A i \in 1 .. Len(suite) :
         ~ live /\ BothDrafted(i, a, "verify_only") /\ Delivered("verify_only", i)
           => Delivered(a, i) /\ Final(a, i) = Final("verify_only", i)

\* With the stub, the repairs that succeeded are what the repairing arm
\* delivers beyond the verifying one, it is never worse on a question that
\* has an answer, and a fault that is not permanent is repaired.
RepairsAddUp ==
    LET drafted == {i \in 1 .. Len(suite) : BothDrafted(i, "verify_repair", "verify_only")}
        lost == Paired("verify_repair", "verify_only", "abstention_correctness").lost_on
    IN  ~ live =>
          /\ RepairSuccesses("verify_repair") \cap drafted
               = {i \in drafted : Delivered("verify_repair", i) /\ ~ Delivered("verify_only", i)}
          /\ \A i \in lost \cap drafted : suite[i].behavior = "abstain"
          /\ every # 1 => \A i \in drafted :
               suite[i].honest = "good" => Delivered("verify_repair", i)

AblationIsFair == FaultsAreShared /\ GateOnlyWithholds /\ RepairsAddUp

===============================================================================
