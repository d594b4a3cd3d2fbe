----------------------------- MODULE V1GraphProofs -----------------------------
(***************************************************************************)
(* Proofs about V1Graph, for every corpus, budget, draft and verdict: the  *)
(* loop and the run are bounded, hard failures keep their kind, what is    *)
(* returned as completed was verified, and what was found is shown.        *)
(***************************************************************************)
EXTENDS V1Graph, SequenceTheorems, FiniteSetTheorems, TLAPS

Searching == {"search", "assess", "refine"}
BeforeDraft == Searching \cup {"resolve_refs", "select_evidence", "answerability"}
Ending == {"finalize", "abstain"}

(* Kept folded where only numbers matter. *)
Tried == Len(queries)

(* Which queries were asked, where in the search loop, and what that cost. *)
Asked ==
    /\ queries \in Seq({"asked", "widened"})
    /\ Tried = 2 => queries[2] = "widened"

QueriesInv ==
    /\ Asked
    /\ Tried \in 0..2
    /\ nextNode \in {"assess", "refine"} => Tried > 0
    /\ searchesUsed \in Nat /\ searchesUsed <= budget.searches
    /\ searchesUsed <= Tried
    /\ nextNode = "search" => Tried # 1 /\ searchesUsed < 2

(* The supersteps of the searches before the current one. *)
Earlier == IF Tried = 2 THEN 3 ELSE 0

(* Supersteps, by the place of the run. *)
StepsInv ==
    /\ steps \in Nat
    /\ nextNode = "search" => steps <= Earlier
    /\ nextNode = "assess" => steps <= Earlier + 1
    /\ nextNode = "refine" => steps <= Earlier + 2
    /\ nextNode = "resolve_refs" => steps <= 6
    /\ nextNode = "select_evidence" => steps <= 7
    /\ nextNode = "answerability" => steps <= 8
    /\ nextNode = "write" => steps <= 9 + 3 * repairs
    /\ nextNode = "verify" => steps <= 10 + 3 * repairs
    /\ nextNode = "repair" => steps <= 11 + 3 * repairs /\ repairs < budget.repairs
    /\ nextNode \in Ending \cup {"fail"} => steps <= 11 + 3 * repairs
    /\ steps <= 12 + 3 * budget.repairs

(* Model calls, by the place of the run. *)
CallsInv ==
    LET judge == IF gate THEN 1 ELSE 0
    IN /\ modelCalls \in Nat /\ repairs \in Nat /\ repairs <= budget.repairs
       /\ nextNode \in BeforeDraft => modelCalls = 0 /\ repairs = 0
       /\ nextNode = "answerability" => gate
       /\ nextNode = "write" => modelCalls <= repairs + judge
       /\ modelCalls <= repairs + judge + 1

LoopInv ==
    /\ nextNode \in Nodes \cup Over
    /\ budget \in Budgets /\ gate \in BOOLEAN
    /\ QueriesInv /\ StepsInv /\ CallsInv

(* Budgets are records of naturals. *)
LEMMA BudgetNumbers ==
    ASSUME NEW b \in Budgets
    PROVE  b.searches \in Nat /\ b.iterations \in Nat /\ b.repairs \in Nat
BY ResearchAssumption DEF ResearchAssumption, Budget

(* At the start nothing was searched. *)
LEMMA LoopInit == ResearchInit => LoopInv
<1> SUFFICES ASSUME ResearchInit PROVE LoopInv
    OBVIOUS
<1>1. /\ budget \in Budgets /\ gate \in BOOLEAN
      /\ budget.searches \in Nat /\ budget.repairs \in Nat
    BY BudgetNumbers, ResearchAssumption DEF ResearchInit, ResearchAssumption
<1> QED
    BY <1>1 DEF ResearchInit, LoopInv, QueriesInv, Asked, Tried, StepsInv, CallsInv, Earlier,
                Nodes, Over, BeforeDraft, Searching, Ending

(* The refiner has a query left exactly when the first one is the only one. *)
LEMMA WidensOnce ==
    ASSUME Asked, Tried \in 1..2, CanWiden, queries' = Append(queries, "widened")
    PROVE  Tried = 1 /\ Tried' = 2 /\ Asked'
<1>1. Tried # 2
    BY DEF CanWiden, ToSet, Asked, Tried
<1>2. Len(queries) = 1 /\ queries \in Seq({"asked", "widened"})
    BY <1>1 DEF Asked, Tried
<1>3. ASSUME NEW S, queries \in Seq(S), NEW e \in S
      PROVE  /\ Append(queries, e) \in Seq(S)
             /\ Len(Append(queries, e)) = Len(queries) + 1
             /\ Append(queries, e)[Len(queries) + 1] = e
    BY <1>3, AppendProperties
<1>4. /\ queries' \in Seq({"asked", "widened"})
      /\ Len(queries') = Len(queries) + 1
      /\ queries'[Len(queries) + 1] = "widened"
    BY <1>2, <1>3
<1> QED
    BY <1>2, <1>4 DEF Asked, Tried

(* The first search asks the question itself, a later one the last query. *)
LEMMA AsksNext ==
    ASSUME Asked, SearchReturns
    PROVE  /\ Asked'
           /\ (Tried = 0 /\ Tried' = 1) \/ (Tried # 0 /\ Tried' = Tried)
<1>1. CASE queries = << >>
  <2>1. <<"asked">> \in Seq({"asked", "widened"}) /\ Len(<<"asked">>) = 1
      OBVIOUS
  <2>2. queries' = <<"asked">> /\ Len(queries) = 0
      BY <1>1 DEF SearchReturns
  <2>3. queries' \in Seq({"asked", "widened"}) /\ Len(queries') # 2
      BY <2>1, <2>2
  <2>4. Tried = 0 /\ Tried' = 1
      BY <2>1, <2>2 DEF Tried
  <2>5. Asked'
      BY <2>3 DEF Asked, Tried
  <2> QED
      BY <2>4, <2>5
<1>2. CASE queries # << >>
  <2>1. Tried # 0
      BY <1>2 DEF Asked, Tried
  <2>2. queries' = queries
      BY <1>2 DEF SearchReturns
  <2> QED
      BY <2>1, <2>2 DEF Asked, Tried
<1> QED
    BY <1>1, <1>2

(* Every step keeps the loop within its bounds. *)
LEMMA LoopStep == LoopInv /\ [ResearchNext]_researchVars => LoopInv'
<1> SUFFICES ASSUME LoopInv, [ResearchNext]_researchVars PROVE LoopInv'
    OBVIOUS
<1> USE DEF Node
<1>0. /\ budget.searches \in Nat /\ budget.iterations \in Nat
      /\ budget.repairs \in Nat
    BY BudgetNumbers DEF LoopInv
<1>1. CASE UNCHANGED researchVars
    BY <1>1 DEF researchVars, runVars, loopVars, draftVars, endVars, LoopInv, QueriesInv, Asked,
                Tried, StepsInv, CallsInv, Earlier
<1>2. ASSUME RunStep PROVE UNCHANGED <<budget, gate>> /\ nextNode' \in Nodes \cup Over
    BY <1>2 DEF RunStep, SearchRefused, SearchFails, SearchReturns, Assess, Refine,
        ResolveRefs, NothingFound, SelectEvidence, GateFails, JudgeIsInvalid,
        JudgeAnswers, WriteFails, Write, Verify, Repair, Finalize, Abstain, Fail,
        Raise, runVars, Nodes, Over
<1>3. ASSUME RunStep PROVE QueriesInv'
  <2> USE <1>0 DEF LoopInv, QueriesInv
  <2>1. CASE SearchReturns
    <3>1. /\ nextNode = "search" /\ nextNode' = "assess" /\ searchesUsed' = searchesUsed + 1
          /\ searchesUsed < budget.searches
        BY <2>1 DEF SearchReturns
    <3> QED
        BY <3>1, <2>1, AsksNext, <1>2, <1>3
  <2>2. CASE Assess
      BY <2>2, <1>2, <1>3 DEF Assess, Asked, Tried
  <2>3. CASE Refine
    <3>1. CASE CanWiden
      <4>1. /\ nextNode = "refine" /\ nextNode' = "search" /\ UNCHANGED searchesUsed
            /\ queries' = Append(queries, "widened")
          BY <2>3, <3>1 DEF Refine
      <4>2. Tried = 1 /\ Tried' = 2 /\ Asked'
          BY <4>1, <3>1, WidensOnce
      <4> QED
          BY <4>1, <4>2, <1>2, <1>3
    <3>2. CASE ~ CanWiden
        BY <2>3, <3>2, <1>2, <1>3 DEF Refine, Asked, Tried
    <3> QED BY <3>1, <3>2
  <2>4. ASSUME ~ SearchReturns, ~ Assess, ~ Refine
        PROVE  /\ UNCHANGED <<queries, searchesUsed>>
               /\ nextNode' \notin {"assess", "refine", "search"}
      BY <2>4, <1>3 DEF RunStep, SearchRefused, SearchFails, ResolveRefs, NothingFound,
        SelectEvidence, GateFails, JudgeIsInvalid, JudgeAnswers, WriteFails, Write,
        Verify, Repair, Finalize, Abstain, Fail, Raise, loopVars
  <2>5. ASSUME ~ SearchReturns, ~ Assess, ~ Refine PROVE QueriesInv'
      BY <2>4, <2>5, <1>2, <1>3 DEF Asked, Tried
  <2> QED
      BY <2>1, <2>2, <2>3, <2>5
<1>4. ASSUME RunStep PROVE StepsInv' /\ CallsInv'
  <2> USE <1>0 DEF LoopInv, StepsInv, CallsInv, BeforeDraft, Searching, Ending
  <2>0. /\ Earlier \in {0, 3} /\ (queries' = queries => Earlier' = Earlier)
        /\ 3 * repairs <= 3 * budget.repairs /\ 3 * budget.repairs \in Nat
      BY DEF Earlier, Tried
  <2>1. CASE SearchRefused \/ SearchFails
      BY <2>1, <2>0, <1>2, <1>4 DEF SearchRefused, SearchFails, loopVars, draftVars
  <2>10. CASE NothingFound \/ Finalize \/ Abstain \/ Fail
    <3>1. /\ nextNode \in Ending \cup {"select_evidence", "fail"} /\ nextNode' = "end"
          /\ UNCHANGED <<repairs, modelCalls>> /\ steps' = steps + 1
        BY <2>10 DEF NothingFound, Finalize, Abstain, Fail, draftVars
    <3>2. steps <= 11 + 3 * budget.repairs
        BY <2>0, <3>1
    <3> QED
        BY <3>1, <3>2, <1>2, <1>4
  <2>9. CASE Raise
    <3>1. steps <= 11 + 3 * budget.repairs
        BY <2>9, <2>0 DEF Raise, Nodes
    <3> QED
        BY <3>1, <2>9, <1>2, <1>4 DEF Raise, draftVars
  <2>2. CASE SearchReturns
    <3>0. nextNode = "search" /\ QueriesInv
        BY <2>2 DEF SearchReturns
    <3>1. Earlier' = Earlier
        BY <3>0, <2>2, AsksNext DEF Earlier, QueriesInv
    <3> QED
        BY <3>1, <2>2, <2>0, <1>2, <1>4 DEF SearchReturns, draftVars
  <2>3. CASE Assess
      BY <2>3, <2>0, <1>2, <1>4 DEF Assess, draftVars
  <2>4. CASE Refine
    <3>1. CASE CanWiden
      <4>0. nextNode = "refine" /\ queries' = Append(queries, "widened")
          BY <2>4, <3>1 DEF Refine
      <4>1. Tried = 1 /\ Tried' = 2
          BY <4>0, <3>1, WidensOnce DEF QueriesInv
      <4>3. Earlier = 0 /\ Earlier' = 3
          BY <4>1 DEF Earlier
      <4> QED
          BY <2>4, <3>1, <4>3, <1>2, <1>4 DEF Refine, draftVars
    <3>2. CASE ~ CanWiden
      <4>1. /\ nextNode = "refine" /\ nextNode' = "resolve_refs" /\ steps' = steps + 1
            /\ UNCHANGED <<repairs, modelCalls>>
          BY <2>4, <3>2 DEF Refine, draftVars
      <4> QED
          BY <4>1, <2>0, <1>2, <1>4
    <3> QED BY <3>1, <3>2
  <2>5. CASE ResolveRefs \/ SelectEvidence
    <3>1. /\ UNCHANGED <<repairs, modelCalls>> /\ steps' = steps + 1
          /\ \/ nextNode = "resolve_refs" /\ nextNode' = "select_evidence"
             \/ /\ nextNode = "select_evidence"
                /\ nextNode' = IF gate THEN "answerability" ELSE "write"
        BY <2>5 DEF ResolveRefs, SelectEvidence, draftVars
    <3>2. repairs = 0 /\ modelCalls = 0 /\ steps' <= 8
        BY <3>1
    <3> QED
        BY <3>1, <3>2, <1>2, <1>4
  <2>6. CASE GateFails \/ JudgeIsInvalid \/ JudgeAnswers
    <3>1. /\ UNCHANGED repairs /\ modelCalls' = modelCalls + 1 /\ steps' = steps + 1
          /\ nextNode = "answerability" /\ nextNode' \in {"fail", "end", "write"}
        BY <2>6 DEF GateFails, JudgeIsInvalid, JudgeAnswers, CallsModel, draftVars
    <3>2. gate /\ repairs = 0 /\ modelCalls = 0 /\ steps' <= 9
        BY <3>1
    <3> QED
        BY <3>1, <3>2, <1>2, <1>4
  <2>7. CASE WriteFails \/ Write
    <3>1. /\ UNCHANGED repairs /\ modelCalls' = modelCalls + 1 /\ steps' = steps + 1
          /\ nextNode = "write" /\ nextNode' \in {"fail", "verify"}
        BY <2>7 DEF WriteFails, Write, CallsModel, draftVars
    <3>2. steps' <= 10 + 3 * repairs
        BY <3>1
    <3> QED
        BY <3>1, <3>2, <2>0, <1>2, <1>4
  <2>8. CASE Verify
    <3>1. /\ UNCHANGED <<repairs, modelCalls>> /\ steps' = steps + 1
          /\ nextNode = "verify" /\ nextNode' \in {"finalize", "repair", "abstain"}
          /\ nextNode' = "repair" => repairs < budget.repairs
        BY <2>8 DEF Verify
    <3>2. steps' <= 11 + 3 * repairs
        BY <3>1
    <3> QED
        BY <3>1, <3>2, <2>0, <1>2, <1>4
  <2>11. CASE Repair
    <3>1. /\ repairs' = repairs + 1 /\ UNCHANGED modelCalls /\ steps' = steps + 1
          /\ nextNode = "repair" /\ nextNode' = "write"
        BY <2>11 DEF Repair
    <3>2. /\ repairs' \in Nat /\ repairs' <= budget.repairs
          /\ steps' <= 9 + 3 * repairs' /\ 3 * repairs' <= 3 * budget.repairs
        BY <3>1
    <3> QED
        BY <3>1, <3>2, <1>2, <1>4
  <2> QED
      BY <2>1, <2>2, <2>3, <2>4, <2>5, <2>6, <2>7, <2>8, <2>9, <2>10, <2>11, <1>4 DEF RunStep
<1> QED
    BY <1>1, <1>2, <1>3, <1>4 DEF ResearchNext, Done, LoopInv

\* No budget buys a third search, every model call is a judgement or a draft, and the
\* number of supersteps depends on the repairs alone.
THEOREM LoopBounded == ResearchSpec => []LoopIsBounded
<1>1. ResearchSpec => []LoopInv
    BY LoopInit, LoopStep, PTL DEF ResearchSpec
<1>2. LoopInv => LoopIsBounded
  <2> SUFFICES ASSUME LoopInv PROVE LoopIsBounded
      OBVIOUS
  <2>1. budget.searches \in Nat /\ budget.repairs \in Nat
      BY BudgetNumbers DEF LoopInv
  <2>3. searchesUsed <= 2 /\ searchesUsed <= budget.searches
      BY <2>1 DEF LoopInv, QueriesInv
  <2>4. modelCalls <= repairs + (IF gate THEN 2 ELSE 1)
      BY DEF LoopInv, CallsInv
  <2> QED
      BY <2>1, <2>3, <2>4 DEF LoopInv, StepsInv, CallsInv, LoopIsBounded
<1> QED
    BY <1>1, <1>2, PTL

--------------------------------------------------------------------------------
(* Failures *)

(* A node fails the run only on an edge to the fail node. *)
FailInv ==
    /\ nextNode \in Nodes \cup Over
    /\ nextNode \in Nodes \ {"fail"} =>
          status # "failed" /\ failure = "none" /\ broke = "none"
    /\ nextNode = "fail" => status = "failed" /\ failure = broke /\ broke \in FailureKinds
    /\ FailuresStayFailures

(* Every step keeps failures what they are. *)
LEMMA FailStep == FailInv /\ [ResearchNext]_researchVars => FailInv'
<1> SUFFICES ASSUME FailInv, [ResearchNext]_researchVars PROVE FailInv'
    OBVIOUS
<1> USE DEF Node, FailInv, FailuresStayFailures, Nodes, Over, FailureKinds,
            ModelFailures, endVars
<1>1. CASE UNCHANGED researchVars
    BY <1>1 DEF researchVars
<1>2. CASE SearchRefused \/ SearchFails \/ GateFails \/ JudgeIsInvalid \/ WriteFails
    BY <1>2 DEF SearchRefused, SearchFails, GateFails, JudgeIsInvalid, WriteFails, FailsAs
<1>3. CASE SearchReturns \/ SelectEvidence
    BY <1>3 DEF SearchReturns, SelectEvidence
<1>4. CASE Assess \/ Refine \/ ResolveRefs \/ Write \/ Verify \/ Repair \/ Raise
    BY <1>4 DEF Assess, Refine, ResolveRefs, Write, Verify, Repair, Raise
<1>5. CASE JudgeAnswers
    BY <1>5 DEF JudgeAnswers
<1>6. CASE NothingFound \/ Finalize \/ Abstain
    BY <1>6 DEF NothingFound, Finalize, Abstain
<1>7. CASE Fail
    BY <1>7 DEF Fail
<1> QED
    BY <1>1, <1>2, <1>3, <1>4, <1>5, <1>6, <1>7 DEF ResearchNext, RunStep, Done

\* A hard failure ends the run as itself, and nothing else ends it as failed.
THEOREM FailuresKept == ResearchSpec => []FailuresStayFailures
<1>1. ResearchInit => FailInv
    BY DEF ResearchInit, FailInv, FailuresStayFailures, Nodes, Over
<1>2. FailInv => FailuresStayFailures
    BY DEF FailInv
<1> QED
    BY <1>1, <1>2, FailStep, PTL DEF ResearchSpec

--------------------------------------------------------------------------------
(* Completion *)

PassesNow == DraftPasses(draft)

Drafting == {"write", "verify", "repair", "finalize", "abstain"}

(* What the gate established before anything is drafted. *)
Judged ==
    gate => /\ verdict.verdict \in {"answerable", "partial"}
            /\ verdict.quoted # {} /\ verdict.quoted \subseteq evidence

CompletionInv ==
    /\ nextNode = "finalize" => PassesNow
    /\ nextNode \in Drafting => Judged
    /\ status = "completed" => nextNode = "end" /\ PassesNow /\ Judged /\ final = "draft"

(* What passed or was judged stays so while nothing it reads changes. *)
LEMMA SamePasses ==
    ASSUME UNCHANGED <<draft, retrieved>>
    PROVE  PassesNow' <=> PassesNow
BY DEF PassesNow, DraftPasses, HasErrors, Verified, Ids

(* Every step keeps the draft that passed the one that is returned. *)
LEMMA CompletionStep == CompletionInv /\ [ResearchNext]_researchVars => CompletionInv'
<1> SUFFICES ASSUME CompletionInv, [ResearchNext]_researchVars PROVE CompletionInv'
    OBVIOUS
<1> USE DEF Node, CompletionInv, Drafting, runVars, loopVars, draftVars, endVars
<1>1. CASE UNCHANGED researchVars
    BY <1>1, SamePasses DEF researchVars, Judged
<1>2. CASE SearchRefused \/ SearchFails \/ GateFails \/ JudgeIsInvalid \/ WriteFails
    BY <1>2 DEF SearchRefused, SearchFails, GateFails, JudgeIsInvalid, WriteFails, FailsAs
<1>3. CASE SearchReturns \/ Assess \/ Refine \/ ResolveRefs \/ NothingFound \/ Abstain \/ Fail
    BY <1>3 DEF SearchReturns, Assess, Refine, ResolveRefs, NothingFound, Abstain, Fail
<1>4. CASE SelectEvidence
    BY <1>4 DEF SelectEvidence, Judged
<1>5. CASE JudgeAnswers
  <2>1. PICK d \in JudgeDecisions : Valid(d) /\ verdict' = d
                             /\ (nextNode' = "end" \/ d.verdict # "unanswerable")
      BY <1>5 DEF JudgeAnswers
  <2>2. /\ nextNode = "answerability" /\ nextNode' \in {"end", "write"} /\ UNCHANGED evidence
        /\ status' \in {status, "abstained"}
      BY <1>5 DEF JudgeAnswers
  <2>3. d.verdict \in {"answerable", "partial", "unanswerable"}
      BY ResearchAssumption DEF ResearchAssumption, Decision
  <2>4. nextNode' = "write" => Judged'
      BY <2>1, <2>2, <2>3 DEF Judged, Valid, Consistent
  <2> QED
      BY <2>2, <2>4
<1>6. CASE Write \/ Repair \/ Raise
    BY <1>6 DEF Write, Repair, Raise, Nodes, Judged
<1>7. CASE Verify
  <2>1. nextNode' = "finalize" => PassesNow
      BY <1>7 DEF Verify, PassesNow
  <2>2. PassesNow' <=> PassesNow
      BY <1>7, SamePasses DEF Verify
  <2> QED
      BY <1>7, <2>1, <2>2 DEF Verify, Judged
<1>8. CASE Finalize
    BY <1>8, SamePasses DEF Finalize, Judged
<1> QED
    BY <1>1, <1>2, <1>3, <1>4, <1>5, <1>6, <1>7, <1>8 DEF ResearchNext, RunStep, Done

\* What is returned as completed passed the citation check against what was retrieved,
\* and the judge's quotes, where there is a judge, are of the evidence shown.
THEOREM CompletedVerified == ResearchSpec => []CompletedIsVerified
<1>1. ResearchInit => CompletionInv
    BY DEF ResearchInit, CompletionInv, Drafting
<1>2. CompletionInv => CompletedIsVerified
    BY DEF CompletionInv, CompletedIsVerified, PassesNow, DraftPasses, HasErrors, Verified,
           Ids, Judged
<1> QED
    BY <1>1, <1>2, CompletionStep, PTL DEF ResearchSpec

--------------------------------------------------------------------------------
(* Folds and sums *)

(* Totals over finite sets are ToolPolicyProofs's, whose constants they do not read. *)
Sums == INSTANCE ToolPolicyProofs WITH
         Docs <- {}, Granted <- {}, Evidence <- {}, DocOf <- << >>, Forged <- {},
         Size <- << >>, Queries <- {}, MaxToolCalls <- 0, MaxSearches <- 0,
         MaxRetries <- 0, MaxEvidenceItems <- 0, MaxEvidenceChars <- 0,
         ReservedToolCalls <- 0

(* Finite is finite there and here. *)
LEMMA SameFinite == \A S : Sums!IsFiniteSet(S) = IsFiniteSet(S)
BY DEF Sums!IsFiniteSet, IsFiniteSet

(* Among sets of subsets of a finite set there is a smallest one. *)
LEMMA SmallestSubset ==
    ASSUME NEW S, IsFiniteSet(S), NEW D, D \subseteq SUBSET S, D # {}
    PROVE  \E m \in D : \A t \in D : t \subseteq m => t = m
BY SameFinite, Sums!SmallestSubset, SMT

(* What holds of 0 and goes from each number to the next holds up to n. *)
LEMMA UpTo ==
    ASSUME NEW n \in Nat, NEW D, 0 \in D, \A i \in 1 .. n : i - 1 \in D => i \in D
    PROVE  \A i \in 0 .. n : i \in D
<1> DEFINE R == 0 .. n
           B == {0 .. i : i \in {k \in 0 .. n : k \notin D}}
<1>1. SUFFICES ASSUME B # {} PROVE FALSE
    BY <1>1
<1>2. IsFiniteSet(R)
    BY FS_Interval
<1>3. PICK m \in B : \A t \in B : t \subseteq m => t = m
  <2>1. B # {} /\ B \subseteq SUBSET R
      BY <1>1
  <2> HIDE DEF B, R
  <2> QED BY <2>1, <1>2, SmallestSubset
<1>4. PICK k \in 0 .. n : k \notin D /\ m = 0 .. k
    BY <1>3
<1>5. k # 0
    BY <1>4
<1>6. k - 1 \in 0 .. n /\ k - 1 \notin D
    BY <1>4, <1>5
<1>7. 0 .. (k - 1) \in B /\ 0 .. (k - 1) \subseteq 0 .. k
    BY <1>6
<1>8. k \in 0 .. k /\ k \notin 0 .. (k - 1)
    OBVIOUS
<1> QED BY <1>3, <1>4, <1>7, <1>8

(* The largest of a set of numbers is the member no other exceeds. *)
LEMMA MaxIs ==
    ASSUME NEW s, s \subseteq Int, NEW k \in s, \A i \in s : i <= k
    PROVE  Max(s) = k
<1>1. \E x \in s : \A y \in s : x >= y
    OBVIOUS
<1>2. Max(s) \in s /\ \A y \in s : Max(s) >= y
    BY <1>1 DEF Max
<1>3. \A x, y \in Int : x >= y /\ x <= y => x = y
    OBVIOUS
<1> QED BY <1>2, <1>3

(* g folds h over the subsets of 1 .. n, largest index last, as FoldLeft does. *)
IsFold(h, n, base, g) ==
    g = [s \in SUBSET (1 .. n) |->
           IF s = {} THEN base ELSE h[<<g[s \ {Max(s)}], Max(s)>>]]

(* Such a fold exists, and keeps the type its step keeps. *)
LEMMA FoldExists ==
    ASSUME NEW n \in Nat, NEW V, NEW base \in V, NEW h \in [V \X (1 .. n) -> V]
    PROVE  \E g : IsFold(h, n, base, g) /\ \A s \in SUBSET (1 .. n) : g[s] \in V
<1> DEFINE Typed(k, g) == \A s \in SUBSET (1 .. k) : g[s] \in V
           D == {k \in 0 .. n : \E g : IsFold(h, k, base, g) /\ Typed(k, g)}
<1>1. 0 \in D
  <2> DEFINE g == [s \in SUBSET (1 .. 0) |-> base]
  <2>1. \A s \in SUBSET (1 .. 0) : s = {}
      OBVIOUS
  <2>2. IsFold(h, 0, base, g) /\ Typed(0, g)
      BY <2>1 DEF IsFold
  <2>3. 0 \in 0 .. n
      OBVIOUS
  <2> HIDE DEF g
  <2> QED BY <2>2, <2>3
<1>2. ASSUME NEW k \in 1 .. n, k - 1 \in D PROVE k \in D
  <2>1. PICK g : IsFold(h, k - 1, base, g) /\ Typed(k - 1, g)
      BY <1>2
  <2> DEFINE f == [s \in SUBSET (1 .. k) |->
                     IF k \in s THEN h[<<g[s \ {k}], k>>] ELSE g[s]]
  <2>2. \A s \in SUBSET (1 .. k) :
          /\ k \notin s => s \in SUBSET (1 .. (k - 1))
          /\ s \ {k} \in SUBSET (1 .. (k - 1))
          /\ s \ {k} \in SUBSET (1 .. k) /\ k \notin s \ {k}
      OBVIOUS
  <2>3. \A s \in SUBSET (1 .. k) : f[s] \in V
      BY <2>1, <2>2
  <2>4. ASSUME NEW s \in SUBSET (1 .. k)
        PROVE  f[s] = IF s = {} THEN base ELSE h[<<f[s \ {Max(s)}], Max(s)>>]
    <3>1. CASE k \in s
      <4>0. s \subseteq Int /\ \A i \in s : i <= k
          OBVIOUS
      <4>1. Max(s) = k
          BY <3>1, <4>0, MaxIs
      <4>2. f[s] = h[<<g[s \ {k}], k>>] /\ f[s \ {k}] = g[s \ {k}]
          BY <3>1, <2>2
      <4> QED BY <3>1, <4>1, <4>2
    <3>2. CASE k \notin s
      <4>1. /\ s \in SUBSET (1 .. (k - 1)) /\ s \ {Max(s)} \in SUBSET (1 .. k)
            /\ k \notin s \ {Max(s)}
          BY <3>2, <2>2
      <4>2. f[s] = g[s] /\ f[s \ {Max(s)}] = g[s \ {Max(s)}]
          BY <3>2, <4>1
      <4>3. g[s] = IF s = {} THEN base ELSE h[<<g[s \ {Max(s)}], Max(s)>>]
          BY <2>1, <4>1 DEF IsFold
      <4> QED BY <4>2, <4>3
    <3> QED BY <3>1, <3>2
  <2>5. f = [s \in SUBSET (1 .. k) |-> f[s]]
      OBVIOUS
  <2> HIDE DEF f
  <2>6. IsFold(h, k, base, f)
      BY <2>4, <2>5 DEF IsFold
  <2> QED BY <2>3, <2>6
<1> HIDE DEF D
<1>3. n \in D
    BY <1>1, <1>2, UpTo
<1> QED BY <1>3 DEF D

(* A non-empty set of numbers up to n has one of them as its largest. *)
LEMMA MaxIn ==
    ASSUME NEW n \in Nat, NEW s \in SUBSET (1 .. n), s # {}
    PROVE  Max(s) \in s
<1> DEFINE D == {k \in 0 .. n : \A t \in SUBSET (1 .. k) :
                    t # {} => \E x \in t : \A y \in t : x >= y}
<1>1. 0 \in D
  <2>1. 0 \in 0 .. n /\ \A t \in SUBSET (1 .. 0) : t = {}
      OBVIOUS
  <2> QED BY <2>1
<1>2. ASSUME NEW k \in 1 .. n, k - 1 \in D PROVE k \in D
  <2>1. ASSUME NEW t \in SUBSET (1 .. k), t # {}
        PROVE  \E x \in t : \A y \in t : x >= y
    <3>1. CASE k \in t
      <4>1. \A y \in t : k >= y
          OBVIOUS
      <4> QED BY <3>1, <4>1
    <3>2. CASE k \notin t
      <4>1. t \in SUBSET (1 .. (k - 1))
          BY <3>2
      <4> QED BY <1>2, <2>1, <4>1
    <3> QED BY <3>1, <3>2
  <2> QED BY <2>1
<1>3. n \in D
  <2> HIDE DEF D
  <2> QED BY <1>1, <1>2, UpTo
<1>4. \E x \in s : \A y \in s : x >= y
    BY <1>3
<1> QED BY <1>4 DEF Max

(* The last index of a prefix. *)
LEMMA LastOfPrefix == ASSUME NEW i \in Nat \ {0} PROVE Max(1 .. i) = i
<1>1. i \in 1 .. i /\ 1 .. i \subseteq Int /\ \A k \in 1 .. i : k <= i
    OBVIOUS
<1> QED BY <1>1, MaxIs

(* One step of ShowVia. *)
ShowStep(via, kept, item) == IF item.via = via THEN Show(kept, item) ELSE kept
(* What ShowVia and Merged fold. *)
LEMMA ShowIsFold ==
    ASSUME NEW kept, NEW via
    PROVE  ShowVia(kept, via) =
             (CHOOSE g : g = [s \in SUBSET DOMAIN retrieved |->
                IF s = {} THEN kept
                ELSE ShowStep(via, g[s \ {Max(s)}], retrieved[Max(s)])])[DOMAIN retrieved]
BY DEF ShowVia, FoldLeft, MapThenFoldSet, ShowStep

(* Merging is a fold over the places of the hits. *)
LEMMA MergeIsFold ==
    ASSUME NEW hits
    PROVE  MergedHits(hits) =
             (CHOOSE g : g = [s \in SUBSET DOMAIN hits |->
                IF s = {} THEN retrieved
                ELSE Merge(g[s \ {Max(s)}], hits[Max(s)])])[DOMAIN hits]
BY DEF MergedHits, FoldLeft, MapThenFoldSet

(* ShowVia takes the retrieved items one after the other. *)
LEMMA ShowSteps ==
    ASSUME retrieved \in Seq(RetrievedItem), NEW kept \in SUBSET Chunks, NEW via
    PROVE  \E K : /\ K[0] = kept /\ K[Len(retrieved)] = ShowVia(kept, via)
                 /\ \A i \in 1 .. Len(retrieved) :
                        K[i] = ShowStep(via, K[i - 1], retrieved[i])
<1> DEFINE n == Len(retrieved)
           V == SUBSET Chunks
           h == [x \in V \X (1 .. n) |-> ShowStep(via, x[1], retrieved[x[2]])]
           Is(g) == g = [s \in SUBSET (1 .. n) |->
                           IF s = {} THEN kept
                           ELSE ShowStep(via, g[s \ {Max(s)}], retrieved[Max(s)])]
<1>1. n \in Nat /\ DOMAIN retrieved = 1 .. n
    OBVIOUS
<1>2. ASSUME NEW k \in V, NEW i \in 1 .. n
      PROVE  ShowStep(via, k, retrieved[i]) \in V
  <2>1. retrieved[i].id \in Chunks
    <3>1. retrieved[i] \in RetrievedItem
        BY <1>1
    <3> QED BY <3>1 DEF RetrievedItem
  <2> QED BY <2>1 DEF ShowStep, Show
<1>3. h \in [V \X (1 .. n) -> V]
    BY <1>2
<1>4. ASSUME NEW k \in V, NEW i \in 1 .. n
      PROVE  h[<<k, i>>] = ShowStep(via, k, retrieved[i])
    OBVIOUS
<1>5. PICK g : IsFold(h, n, kept, g) /\ \A s \in SUBSET (1 .. n) : g[s] \in V
  <2> HIDE DEF h, V, n
  <2>1. kept \in V
      BY DEF V
  <2> QED BY <1>1, <1>3, <2>1, FoldExists
<1>6. Is(g)
  <2>1. ASSUME NEW s \in SUBSET (1 .. n), s # {}
        PROVE  h[<<g[s \ {Max(s)}], Max(s)>>]
                 = ShowStep(via, g[s \ {Max(s)}], retrieved[Max(s)])
    <3>1. Max(s) \in 1 .. n
        BY <2>1, <1>1, MaxIn
    <3>2. s \ {Max(s)} \in SUBSET (1 .. n)
        OBVIOUS
    <3> HIDE DEF h
    <3> QED BY <3>1, <3>2, <1>4, <1>5
  <2> HIDE DEF h
  <2>2. g = [s \in SUBSET (1 .. n) |->
               IF s = {} THEN kept ELSE h[<<g[s \ {Max(s)}], Max(s)>>]]
      BY <1>5 DEF IsFold
  <2>3. \A s \in SUBSET (1 .. n) :
           g[s] = IF s = {} THEN kept ELSE ShowStep(via, g[s \ {Max(s)}], retrieved[Max(s)])
      BY <2>1, <2>2
  <2>4. g = [s \in SUBSET (1 .. n) |-> g[s]]
      BY <2>2
  <2> QED BY <2>3, <2>4
<1> DEFINE G == CHOOSE f : Is(f)
           K == [i \in 0 .. n |-> G[1 .. i]]
<1>7. Is(G)
  <2> HIDE DEF Is
  <2> QED BY <1>6
<1>8. ShowVia(kept, via) = G[1 .. n]
    BY <1>1, ShowIsFold
<1> HIDE DEF G
<1>9. G[1 .. 0] = kept
    BY <1>7
<1>10. ASSUME NEW i \in 1 .. n
       PROVE  G[1 .. i] = ShowStep(via, G[1 .. (i - 1)], retrieved[i])
  <2>1. i \in 1 .. i /\ 1 .. i \in SUBSET (1 .. n) /\ (1 .. i) \ {i} = 1 .. (i - 1)
      BY <1>1
  <2>4. Max(1 .. i) = i
      BY <1>1, LastOfPrefix
  <2>2. \A s \in SUBSET (1 .. n) :
           G[s] = IF s = {} THEN kept ELSE ShowStep(via, G[s \ {Max(s)}], retrieved[Max(s)])
      BY <1>7
  <2>3. G[1 .. i] = ShowStep(via, G[(1 .. i) \ {Max(1 .. i)}], retrieved[Max(1 .. i)])
      BY <2>1, <2>2
  <2> QED BY <2>1, <2>3, <2>4
<1>11. K[0] = kept /\ K[n] = ShowVia(kept, via)
    BY <1>1, <1>8, <1>9
<1>12. \A i \in 1 .. n : K[i] = ShowStep(via, K[i - 1], retrieved[i])
    BY <1>1, <1>10
<1> HIDE DEF K
<1> QED BY <1>11, <1>12

(* Merged takes the hits one after the other. *)
LEMMA MergeSteps ==
    ASSUME retrieved \in Seq(RetrievedItem), NEW hits \in Seq(Chunks)
    PROVE  \E K : /\ K[0] = retrieved /\ K[Len(hits)] = MergedHits(hits)
                 /\ \A i \in 1 .. Len(hits) : K[i] = Merge(K[i - 1], hits[i])
<1> DEFINE n == Len(hits)
           V == Seq(RetrievedItem)
           h == [x \in V \X (1 .. n) |-> Merge(x[1], hits[x[2]])]
           Is(g) == g = [s \in SUBSET (1 .. n) |->
                           IF s = {} THEN retrieved
                           ELSE Merge(g[s \ {Max(s)}], hits[Max(s)])]
<1>1. n \in Nat /\ DOMAIN hits = 1 .. n
    OBVIOUS
<1>2. ASSUME NEW k \in V, NEW i \in 1 .. n PROVE Merge(k, hits[i]) \in V
  <2>1. [id |-> hits[i], via |-> "search"] \in RetrievedItem
      BY <1>1 DEF RetrievedItem
  <2> QED BY <2>1, AppendProperties DEF Merge
<1>3. h \in [V \X (1 .. n) -> V]
    BY <1>2
<1>4. ASSUME NEW k \in V, NEW i \in 1 .. n PROVE h[<<k, i>>] = Merge(k, hits[i])
    OBVIOUS
<1>5. PICK g : IsFold(h, n, retrieved, g) /\ \A s \in SUBSET (1 .. n) : g[s] \in V
  <2> HIDE DEF h, V, n
  <2>1. retrieved \in V
      BY DEF V
  <2> QED BY <1>1, <1>3, <2>1, FoldExists
<1>6. Is(g)
  <2>1. ASSUME NEW s \in SUBSET (1 .. n), s # {}
        PROVE  h[<<g[s \ {Max(s)}], Max(s)>>] = Merge(g[s \ {Max(s)}], hits[Max(s)])
    <3>1. Max(s) \in 1 .. n
        BY <2>1, <1>1, MaxIn
    <3>2. s \ {Max(s)} \in SUBSET (1 .. n)
        OBVIOUS
    <3> HIDE DEF h
    <3> QED BY <3>1, <3>2, <1>4, <1>5
  <2> HIDE DEF h
  <2>2. g = [s \in SUBSET (1 .. n) |->
               IF s = {} THEN retrieved ELSE h[<<g[s \ {Max(s)}], Max(s)>>]]
      BY <1>5 DEF IsFold
  <2>3. \A s \in SUBSET (1 .. n) :
           g[s] = IF s = {} THEN retrieved ELSE Merge(g[s \ {Max(s)}], hits[Max(s)])
      BY <2>1, <2>2
  <2>4. g = [s \in SUBSET (1 .. n) |-> g[s]]
      BY <2>2
  <2> QED BY <2>3, <2>4
<1> DEFINE G == CHOOSE f : Is(f)
           K == [i \in 0 .. n |-> G[1 .. i]]
<1>7. Is(G)
  <2> HIDE DEF Is
  <2> QED BY <1>6
<1>8. MergedHits(hits) = G[1 .. n]
    BY <1>1, MergeIsFold
<1> HIDE DEF G
<1>9. G[1 .. 0] = retrieved
    BY <1>7
<1>10. ASSUME NEW i \in 1 .. n PROVE G[1 .. i] = Merge(G[1 .. (i - 1)], hits[i])
  <2>1. i \in 1 .. i /\ 1 .. i \in SUBSET (1 .. n) /\ (1 .. i) \ {i} = 1 .. (i - 1)
      BY <1>1
  <2>4. Max(1 .. i) = i
      BY <1>1, LastOfPrefix
  <2>2. \A s \in SUBSET (1 .. n) :
           G[s] = IF s = {} THEN retrieved ELSE Merge(G[s \ {Max(s)}], hits[Max(s)])
      BY <1>7
  <2>3. G[1 .. i] = Merge(G[(1 .. i) \ {Max(1 .. i)}], hits[Max(1 .. i)])
      BY <2>1, <2>2
  <2> QED BY <2>1, <2>3, <2>4
<1>11. K[0] = retrieved /\ K[n] = MergedHits(hits)
    BY <1>1, <1>8, <1>9
<1>12. \A i \in 1 .. n : K[i] = Merge(K[i - 1], hits[i])
    BY <1>1, <1>10
<1> HIDE DEF K
<1> QED BY <1>11, <1>12

--------------------------------------------------------------------------------
(* The evidence *)

(* Evidence fits its budget, unless one item is all of it; shows each location once; *)
(* and accounts for a chunk it shows or has no room for. *)
FitsBudget(S) ==
    S # {} => \/ SizeOf(S) <= budget.chars
              \/ Cardinality(S) = 1
Fine(S) ==
    /\ S \in SUBSET Chunks /\ IsFiniteSet(S)
    /\ \A c, d \in S : LocationOf[c] = LocationOf[d] => c = d
    /\ FitsBudget(S)
Accounts(S, c) ==
    \/ \E d \in S : LocationOf[c] = LocationOf[d]
    \/ SizeOf(S) + Size[c] > budget.chars

(* Sizes add up. *)
LEMMA SizeIsTotal == ASSUME NEW S PROVE SizeOf(S) = Sums!Total(Size, S)
BY DEF SizeOf, FoldSet, MapThenFoldSet, Sums!Total, Sums!SumFunctionOnSet, Sums!FoldFunctionOnSet,
       Sums!MapThenFoldSet

(* The size of a set of chunks is a number. *)
LEMMA SizeType ==
    ASSUME NEW S \in SUBSET Chunks, IsFiniteSet(S)
    PROVE  SizeOf(S) \in Nat
<1>1. Sums!IsFiniteSet(S)
    BY SameFinite
<1>2. \A c \in S : Size[c] \in Nat
    BY ResearchAssumption DEF ResearchAssumption
<1>3. Sums!Total(Size, S) \in Nat
    BY <1>1, <1>2, Sums!TotalType
<1> QED BY <1>3, SizeIsTotal

(* A chunk more adds its size. *)
LEMMA SizeAdd ==
    ASSUME NEW S \in SUBSET Chunks, IsFiniteSet(S), NEW c \in Chunks \ S
    PROVE  SizeOf(S \cup {c}) = SizeOf(S) + Size[c]
<1>1. Sums!IsFiniteSet(S)
    BY SameFinite
<1>2. \A d \in S \cup {c} : Size[d] \in Nat
    BY ResearchAssumption DEF ResearchAssumption
<1>3. Sums!Total(Size, S \cup {c}) = Sums!Total(Size, S) + Size[c]
    BY <1>1, <1>2, Sums!TotalAdd
<1> QED BY <1>3, SizeIsTotal

(* Offering one item keeps the evidence fine and accounts for the item. *)
LEMMA ShowOne ==
    ASSUME budget.chars \in Nat, NEW S, Fine(S), NEW item \in RetrievedItem
    PROVE  /\ Fine(Show(S, item)) /\ S \subseteq Show(S, item)
           /\ SizeOf(S) <= SizeOf(Show(S, item))
           /\ Show(S, item) # {} /\ Accounts(Show(S, item), item.id)
<1> DEFINE c == item.id
           T == S \cup {c}
           shown == \E d \in S : LocationOf[c] = LocationOf[d]
           over == SizeOf(S) + Size[c] > budget.chars /\ S # {}
<1>1. /\ c \in Chunks /\ Size[c] \in Nat /\ S \in SUBSET Chunks /\ IsFiniteSet(S)
      /\ SizeOf(S) \in Nat
  <2>1. c \in Chunks /\ Size[c] \in Nat
      BY ResearchAssumption DEF ResearchAssumption, RetrievedItem
  <2>2. S \in SUBSET Chunks /\ IsFiniteSet(S)
      BY DEF Fine
  <2> QED BY <2>1, <2>2, SizeType
<1>2. CASE shown \/ over
  <2>1. Show(S, item) = S
      BY <1>2 DEF Show
  <2>2. S # {} /\ Accounts(S, c)
      BY <1>2 DEF Accounts
  <2> QED BY <1>1, <2>1, <2>2
<1>3. CASE ~ shown /\ ~ over
  <2>1. Show(S, item) = T
      BY <1>3 DEF Show
  <2>2. c \notin S
      BY <1>3
  <2>3. SizeOf(T) = SizeOf(S) + Size[c]
      BY <1>1, <2>2, SizeAdd
  <2>4. T \in SUBSET Chunks /\ IsFiniteSet(T)
      BY <1>1, FS_AddElement
  <2>5. \A a, b \in T : LocationOf[a] = LocationOf[b] => a = b
      BY <1>3 DEF Fine
  <2>6. FitsBudget(T)
    <3>1. CASE S = {}
      <4>1. T = {c}
          BY <3>1
      <4>2. Cardinality({c}) = 1
          BY FS_Singleton
      <4> QED BY <4>1, <4>2 DEF FitsBudget
    <3>2. CASE S # {}
        BY <1>1, <1>3, <2>3, <3>2 DEF FitsBudget
    <3> QED BY <3>1, <3>2
  <2>7. c \in T /\ Accounts(T, c)
      BY DEF Accounts
  <2>8. Fine(T)
      BY <2>4, <2>5, <2>6 DEF Fine
  <2>9. SizeOf(S) <= SizeOf(T) /\ S \subseteq T
      BY <1>1, <2>3
  <2> HIDE DEF T
  <2> QED BY <2>1, <2>7, <2>8, <2>9
<1> QED BY <1>2, <1>3

(* What a smaller evidence accounts for, a larger one does. *)
LEMMA StillAccounted ==
    ASSUME budget.chars \in Nat, NEW S, Fine(S), NEW T, Fine(T), S \subseteq T,
           SizeOf(S) <= SizeOf(T), NEW c \in Chunks, Accounts(S, c)
    PROVE  Accounts(T, c)
<1>1. SizeOf(S) \in Nat /\ SizeOf(T) \in Nat
    BY SizeType DEF Fine
<1>2. Size[c] \in Nat
    BY ResearchAssumption DEF ResearchAssumption
<1> QED BY <1>1, <1>2 DEF Accounts

(* T is S with the first n items of one origin offered to it. *)
Shows(S, T, via, n) ==
    /\ Fine(T) /\ S \subseteq T /\ SizeOf(S) <= SizeOf(T)
    /\ \A i \in 1 .. n : retrieved[i].via = via => T # {} /\ Accounts(T, retrieved[i].id)

(* ShowVia accounts for every item of its origin. *)
LEMMA ShowsAll ==
    ASSUME retrieved \in Seq(RetrievedItem), budget.chars \in Nat, NEW S, Fine(S), NEW via
    PROVE  Shows(S, ShowVia(S, via), via, Len(retrieved))
<1> DEFINE n == Len(retrieved)
<1>1. n \in Nat /\ \A i \in 1 .. n : retrieved[i] \in RetrievedItem
    OBVIOUS
<1>2. PICK K : /\ K[0] = S /\ K[n] = ShowVia(S, via)
               /\ \A i \in 1 .. n : K[i] = ShowStep(via, K[i - 1], retrieved[i])
    BY ShowSteps DEF Fine
<1> HIDE DEF n
<1> DEFINE D == {i \in 0 .. n : Shows(S, K[i], via, i)}
<1>3. 0 \in D
  <2>1. SizeOf(S) \in Nat
      BY SizeType DEF Fine
  <2>2. Shows(S, K[0], via, 0)
      BY <2>1, <1>2 DEF Shows
  <2> QED BY <2>2, <1>1
<1>4. ASSUME NEW i \in 1 .. n, i - 1 \in D PROVE i \in D
  <2> DEFINE k == K[i - 1]
             item == retrieved[i]
  <2>1. /\ K[i] = ShowStep(via, k, item) /\ item \in RetrievedItem
        /\ Fine(k) /\ S \subseteq k /\ SizeOf(S) <= SizeOf(k)
        /\ \A j \in 1 .. (i - 1) : retrieved[j].via = via =>
              k # {} /\ Accounts(k, retrieved[j].id)
      BY <1>1, <1>2, <1>4 DEF Shows
  <2>2. CASE item.via # via
    <3>1. K[i] = k
        BY <2>1, <2>2 DEF ShowStep
    <3>2. \A j \in 1 .. i : j = i \/ j \in 1 .. (i - 1)
        BY <1>1
    <3>3. Shows(S, K[i], via, i)
        BY <2>1, <2>2, <3>1, <3>2 DEF Shows
    <3> QED BY <3>3, <1>1
  <2>3. CASE item.via = via
    <3> DEFINE t == K[i]
    <3>1. t = Show(k, item)
        BY <2>1, <2>3 DEF ShowStep
    <3>2. /\ Fine(t) /\ k \subseteq t /\ SizeOf(k) <= SizeOf(t)
          /\ t # {} /\ Accounts(t, item.id)
        BY <2>1, <3>1, ShowOne
    <3>3. SizeOf(S) <= SizeOf(t)
      <4>1. SizeOf(S) \in Nat /\ SizeOf(k) \in Nat /\ SizeOf(t) \in Nat
          BY <2>1, <3>2, SizeType DEF Fine
      <4>2. \A a, b, c \in Nat : a <= b /\ b <= c => a <= c
          OBVIOUS
      <4> QED BY <2>1, <3>2, <4>1, <4>2
    <3>4. ASSUME NEW j \in 1 .. i, retrieved[j].via = via
          PROVE  Accounts(t, retrieved[j].id)
      <4>1. CASE j = i
          BY <4>1, <3>2
      <4>2. CASE j # i
        <5>1. j \in 1 .. (i - 1) /\ j \in 1 .. n
            BY <1>1, <4>2
        <5>2. retrieved[j].id \in Chunks /\ Accounts(k, retrieved[j].id)
            BY <1>1, <2>1, <3>4, <5>1 DEF RetrievedItem
        <5> QED BY <2>1, <3>2, <5>2, StillAccounted
      <4> QED BY <4>1, <4>2
    <3>5. S \subseteq t
        BY <2>1, <3>2
    <3> HIDE DEF t
    <3>6. Shows(S, t, via, i)
        BY <3>2, <3>3, <3>4, <3>5 DEF Shows
    <3> QED BY <3>6, <1>1 DEF t
  <2> QED BY <2>2, <2>3
<1>5. n \in D
  <2> HIDE DEF D
  <2>1. n \in Nat /\ n \in 0 .. n
      BY <1>1
  <2>2. \A i \in 1 .. n : i - 1 \in D => i \in D
      BY <1>4
  <2> QED BY <1>3, <2>1, <2>2, UpTo
<1>6. Shows(S, K[n], via, n)
    BY <1>5
<1>7. Shows(S, ShowVia(S, via), via, n)
    BY <1>2, <1>6
<1> QED BY <1>7 DEF n

(* What the models are shown of what was retrieved. *)
WholeOf(E) ==
    /\ E # {}
    /\ \A c, d \in E : LocationOf[c] = LocationOf[d] => c = d
    /\ SizeOf(E) <= budget.chars \/ Cardinality(E) = 1
    /\ \A c \in Ids(retrieved) : Accounts(E, c)

(* normalize_evidence loses nothing but what does not fit. *)
LEMMA NormalizedIsWhole ==
    ASSUME retrieved \in Seq(RetrievedItem), budget.chars \in Nat, retrieved # << >>
    PROVE  NormalizeEvidence \in SUBSET Chunks /\ WholeOf(NormalizeEvidence)
<1> DEFINE S == ShowVia({}, "search")
           E == ShowVia(S, "cross_reference")
           n == Len(retrieved)
<1>1. /\ n \in Nat /\ DOMAIN retrieved = 1 .. n /\ 1 \in 1 .. n
      /\ \A i \in 1 .. n : retrieved[i] \in RetrievedItem
    OBVIOUS
<1>2. \A i \in 1 .. n : /\ retrieved[i].id \in Chunks
                        /\ retrieved[i].via = "search" \/ retrieved[i].via = "cross_reference"
    BY <1>1 DEF RetrievedItem
<1>3. Fine({})
    BY FS_EmptySet DEF Fine, FitsBudget
<1>4. Shows({}, S, "search", n)
    BY <1>3, ShowsAll
<1>5. Fine(S)
    BY <1>4 DEF Shows
<1>6. Shows(S, E, "cross_reference", n)
    BY <1>5, ShowsAll
<1>7. Fine(E)
    BY <1>6 DEF Shows
<1> HIDE DEF S, E, n
<1>8. ASSUME NEW i \in 1 .. n PROVE E # {} /\ Accounts(E, retrieved[i].id)
  <2>1. CASE retrieved[i].via = "search"
    <3>1. S # {} /\ Accounts(S, retrieved[i].id) /\ S \subseteq E /\ SizeOf(S) <= SizeOf(E)
        BY <1>4, <1>6, <2>1 DEF Shows
    <3>2. Accounts(E, retrieved[i].id)
        BY <1>2, <1>5, <1>7, <3>1, StillAccounted
    <3> QED BY <3>1, <3>2
  <2>2. CASE retrieved[i].via = "cross_reference"
      BY <1>6, <2>2 DEF Shows
  <2> QED BY <1>2, <2>1, <2>2
<1>9. WholeOf(E)
    BY <1>1, <1>7, <1>8 DEF WholeOf, Fine, FitsBudget, Ids
<1>10. NormalizeEvidence = E
    BY DEF NormalizeEvidence, E, S
<1>11. E \in SUBSET Chunks
    BY <1>7 DEF Fine
<1> QED BY <1>9, <1>10, <1>11

(* What a search adds. *)
Distinct(items) == \A i, j \in DOMAIN items : items[i].id = items[j].id => i = j
Searched(items) == \A i \in DOMAIN items : items[i].via = "search"
Merges(items, hits, n) ==
    /\ items \in Seq(RetrievedItem) /\ Distinct(items) /\ Searched(items)
    /\ Ids(items) = Ids(retrieved) \cup {hits[i] : i \in 1 .. n}

(* A search adds what it found and was not known, each chunk once. *)
LEMMA MergesAll ==
    ASSUME retrieved \in Seq(RetrievedItem), Distinct(retrieved), Searched(retrieved),
           NEW hits \in Seq(Chunks), IsInjective(hits)
    PROVE  Merges(MergedHits(hits), hits, Len(hits))
<1> DEFINE n == Len(hits)
<1>1. n \in Nat /\ DOMAIN hits = 1 .. n /\ \A i \in 1 .. n : hits[i] \in Chunks
    OBVIOUS
<1>2. PICK K : /\ K[0] = retrieved /\ K[n] = MergedHits(hits)
               /\ \A i \in 1 .. n : K[i] = Merge(K[i - 1], hits[i])
    BY MergeSteps
<1> HIDE DEF n
<1> DEFINE D == {i \in 0 .. n : Merges(K[i], hits, i)}
<1>3. 0 \in D
  <2>1. {hits[i] : i \in 1 .. 0} = {}
      OBVIOUS
  <2>2. Merges(K[0], hits, 0)
      BY <2>1, <1>2 DEF Merges
  <2> QED BY <2>2, <1>1
<1>4. ASSUME NEW i \in 1 .. n, i - 1 \in D PROVE i \in D
  <2> DEFINE k == K[i - 1]
             hit == hits[i]
  <2>1. /\ K[i] = Merge(k, hit) /\ hit \in Chunks
        /\ k \in Seq(RetrievedItem) /\ Distinct(k) /\ Searched(k)
        /\ Ids(k) = Ids(retrieved) \cup {hits[j] : j \in 1 .. (i - 1)}
      BY <1>1, <1>2, <1>4 DEF Merges
  <2>2. {hits[j] : j \in 1 .. i} = {hits[j] : j \in 1 .. (i - 1)} \cup {hit}
    <3>1. 1 .. i = (1 .. (i - 1)) \cup {i}
        BY <1>1
    <3> QED BY <3>1
  <2>3. CASE hit \in Ids(retrieved)
    <3>1. K[i] = k
        BY <2>1, <2>3 DEF Merge
    <3>2. Ids(k) = Ids(retrieved) \cup {hits[j] : j \in 1 .. i}
        BY <2>1, <2>2, <2>3
    <3>3. Merges(K[i], hits, i)
        BY <2>1, <3>1, <3>2 DEF Merges
    <3> QED BY <3>3, <1>1
  <2>4. CASE hit \notin Ids(retrieved)
    <3> DEFINE item == [id |-> hit, via |-> "search"]
               m == Len(k)
               t == Append(k, item)
    <3>1. K[i] = t
        BY <2>1, <2>4 DEF Merge
    <3>2. item \in RetrievedItem /\ item.id = hit /\ item.via = "search"
        BY <2>1 DEF RetrievedItem
    <3>3. /\ t \in Seq(RetrievedItem) /\ Len(t) = m + 1 /\ t[m + 1] = item
          /\ \A j \in 1 .. m : t[j] = k[j]
        BY <2>1, <3>2, AppendProperties
    <3>4. /\ m \in Nat /\ DOMAIN k = 1 .. m /\ DOMAIN t = (1 .. m) \cup {m + 1}
          /\ m + 1 \notin 1 .. m
        BY <2>1, <3>3
    <3>5. hit \notin Ids(k)
      <4>1. \A j \in 1 .. (i - 1) : hits[j] # hit
          BY <1>1 DEF IsInjective
      <4> QED BY <2>1, <2>4, <4>1
    <3> HIDE DEF item, t, m
    <3>6. \A j \in 1 .. m : k[j].id # hit
        BY <3>4, <3>5 DEF Ids
    <3>7. Distinct(t)
        BY <2>1, <3>2, <3>3, <3>4, <3>6 DEF Distinct
    <3>8. Searched(t)
        BY <2>1, <3>2, <3>3, <3>4 DEF Searched
    <3>9. Ids(t) = Ids(k) \cup {hit}
      <4>1. Ids(t) = {t[j].id : j \in DOMAIN k} \cup {t[m + 1].id}
          BY <3>4 DEF Ids
      <4>2. {t[j].id : j \in DOMAIN k} = Ids(k)
          BY <3>3, <3>4 DEF Ids
      <4> QED BY <3>2, <3>3, <4>1, <4>2
    <3>10. Ids(t) = Ids(retrieved) \cup {hits[j] : j \in 1 .. i}
        BY <2>1, <2>2, <3>9
    <3>11. Merges(t, hits, i)
        BY <3>3, <3>7, <3>8, <3>10 DEF Merges
    <3> QED BY <3>1, <3>11, <1>1
  <2> QED BY <2>3, <2>4
<1>5. n \in D
  <2> HIDE DEF D
  <2>1. n \in Nat /\ n \in 0 .. n
      BY <1>1
  <2>2. \A i \in 1 .. n : i - 1 \in D => i \in D
      BY <1>4
  <2> QED BY <1>3, <2>1, <2>2, UpTo
<1>6. Merges(K[n], hits, n)
    BY <1>5
<1>7. Merges(MergedHits(hits), hits, n)
    BY <1>2, <1>6
<1> QED BY <1>7 DEF n

(* What a retriever returns is a sequence of chunks. *)
LEMMA HitsAreChunks ==
    ASSUME budget.hits \in Nat, NEW hits \in HitLists
    PROVE  hits \in Seq(Chunks) /\ IsInjective(hits)
<1>1. hits \in SeqOf(Chunks, budget.hits) /\ IsInjective(hits)
    BY DEF HitLists
<1>2. PICK k \in 0 .. budget.hits : hits \in [1 .. k -> Chunks]
    BY <1>1 DEF SeqOf
<1> QED BY <1>1, <1>2

(* All hits of a search are merged. *)
LEMMA MergesHits ==
    ASSUME retrieved \in Seq(RetrievedItem), Distinct(retrieved), Searched(retrieved),
           budget.hits \in Nat, NEW hits \in HitLists
    PROVE  Merges(MergedHits(hits), hits, Len(hits))
BY HitsAreChunks, MergesAll

(* Distinct items are as many as their ids. *)
LEMMA CountIds ==
    ASSUME NEW items \in Seq(RetrievedItem), Distinct(items)
    PROVE  IsFiniteSet(Ids(items)) /\ Cardinality(Ids(items)) = Len(items)
<1> DEFINE n == Len(items)
           f == [i \in 1 .. n |-> items[i].id]
<1>1. n \in Nat /\ DOMAIN items = 1 .. n
    OBVIOUS
<1>2. f \in [1 .. n -> Ids(items)]
    BY <1>1 DEF Ids
<1>3. IsInjective(f)
    BY <1>1 DEF IsInjective, Distinct
<1>4. \A c \in Ids(items) : \E i \in 1 .. n : f[i] = c
    BY <1>1 DEF Ids
<1>5. ExistsBijection(1 .. n, Ids(items))
  <2> HIDE DEF f, n
  <2> QED BY <1>2, <1>3, <1>4 DEF ExistsBijection, Bijection, Injection, Surjection
<1>6. IsFiniteSet(1 .. n) /\ Cardinality(1 .. n) = n
    BY <1>1, FS_Interval
<1> HIDE DEF n
<1>7. IsFiniteSet(Ids(items)) /\ Cardinality(Ids(items)) = n
    BY <1>5, <1>6, FS_Bijection
<1> QED BY <1>7 DEF n

(* Searched and pulled items are all there are, and none is both. *)
LEMMA ViaSplits ==
    ASSUME NEW items \in Seq(RetrievedItem), Distinct(items)
    PROVE  LET searched == Via(items, "search")
               pulled == Via(items, "cross_reference")
           IN /\ Len(items) = Cardinality(searched) + Cardinality(pulled)
              /\ searched \cup pulled = Ids(items)
              /\ Cardinality(searched) \in Nat /\ Cardinality(pulled) \in Nat
<1> DEFINE searched == Via(items, "search")
           pulled == Via(items, "cross_reference")
<1>1. \A i \in DOMAIN items : items[i] \in RetrievedItem
    OBVIOUS
<1>2. searched \cup pulled = Ids(items)
    BY <1>1 DEF Via, Ids, RetrievedItem
<1>3. searched \cap pulled = {}
    BY <1>1 DEF Via, Distinct
<1>4. IsFiniteSet(Ids(items)) /\ Cardinality(Ids(items)) = Len(items)
    BY CountIds
<1> HIDE DEF searched, pulled
<1>5. IsFiniteSet(searched) /\ IsFiniteSet(pulled)
    BY <1>2, <1>4, FS_Subset
<1>6. Cardinality(searched \cup pulled)
        = Cardinality(searched) + Cardinality(pulled) - Cardinality(searched \cap pulled)
    BY <1>5, FS_Union
<1>7. Cardinality(searched) \in Nat /\ Cardinality(pulled) \in Nat
    BY <1>5, FS_CardinalityType
<1>8. Cardinality(searched \cap pulled) = 0
    BY <1>3, FS_EmptySet
<1>9. Cardinality(searched) + Cardinality(pulled) = Len(items)
  <2>1. Cardinality(searched \cup pulled) = Len(items)
      BY <1>2, <1>4
  <2>2. \A a, b \in Nat : \A l, x : l = a + b - x /\ x = 0 => a + b = l
      OBVIOUS
  <2> QED BY <2>1, <2>2, <1>6, <1>7, <1>8
<1> QED BY <1>2, <1>7, <1>9 DEF searched, pulled

(* ReferentsComeFirst of any items and any budget for pulled ones. *)
FirstOf(items, most) ==
    LET searched == Via(items, "search")
        pulled   == Via(items, "cross_reference")
        exact    == UNION {Referents[c] : c \in searched}
        loose    == UNION {Subsections[c] : c \in searched}
    IN /\ Len(items) = Cardinality(searched) + Cardinality(pulled)
       /\ Cardinality(pulled) <= most
       /\ pulled \subseteq exact \cup loose
       /\ pulled \subseteq exact \/ exact \subseteq searched \cup pulled

(* Where nothing was pulled yet, nothing came too early. *)
LEMMA SearchedFirst ==
    ASSUME NEW items \in Seq(RetrievedItem), Distinct(items), Searched(items), NEW most \in Nat
    PROVE  FirstOf(items, most)
<1>1. Via(items, "cross_reference") = {}
    BY DEF Via, Searched
<1>2. Cardinality(Via(items, "cross_reference")) = 0
    BY <1>1, FS_EmptySet
<1>3. Len(items) = Cardinality(Via(items, "search")) + Cardinality(Via(items, "cross_reference"))
    BY ViaSplits
<1> QED BY <1>1, <1>2, <1>3 DEF FirstOf

(* Candidates for a pull are referred to by what was retrieved, and new. *)
LEMMA CitedIs ==
    ASSUME NEW map
    PROVE  \A c : c \in Cited(map) <=> /\ c \notin Ids(retrieved)
                                     /\ \E d \in Ids(retrieved) : c \in map[d]
<1> DEFINE U == UNION {map[c] : c \in Ids(retrieved)}
<1>1. \A c : c \in U <=> \E d \in Ids(retrieved) : c \in map[d]
    OBVIOUS
<1>2. Cited(map) = U \ Ids(retrieved)
    BY DEF Cited
<1> HIDE DEF U
<1> QED BY <1>1, <1>2

(* Whatever Pulls picks is new, within its budget, and referents come first. *)
LEMMA PulledFirst ==
    ASSUME retrieved \in Seq(RetrievedItem), Distinct(retrieved), Searched(retrieved),
           budget.pulled \in Nat, NEW p \in Pulls, NEW items,
           items = retrieved \o Marked(p, "cross_reference")
    PROVE  /\ items \in Seq(RetrievedItem) /\ Distinct(items) /\ FirstOf(items, budget.pulled)
           /\ Ids(retrieved) \subseteq Ids(items)
<1> DEFINE exact == Cited(Referents)
           loose == Cited(Subsections)
           m == Len(p)
           n == Len(retrieved)
           q == Marked(p, "cross_reference")
<1>1. /\ p \in SeqOf(exact \cup loose, budget.pulled)
      /\ \A i, j \in DOMAIN p : i < j => Before(p[i], p[j])
      /\ \A i \in DOMAIN p, c \in (exact \cup loose) \ ToSet(p) : Before(p[i], c)
    BY DEF Pulls
<1>2. \A c \in Ids(retrieved) : c \in Chunks /\ Referents[c] \in SUBSET Chunks
                                            /\ Subsections[c] \in SUBSET Chunks
  <2>1. \A i \in DOMAIN retrieved : retrieved[i] \in RetrievedItem
      OBVIOUS
  <2>2. \A c \in Ids(retrieved) : c \in Chunks
      BY <2>1 DEF Ids, RetrievedItem
  <2> QED BY <2>2, ResearchAssumption DEF ResearchAssumption
<1>3. /\ exact \in SUBSET Chunks /\ loose \in SUBSET Chunks
      /\ exact \cap Ids(retrieved) = {} /\ loose \cap Ids(retrieved) = {}
  <2>1. \A c \in exact : c \in Chunks /\ c \notin Ids(retrieved)
      BY <1>2, CitedIs DEF exact
  <2>2. \A c \in loose : c \in Chunks /\ c \notin Ids(retrieved)
      BY <1>2, CitedIs DEF loose
  <2> HIDE DEF exact, loose
  <2> QED BY <2>1, <2>2
<1>4. /\ m \in Nat /\ m <= budget.pulled /\ DOMAIN p = 1 .. m
      /\ \A i \in 1 .. m : p[i] \in exact \cup loose
  <2> HIDE DEF exact, loose
  <2>1. PICK k \in 0 .. budget.pulled : p \in [1 .. k -> exact \cup loose]
      BY <1>1 DEF SeqOf
  <2>2. k \in Nat /\ k <= budget.pulled
      OBVIOUS
  <2>3. Len(p) = k
      BY <2>1, <2>2
  <2> QED BY <2>1, <2>2, <2>3
<1>5. \A c, d \in Chunks : Before(c, d) => c # d
  <2>1. \A c, d \in Chunks : c \in Nat /\ d \in Nat
      BY ResearchAssumption DEF ResearchAssumption
  <2> QED BY <2>1 DEF Before
<1>6. \A i, j \in 1 .. m : p[i] = p[j] => i = j
  <2> SUFFICES ASSUME NEW i \in 1 .. m, NEW j \in 1 .. m, i # j PROVE p[i] # p[j]
      OBVIOUS
  <2>1. i < j \/ j < i
      BY <1>4
  <2>2. p[i] \in Chunks /\ p[j] \in Chunks
      BY <1>3, <1>4
  <2>3. Before(p[i], p[j]) \/ Before(p[j], p[i])
      BY <1>1, <1>4, <2>1
  <2> QED BY <1>5, <2>2, <2>3
<1>7. /\ q \in Seq(RetrievedItem) /\ Len(q) = m
      /\ \A i \in 1 .. m : q[i].id = p[i] /\ q[i].via = "cross_reference"
  <2>1. q = [i \in 1 .. m |-> [id |-> p[i], via |-> "cross_reference"]]
      BY <1>4 DEF Marked
  <2>2. \A i \in 1 .. m : [id |-> p[i], via |-> "cross_reference"] \in RetrievedItem
      BY <1>3, <1>4 DEF RetrievedItem
  <2>3. m \in Nat
      BY <1>4
  <2> HIDE DEF m, q
  <2>4. q \in [1 .. m -> RetrievedItem]
      BY <2>1, <2>2
  <2>5. q \in Seq(RetrievedItem) /\ Len(q) = m
      BY <2>3, <2>4
  <2> QED BY <2>1, <2>5
<1> HIDE DEF q
<1>8. /\ items \in Seq(RetrievedItem) /\ Len(items) = n + m
      /\ \A i \in 1 .. n + m : items[i] = IF i <= n THEN retrieved[i] ELSE q[i - n]
  <2>1. retrieved \in Seq(RetrievedItem) /\ q \in Seq(RetrievedItem) /\ Len(q) = m
      BY <1>7
  <2>2. items = retrieved \o q
      BY DEF q
  <2>3. /\ retrieved \o q \in Seq(RetrievedItem) /\ Len(retrieved \o q) = Len(retrieved) + Len(q)
        /\ \A i \in 1 .. Len(retrieved) + Len(q) :
              (retrieved \o q)[i] = IF i <= Len(retrieved) THEN retrieved[i]
                                    ELSE q[i - Len(retrieved)]
      BY <2>1, ConcatProperties
  <2> QED BY <2>1, <2>2, <2>3
<1>9. n \in Nat /\ DOMAIN items = 1 .. n + m /\ DOMAIN retrieved = 1 .. n
    BY <1>4, <1>8
<1> HIDE DEF n, m
<1>10. \A i \in 1 .. n : i \in 1 .. n + m /\ items[i] = retrieved[i]
    BY <1>4, <1>8, <1>9
<1>11. \A i \in 1 .. m : n + i \in 1 .. n + m /\ items[n + i] = q[i]
    BY <1>4, <1>8, <1>9
<1>12. \A i \in 1 .. n + m : i \in 1 .. n \/ \E j \in 1 .. m : i = n + j
  <2> SUFFICES ASSUME NEW i \in 1 .. n + m, i \notin 1 .. n
               PROVE  \E j \in 1 .. m : i = n + j
      OBVIOUS
  <2>1. i - n \in 1 .. m /\ i = n + (i - n)
      BY <1>4, <1>9
  <2> QED BY <2>1
<1>13. \A i \in 1 .. m : p[i] \notin Ids(retrieved)
    BY <1>3, <1>4
<1>14. Distinct(items)
  <2> SUFFICES ASSUME NEW i \in 1 .. n + m, NEW j \in 1 .. n + m, items[i].id = items[j].id
               PROVE  i = j
      BY <1>9 DEF Distinct
  <2>1. CASE i \in 1 .. n /\ j \in 1 .. n
      BY <2>1, <1>9, <1>10 DEF Distinct
  <2>2. \A k \in 1 .. n : items[k].id \in Ids(retrieved)
      BY <1>9, <1>10 DEF Ids
  <2>3. \A k \in 1 .. m : items[n + k].id = p[k]
      BY <1>7, <1>11
  <2>4. CASE i \in 1 .. n /\ j \notin 1 .. n
      BY <2>2, <2>3, <2>4, <1>12, <1>13, ZenonT(40)
  <2>5. CASE i \notin 1 .. n /\ j \in 1 .. n
      BY <2>2, <2>3, <2>5, <1>12, <1>13, ZenonT(40)
  <2>6. CASE i \notin 1 .. n /\ j \notin 1 .. n
    <3>1. PICK k, l \in 1 .. m : i = n + k /\ j = n + l
        BY <2>6, <1>12
    <3>2. p[k] = p[l]
        BY <2>3, <3>1
    <3> QED BY <1>6, <3>1, <3>2
  <2> QED BY <2>1, <2>4, <2>5, <2>6
<1>15. Via(items, "search") = Ids(retrieved)
  <2>0. /\ Via(items, "search") = {items[i].id : i \in {k \in 1 .. n + m : items[k].via = "search"}}
        /\ Ids(retrieved) = {retrieved[i].id : i \in 1 .. n}
      BY <1>9 DEF Via, Ids
  <2>1. \A i \in 1 .. n : items[i].via = "search" /\ items[i].id = retrieved[i].id
      BY <1>9, <1>10 DEF Searched
  <2>2. \A i \in 1 .. n + m : items[i].via = "search" => i \in 1 .. n
      BY <1>7, <1>11, <1>12
  <2>3. \A c \in Ids(retrieved) : c \in Via(items, "search")
      BY <2>0, <2>1, <1>10, ZenonT(40)
  <2>4. \A c \in Via(items, "search") : c \in Ids(retrieved)
      BY <2>0, <2>1, <2>2
  <2> QED BY <2>3, <2>4
<1>16. Via(items, "cross_reference") = ToSet(p)
  <2>0. /\ Via(items, "cross_reference")
              = {items[i].id : i \in {k \in 1 .. n + m : items[k].via = "cross_reference"}}
        /\ ToSet(p) = {p[i] : i \in 1 .. m}
      BY <1>4, <1>9 DEF Via, ToSet
  <2>1. \A i \in 1 .. n : items[i].via # "cross_reference"
      BY <1>9, <1>10 DEF Searched
  <2>2. \A i \in 1 .. m : items[n + i].via = "cross_reference" /\ items[n + i].id = p[i]
      BY <1>7, <1>11
  <2>3. \A c \in ToSet(p) : c \in Via(items, "cross_reference")
      BY <2>0, <2>2, <1>11
  <2>4. \A c \in Via(items, "cross_reference") : c \in ToSet(p)
    <3> SUFFICES ASSUME NEW c \in Via(items, "cross_reference") PROVE c \in ToSet(p)
        OBVIOUS
    <3>1. PICK i \in 1 .. n + m : items[i].via = "cross_reference" /\ c = items[i].id
        BY <2>0
    <3>2. PICK j \in 1 .. m : i = n + j
        BY <2>1, <3>1, <1>12
    <3>3. c = p[j]
        BY <2>2, <3>1, <3>2
    <3> QED BY <2>0, <3>3
  <2> QED BY <2>3, <2>4
<1>17. Cardinality(ToSet(p)) = m /\ Cardinality(ToSet(p)) <= budget.pulled
  <2>1. Cardinality(Ids(retrieved)) = n
      BY CountIds DEF n
  <2>2. n + m = Cardinality(Ids(retrieved)) + Cardinality(ToSet(p)) /\ Cardinality(ToSet(p)) \in Nat
      BY <1>8, <1>14, <1>15, <1>16, ViaSplits
  <2>3. \A c \in Nat : n + m = n + c => c = m
      BY <1>4, <1>9
  <2>4. Cardinality(ToSet(p)) = m
      BY <2>1, <2>2, <2>3
  <2> QED BY <2>4, <1>4
<1> DEFINE referents == UNION {Referents[c] : c \in Ids(retrieved)}
           subsections == UNION {Subsections[c] : c \in Ids(retrieved)}
<1>18. /\ \A c : c \in exact <=> c \in referents /\ c \notin Ids(retrieved)
       /\ \A c : c \in loose <=> c \in subsections /\ c \notin Ids(retrieved)
  <2>1. /\ \A c : c \in referents <=> \E d \in Ids(retrieved) : c \in Referents[d]
        /\ \A c : c \in subsections <=> \E d \in Ids(retrieved) : c \in Subsections[d]
      OBVIOUS
  <2>2. \A c : c \in exact <=> /\ c \notin Ids(retrieved)
                             /\ \E d \in Ids(retrieved) : c \in Referents[d]
      BY CitedIs DEF exact
  <2>3. \A c : c \in loose <=> /\ c \notin Ids(retrieved)
                             /\ \E d \in Ids(retrieved) : c \in Subsections[d]
      BY CitedIs DEF loose
  <2> HIDE DEF exact, loose, referents, subsections
  <2> QED BY <2>1, <2>2, <2>3
<1>19. ToSet(p) \subseteq exact \cup loose
    BY <1>4 DEF ToSet
<1>20. ASSUME NEW i \in 1 .. m, p[i] \notin exact, NEW c \in exact PROVE c \in ToSet(p)
  <2>1. c \notin ToSet(p) => Before(p[i], c)
      BY <1>1, <1>4
  <2>2. ~ Before(p[i], c)
      BY <1>20 DEF Before
  <2> QED BY <2>1, <2>2
<1>21. ToSet(p) \subseteq exact \/ exact \subseteq ToSet(p)
    BY <1>4, <1>20 DEF ToSet
<1> HIDE DEF exact, loose, referents, subsections
<1>22. /\ ToSet(p) \subseteq referents \cup subsections
       /\ ToSet(p) \subseteq referents \/ referents \subseteq Ids(retrieved) \cup ToSet(p)
    BY <1>18, <1>19, <1>21
<1>23. Len(items) = Cardinality(Via(items, "search")) + Cardinality(Via(items, "cross_reference"))
    BY <1>8, <1>14, ViaSplits
<1>24. FirstOf(items, budget.pulled)
    BY <1>15, <1>16, <1>17, <1>22, <1>23 DEF FirstOf, referents, subsections
<1>25. Ids(retrieved) \subseteq Ids(items)
    BY <1>9, <1>10 DEF Ids
<1> QED BY <1>8, <1>14, <1>24, <1>25

--------------------------------------------------------------------------------
(* Findings *)

(* The places where the models see the evidence. *)
Shown == {"answerability", "write", "verify", "repair", "finalize", "abstain"}

(* Each chunk is retrieved once, by search until references are resolved; what was   *)
(* found stays; and whoever asks a model has whole evidence.                         *)
FindingsInv ==
    /\ LoopInv
    /\ retrieved \in Seq(RetrievedItem) /\ Distinct(retrieved)
    /\ found \in SUBSET Ids(retrieved)
    /\ nextNode \in Searching \cup {"resolve_refs"} => Searched(retrieved)
    /\ FirstOf(retrieved, budget.pulled)
    /\ modelCalls > 0 \/ nextNode \in Shown => WholeOf(evidence)

(* The sizes in a budget are naturals. *)
LEMMA BudgetSizes ==
    ASSUME NEW b \in Budgets
    PROVE  b.pulled \in Nat /\ b.chars \in Nat /\ b.hits \in Nat
BY ResearchAssumption DEF ResearchAssumption, Budget

(* At the start nothing was found that could be missing. *)
LEMMA FindingsInit == ResearchInit => FindingsInv
<1> SUFFICES ASSUME ResearchInit PROVE FindingsInv
    OBVIOUS
<1>1. LoopInv
    BY LoopInit
<1>2. /\ retrieved = << >> /\ found = {} /\ modelCalls = 0 /\ nextNode = "search"
      /\ budget \in Budgets
    BY DEF ResearchInit
<1>3. /\ retrieved \in Seq(RetrievedItem) /\ Distinct(retrieved) /\ Searched(retrieved)
    BY <1>2 DEF Distinct, Searched
<1>4. FirstOf(retrieved, budget.pulled)
    BY <1>2, <1>3, BudgetSizes, SearchedFirst
<1> QED BY <1>1, <1>2, <1>3, <1>4 DEF FindingsInv, Shown

(* A search merges, resolve_refs pulls, select_evidence shows; no other node touches it. *)
LEMMA FindingsStep == FindingsInv /\ [ResearchNext]_researchVars => FindingsInv'
<1> SUFFICES ASSUME FindingsInv, [ResearchNext]_researchVars PROVE FindingsInv'
    OBVIOUS
<1>1. LoopInv'
    BY LoopStep DEF FindingsInv
<1>2. /\ budget \in Budgets /\ budget.pulled \in Nat /\ budget.chars \in Nat
      /\ budget.hits \in Nat
    BY BudgetSizes DEF FindingsInv, LoopInv
<1>3. nextNode \in BeforeDraft => modelCalls = 0
    BY DEF FindingsInv, LoopInv, CallsInv
<1>4. CASE SearchReturns
  <2>1. PICK hits \in HitLists : /\ retrieved' = MergedHits(hits)
                                 /\ found' = found \cup ToSet(hits)
      BY <1>4 DEF SearchReturns
  <2>2. /\ nextNode = "search" /\ nextNode' = "assess" /\ UNCHANGED <<budget, modelCalls>>
      BY <1>4 DEF SearchReturns, Node, runVars
  <2>3. hits \in Seq(Chunks)
      BY <1>2, HitsAreChunks
  <2>4. Merges(retrieved', hits, Len(hits))
      BY <1>2, <2>1, <2>2, MergesHits DEF FindingsInv, Searching
  <2>5. retrieved' \in Seq(RetrievedItem) /\ Distinct(retrieved') /\ Searched(retrieved')
      BY <2>4 DEF Merges
  <2>6. FirstOf(retrieved', budget.pulled)
      BY <1>2, <2>5, SearchedFirst
  <2>7. found' \in SUBSET Ids(retrieved')
    <3>1. ToSet(hits) = {hits[i] : i \in 1 .. Len(hits)}
        BY <2>3 DEF ToSet
    <3> QED BY <2>1, <2>4, <3>1 DEF Merges, FindingsInv
  <2>8. modelCalls' = 0 /\ nextNode' \notin Shown
      BY <1>3, <2>2 DEF BeforeDraft, Searching, Shown
  <2> QED BY <1>1, <2>2, <2>5, <2>6, <2>7, <2>8 DEF FindingsInv
<1>5. CASE ResolveRefs
  <2>1. PICK p \in Pulls : retrieved' = retrieved \o Marked(p, "cross_reference")
      BY <1>5 DEF ResolveRefs
  <2>2. /\ nextNode = "resolve_refs" /\ nextNode' = "select_evidence"
        /\ UNCHANGED <<budget, modelCalls, found>>
      BY <1>5 DEF ResolveRefs, Node, runVars
  <2>3. retrieved \in Seq(RetrievedItem) /\ Distinct(retrieved) /\ Searched(retrieved)
      BY <2>2 DEF FindingsInv
  <2>4. /\ retrieved' \in Seq(RetrievedItem) /\ Distinct(retrieved')
        /\ FirstOf(retrieved', budget.pulled) /\ Ids(retrieved) \subseteq Ids(retrieved')
      BY <1>2, <2>1, <2>3, PulledFirst
  <2>5. modelCalls' = 0 /\ nextNode' \notin Shown \cup Searching \cup {"resolve_refs"}
      BY <1>3, <2>2 DEF BeforeDraft, Searching, Shown
  <2> QED BY <1>1, <2>2, <2>4, <2>5 DEF FindingsInv
<1>6. CASE SelectEvidence
  <2>1. /\ retrieved # << >> /\ evidence' = NormalizeEvidence
        /\ UNCHANGED <<budget, retrieved, found>>
        /\ nextNode' \notin Searching \cup {"resolve_refs"}
      BY <1>6 DEF SelectEvidence, Node, runVars, loopVars, Searching
  <2>2. WholeOf(NormalizeEvidence)
      BY <1>2, <2>1, NormalizedIsWhole DEF FindingsInv
  <2>3. WholeOf(evidence)'
      BY <2>1, <2>2 DEF WholeOf, Accounts
  <2> QED BY <1>1, <2>1, <2>3 DEF FindingsInv
<1>7. ASSUME UNCHANGED <<budget, retrieved, found, evidence>>,
             nextNode' \in Searching \cup {"resolve_refs"}
               => nextNode \in Searching \cup {"resolve_refs"},
             modelCalls' > 0 \/ nextNode' \in Shown => modelCalls > 0 \/ nextNode \in Shown
      PROVE  FindingsInv'
  <2>1. WholeOf(evidence) => WholeOf(evidence)'
      BY <1>7 DEF WholeOf, Accounts
  <2> QED BY <1>1, <1>7, <2>1 DEF FindingsInv
<1>8. CASE UNCHANGED researchVars
    BY <1>7, <1>8 DEF researchVars, runVars, loopVars
<1>9. CASE SearchRefused \/ SearchFails \/ Assess \/ Refine \/ NothingFound
  <2>1. /\ UNCHANGED <<budget, retrieved, found, evidence, modelCalls>>
        /\ nextNode \in Searching \cup {"select_evidence"}
        /\ nextNode' \in Searching \cup {"resolve_refs", "fail", "end"}
        /\ nextNode = "select_evidence" => nextNode' = "end"
      BY <1>9 DEF SearchRefused, SearchFails, Assess, Refine, NothingFound, Node, runVars,
                  loopVars, Searching
  <2> QED BY <1>7, <2>1 DEF Searching, Shown
<1>10. CASE GateFails \/ JudgeIsInvalid \/ JudgeAnswers \/ WriteFails \/ Write \/ Verify \/ Repair
            \/ Finalize \/ Abstain
  <2>1. /\ UNCHANGED <<budget, retrieved, found, evidence>> /\ nextNode \in Shown
        /\ nextNode' \in Shown \cup {"fail", "end"}
      BY <1>10 DEF GateFails, JudgeIsInvalid, JudgeAnswers, WriteFails, Write, Verify, Repair,
                   Finalize, Abstain, Node, runVars, loopVars, Shown
  <2> QED BY <1>7, <2>1 DEF Searching, Shown
<1>11. CASE Fail \/ Raise
  <2>1. /\ UNCHANGED <<budget, retrieved, found, evidence, modelCalls>>
        /\ nextNode' \in {"end", "raised"}
      BY <1>11 DEF Fail, Raise, Node, runVars, loopVars
  <2> QED BY <1>7, <2>1 DEF Searching, Shown
<1> QED BY <1>4, <1>5, <1>6, <1>8, <1>9, <1>10, <1>11 DEF ResearchNext, RunStep, Done

\* The sections that searched chunks refer to are pulled before their subsections, and
\* every model call shows evidence in which nothing that was found is missing, but what
\* is shown already or does not fit beside the rest.
THEOREM FindingsReach == ResearchSpec => []FindingsReachModels
<1>1. FindingsInv => FindingsReachModels
  <2> SUFFICES ASSUME FindingsInv PROVE ReferentsComeFirst /\ EvidenceIsWhole
      BY DEF FindingsReachModels
  <2>1. ReferentsComeFirst
      BY DEF FindingsInv, FirstOf, ReferentsComeFirst
  <2>2. EvidenceIsWhole
      BY DEF FindingsInv, WholeOf, Accounts, EvidenceIsWhole
  <2> QED BY <2>1, <2>2
<1> QED
    BY <1>1, FindingsInit, FindingsStep, PTL DEF ResearchSpec

--------------------------------------------------------------------------------
(* The types of the rest *)

(* What is not told by LoopInv and FindingsInv. *)
RestTypes ==
    /\ question \in Questions /\ gate \in Gates /\ iterations \in Nat
    /\ stopReason \in ResearchStops /\ continueResearch \in BOOLEAN
    /\ assessedCount \in 0 .. Len(retrieved) /\ evidence \in SUBSET Chunks
    /\ verdict \in JudgeDecisions \cup {NoVerdict}
    /\ draft \in Drafts \cup {NoDraft} /\ errors \in BOOLEAN
    /\ status \in {"planning", "researching", "writing", "completed", "abstained", "failed"}
    /\ failure \in FailureKinds \cup {"none", "citation_verification"}
    /\ broke \in FailureKinds \cup {"none"}
    /\ final \in {"none", "draft", "no passage", "unanswerable", "unverified", "failure"}

(* Nothing that was retrieved is dropped. *)
LEMMA MoreItems ==
    ASSUME NEW items \in Seq(RetrievedItem), Distinct(items),
           NEW more \in Seq(RetrievedItem), Distinct(more),
           Ids(items) \subseteq Ids(more)
    PROVE  Len(items) <= Len(more)
<1>1. /\ IsFiniteSet(Ids(more)) /\ Cardinality(Ids(more)) = Len(more)
      /\ Cardinality(Ids(items)) = Len(items)
    BY CountIds
<1>2. Cardinality(Ids(items)) <= Cardinality(Ids(more))
    BY <1>1, FS_Subset
<1> QED BY <1>1, <1>2

(* At the start the rest of the state has its types. *)
LEMMA RestInit == ResearchInit => RestTypes
<1> SUFFICES ASSUME ResearchInit PROVE RestTypes
    OBVIOUS
<1>1. assessedCount \in 0 .. Len(retrieved)
    BY DEF ResearchInit
<1> QED BY <1>1 DEF ResearchInit, RestTypes, ResearchStops

(* Every step keeps the types of the rest of the state. *)
LEMMA RestStep == FindingsInv /\ RestTypes /\ [ResearchNext]_researchVars => RestTypes'
<1> SUFFICES ASSUME FindingsInv, RestTypes, [ResearchNext]_researchVars PROVE RestTypes'
    OBVIOUS
<1>0. retrieved \in Seq(RetrievedItem)
    BY DEF FindingsInv
<1>a. Len(retrieved) \in Nat
    BY <1>0
<1>b. assessedCount \in 0 .. Len(retrieved)
    BY DEF RestTypes
<1>c. \A a, b, c \in Nat : b <= c /\ a <= b => a <= c
    OBVIOUS
<1> USE DEF Node, runVars, loopVars, draftVars, endVars, RestTypes
<1>1. CASE UNCHANGED researchVars
    BY <1>1 DEF researchVars
<1>2. CASE SearchRefused \/ SearchFails \/ GateFails \/ JudgeIsInvalid \/ WriteFails
    BY <1>2, ZenonT(40) DEF SearchRefused, SearchFails, GateFails, JudgeIsInvalid, WriteFails,
                          FailsAs, FailureKinds, ModelFailures
<1>3. ASSUME SearchReturns \/ ResolveRefs PROVE assessedCount' \in 0 .. Len(retrieved')
  <2>1. UNCHANGED assessedCount /\ Ids(retrieved) \subseteq Ids(retrieved')
    <3>1. CASE SearchReturns
      <4>1. PICK hits \in HitLists : retrieved' = MergedHits(hits)
          BY <3>1 DEF SearchReturns
      <4>2. nextNode = "search" /\ UNCHANGED assessedCount
          BY <3>1 DEF SearchReturns
      <4>0. budget.hits \in Nat
          BY BudgetSizes DEF FindingsInv, LoopInv
      <4>3. Ids(retrieved') = Ids(retrieved) \cup {hits[i] : i \in 1 .. Len(hits)}
          BY <4>0, <4>1, <4>2, MergesHits DEF FindingsInv, Searching, Merges
      <4> QED BY <4>2, <4>3
    <3>2. CASE ResolveRefs
      <4>1. PICK p \in Pulls : retrieved' = retrieved \o Marked(p, "cross_reference")
          BY <3>2 DEF ResolveRefs
      <4>2. nextNode = "resolve_refs" /\ UNCHANGED assessedCount
          BY <3>2 DEF ResolveRefs
      <4>3. budget.pulled \in Nat
          BY BudgetSizes DEF FindingsInv, LoopInv
      <4>4. Ids(retrieved) \subseteq Ids(retrieved')
          BY <4>1, <4>2, <4>3, PulledFirst DEF FindingsInv
      <4> QED BY <4>2, <4>4
    <3> QED BY <3>1, <3>2, <1>3
  <2>2. /\ retrieved \in Seq(RetrievedItem) /\ Distinct(retrieved)
        /\ retrieved' \in Seq(RetrievedItem) /\ Distinct(retrieved')
      BY <1>3, FindingsStep DEF FindingsInv
  <2>3. Len(retrieved) <= Len(retrieved')
      BY <2>1, <2>2, MoreItems
  <2> HIDE DEF RestTypes
  <2>4. Len(retrieved') \in Nat
      BY <2>2
  <2>5. assessedCount \in Nat /\ assessedCount <= Len(retrieved)
      BY <1>b, <1>a
  <2>6. assessedCount <= Len(retrieved')
      BY <1>a, <1>c, <2>3, <2>4, <2>5
  <2> QED BY <2>1, <2>4, <2>5, <2>6
<1>4. CASE SearchReturns
    BY <1>3, <1>4, ZenonT(40) DEF SearchReturns
<1>5. CASE ResolveRefs
    BY <1>3, <1>5, ZenonT(40) DEF ResolveRefs
<1>6. CASE Assess
  <2>1. ResearchReason \in (ResearchStops \ {"none"}) \cup {"continue"}
      BY DEF ResearchReason, ResearchStops
  <2>2. retrieved' = retrieved /\ assessedCount' = Len(retrieved)
      BY <1>6 DEF Assess
  <2>3. assessedCount' \in 0 .. Len(retrieved')
    <3> HIDE DEF RestTypes
    <3>1. \A n \in Nat : n \in 0 .. n
        OBVIOUS
    <3> QED BY <1>a, <2>2, <3>1
  <2>4. stopReason' \in ResearchStops /\ continueResearch' \in BOOLEAN
      BY <1>6, <2>1 DEF Assess, ResearchStops
  <2>5. iterations' \in Nat
    <3>1. iterations \in Nat
        OBVIOUS
    <3>2. iterations' = iterations + 1
        BY <1>6 DEF Assess
    <3> HIDE DEF RestTypes
    <3> QED BY <3>1, <3>2
  <2>6. UNCHANGED <<question, gate, evidence, verdict, draft, errors, status, failure,
                    broke, final>>
      BY <1>6 DEF Assess
  <2> QED BY <2>3, <2>4, <2>5, <2>6
<1>7. CASE Refine
    BY <1>7 DEF Refine, ResearchStops
<1>8. CASE SelectEvidence
  <2>1. budget.chars \in Nat
      BY BudgetSizes DEF FindingsInv, LoopInv
  <2>2. evidence' \in SUBSET Chunks
      BY <1>8, <2>1, NormalizedIsWhole DEF FindingsInv, SelectEvidence
  <2> QED BY <1>8, <2>2 DEF SelectEvidence
<1>9. CASE JudgeAnswers
    BY <1>9 DEF JudgeAnswers
<1>10. CASE Write \/ Verify \/ Repair
  <2>1. HasErrors(draft) \in BOOLEAN
      BY ResearchAssumption DEF HasErrors, ResearchAssumption, Draft, NoDraft
  <2> QED BY <1>10, <2>1 DEF Write, Verify, Repair
<1>11. CASE NothingFound \/ Finalize \/ Abstain \/ Fail \/ Raise
    BY <1>11 DEF NothingFound, Finalize, Abstain, Fail, Raise
<1> QED
    BY <1>1, <1>2, <1>4, <1>5, <1>6, <1>7, <1>8, <1>9, <1>10, <1>11 DEF ResearchNext, RunStep, Done

\* Every variable of a run has its type, and what was assessed is part of what was
\* retrieved.
THEOREM TypeCorrect == ResearchSpec => []ResearchTypeOK
<1>1. FindingsInv /\ RestTypes => ResearchTypeOK
  <2> SUFFICES ASSUME FindingsInv, RestTypes PROVE ResearchTypeOK
      OBVIOUS
  <2>1. /\ nextNode \in Nodes \cup Over /\ budget \in Budgets
        /\ modelCalls \in Nat /\ repairs \in Nat
        /\ queries \in Seq({"asked", "widened"}) /\ searchesUsed \in Nat /\ steps \in Nat
      BY DEF FindingsInv, LoopInv, QueriesInv, Asked, StepsInv, CallsInv
  <2>2. retrieved \in Seq(RetrievedItem) /\ found \subseteq Chunks
    <3>1. retrieved \in Seq(RetrievedItem) /\ found \subseteq Ids(retrieved)
        BY DEF FindingsInv
    <3>2. \A i \in DOMAIN retrieved : retrieved[i] \in RetrievedItem
        BY <3>1
    <3> QED BY <3>1, <3>2 DEF Ids, RetrievedItem
  <2> QED BY <2>1, <2>2 DEF RestTypes, ResearchTypeOK
<1> QED
    BY <1>1, FindingsInit, FindingsStep, RestInit, RestStep, PTL DEF ResearchSpec
================================================================================
