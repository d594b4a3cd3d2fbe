-------------------------------- MODULE V2Graph --------------------------------
(***************************************************************************)
(* One run of the V2 research graph: initialize, then decide - authorize - *)
(* execute until the planner drafts, then write - verify with a bounded    *)
(* repair, then terminal.  The run is bounded by tool, search, model,      *)
(* evidence and repair budgets and by a deadline; every node but           *)
(* initialize runs inside V2Runtime.guarded, and v2_states closes a run    *)
(* whose consumer leaves between nodes.                                    *)
(*                                                                         *)
(* An action is a node, or the part of a node before or after an await.    *)
(* At pc = awaitPlanner, awaitTool and awaitWriter the run can be          *)
(* cancelled and can time out; attempt and admit are places inside the     *)
(* execute node and close is the end of v2_states.  A step that appends    *)
(* several events shows the last: their snapshots carry equal counters.    *)
(***************************************************************************)
EXTENDS ToolPolicy

CONSTANTS
    Clients,          \* "stub", which plans by itself, and "live"
    Actions,          \* actions a live planner may propose
    Drafts,           \* texts a writer may return
    MaxHits,          \* bound on the hits of one read
    MaxModelCalls, MaxRepairAttempts,
    FirstQuery, SecondQuery,  \* the stub's two searches
    Referencing,      \* chunks with an outbound reference
    AsksDefinition    \* whether the question asks for a definition

ActionTools == Tools \cup {"draft", "abstain"}
Action == RequestOf(ActionTools)

(* A draft cites chunks; a malformed one has a citation no parser accepts. *)
Draft == [cites: SUBSET Evidence, malformed: BOOLEAN]
NoDraft == [cites |-> {}, malformed |-> FALSE]

ASSUME GraphAssumption ==
    /\ Clients \subseteq {"stub", "live"}
    /\ Actions \subseteq Action
    /\ Drafts \subseteq Draft
    /\ MaxHits \in Nat
    /\ MaxModelCalls \in Nat
    /\ "stub" \in Clients => MaxModelCalls > 0
    /\ MaxRepairAttempts \in Nat
    /\ {FirstQuery, SecondQuery} \subseteq Queries
    /\ Referencing \subseteq Evidence
    /\ AsksDefinition \in BOOLEAN
    /\ ReservedToolCalls = 1    \* the slot of the mandatory verification

VARIABLES
    pc,             \* next node, or the place inside the current one
    expired,        \* monotonic() >= deadline_at
    status, stopReason,
    kept,           \* the session fields of ResearchState
    session,        \* the ToolSession of the execute node
    client,         \* the model client the run was given
    request,        \* next_action, NoAction when none
    seen,           \* seen_action_fingerprints
    corrections,    \* argument_corrections
    attempt, pending,
    toolsRun,       \* tools in tool_results_by_call_id
    emptySearches,  \* its empty document_search results
    modelCalls, callReserved, usageKnown,
    draft, verificationOk, repairs,
    delivered,      \* final_answer is the draft
    journal,        \* last event of events.jsonl and its snapshot
    terminals,      \* terminal events in the journal
    steps,          \* supersteps LangGraph has run
    dispatched,     \* history: tool reads and model calls sent out
    lost            \* history: model calls that never answered

planVars == <<client, request, seen, corrections>>
toolVars == <<kept, session, attempt, pending, toolsRun, emptySearches>>
modelVars == <<modelCalls, callReserved, usageKnown>>
gateVars == <<draft, verificationOk, repairs, delivered>>
logVars == <<journal, terminals>>
historyVars == <<dispatched, lost>>
vars == <<pc, expired, status, stopReason, planVars, toolVars, modelVars,
          gateVars, logVars, steps, historyVars>>

Nodes == {"initialize", "decide", "authorize", "execute", "write", "verify",
          "repair", "terminal"}
GuardedNodes == Nodes \ {"initialize", "terminal"}
Waits == {"awaitPlanner", "awaitTool", "awaitWriter"}
Places == Nodes \cup Waits \cup {"attempt", "admit", "close", "end"}

Stopped == {"abstained", "failed", "cancelled"}
Statuses == {"planning", "researching", "writing", "completed"} \cup Stopped
TerminalEvents == {"run_completed", "run_abstained", "run_failed",
                   "run_cancelled"}

Events == {"none", "run_started", "node_completed", "model_started",
           "tool_started", "tool_completed", "tool_failed", "evidence_added",
           "draft_created"} \cup TerminalEvents
StopReasons ==
    {"none", "verified", "invalid_document_or_version_scope", "internal_error",
     "deadline_exhausted", "invalid_tool_arguments", "model_budget_exhausted",
     "model_unavailable", "insufficient_evidence",
     "scope_or_provenance_violation", "repeated_action_without_evidence",
     "tool_scope_violation", "tool_unavailable", "draft_budget_exhausted",
     "verification_budget_exhausted", "citation_verification_failed",
     "cancelled", "consumer_disconnected"} \cup Refusals

\* Where next_action is the action being worked on.
RequestPlaces == {"authorize", "execute", "attempt", "awaitTool", "admit"}

StubClient == client = "stub"

NoAction == [tool |-> "none", docs |-> {}, current |-> FALSE, cites |-> {},
             query |-> FirstQuery, wellFormed |-> FALSE]

HitLists == {h \in BoundedSeq(Evidence, MaxHits) : IsInjective(h)}

Init ==
    /\ pc = "initialize"
    /\ expired = FALSE
    /\ status = "planning"
    /\ stopReason = "none"
    /\ kept = NewSession
    /\ session = NewSession
    /\ client \in Clients
    /\ request = NoAction
    /\ seen = [a \in {} |-> 0]
    /\ corrections = 0
    /\ attempt = 0
    /\ pending = <<>>
    /\ toolsRun = {}
    /\ emptySearches = 0
    /\ modelCalls = 0
    /\ callReserved = FALSE
    /\ usageKnown = TRUE
    /\ draft = NoDraft
    /\ verificationOk = FALSE
    /\ repairs = 0
    /\ delivered = FALSE
    /\ journal = [event |-> "none", toolCalls |-> 0, modelCalls |-> 0,
                  status |-> "planning"]
    /\ terminals = 0
    /\ steps = 0
    /\ dispatched = [tools |-> 0, models |-> 0]
    /\ lost = 0

-------------------------------------------------------------------------------
(* events.emit: append the event with a snapshot of the state. *)
Emit(event, tools, models, st) ==
    /\ journal' = [event |-> event, toolCalls |-> tools, modelCalls |-> models,
                   status |-> st]
    /\ terminals' = IF event \in TerminalEvents THEN terminals + 1 ELSE terminals

NodeCompleted(tools, st) == Emit("node_completed", tools, modelCalls, st)

(* V2Runtime.stop: every conditional edge then leads to terminal. *)
Stop(reason, failed) ==
    /\ status' = IF failed THEN "failed" ELSE "abstained"
    /\ stopReason' = reason
    /\ delivered' = FALSE
    /\ pc' = "terminal"

StopNodeAt(tools, reason, failed) ==
    /\ Stop(reason, failed)
    /\ NodeCompleted(tools, IF failed THEN "failed" ELSE "abstained")

StopNode(reason, failed) == StopNodeAt(kept.toolCalls, reason, failed)

Go(node) ==
    /\ pc' = node
    /\ UNCHANGED <<status, stopReason, delivered>>

(* guarded: a node is entered once its deadline check has passed. *)
Enter(node) ==
    /\ pc = node
    /\ ~ expired
    /\ steps' = steps + 1

(* guarded: the containment boundary around a node that raises. *)
Contain ==
    /\ Stop("internal_error", TRUE)
    /\ UNCHANGED logVars

Initialize ==
    /\ pc = "initialize"
    /\ steps' = steps + 1
    /\ \/ Go("decide")
       \/ Stop("invalid_document_or_version_scope", TRUE)
    /\ Emit("run_started", 0, 0, "planning")
    /\ UNCHANGED <<expired, planVars, toolVars, modelVars, draft,
                   verificationOk, repairs, historyVars>>

NodeExpires ==
    /\ pc \in GuardedNodes
    /\ expired
    /\ steps' = steps + 1
    /\ Stop("deadline_exhausted", TRUE)
    /\ UNCHANGED <<expired, planVars, toolVars, modelVars, draft,
                   verificationOk, repairs, logVars, historyVars>>

-------------------------------------------------------------------------------
(* decide *)

(* invalid: one correction in the whole run, then the run is stopped. *)
Invalid ==
    /\ corrections' = corrections + 1
    /\ request' = NoAction
    /\ IF corrections + 1 > 1
       THEN StopNode("invalid_tool_arguments", TRUE)
       ELSE /\ Go("decide")
            /\ NodeCompleted(kept.toolCalls, status)

Propose(a) ==
    /\ request' = a
    /\ pc' = "authorize"
    /\ status' = "researching"
    /\ NodeCompleted(kept.toolCalls, "researching")
    /\ UNCHANGED <<stopReason, delivered>>

StubSearch(q) ==
    [tool |-> "document_search", docs |-> Granted, current |-> TRUE,
     cites |-> {}, query |-> q, wellFormed |-> TRUE]
StubLookup(tool, e) ==
    [tool |-> tool, docs |-> {DocOf[e]}, current |-> TRUE, cites |-> {},
     query |-> FirstQuery, wellFormed |-> TRUE]
StubOther(tool) ==
    [tool |-> tool, docs |-> {}, current |-> TRUE, cites |-> {},
     query |-> FirstQuery, wellFormed |-> TRUE]

(* stub_action: the offline planner, a function of the state. *)
StubAction ==
    LET references == {i \in DOMAIN kept.evidence :
                          kept.evidence[i] \in Referencing} IN
    CASE toolsRun = {} -> StubSearch(FirstQuery)
      [] toolsRun # {} /\ kept.evidenceById = {} ->
            IF kept.searchesUsed < Min({2, MaxSearches})
            THEN StubSearch(SecondQuery) ELSE StubOther("abstain")
      [] kept.evidenceById # {} /\ references # {}
         /\ "retrieve_clause" \notin toolsRun ->
            StubLookup("retrieve_clause", kept.evidence[Min(references)])
      [] kept.evidenceById # {} /\ AsksDefinition
         /\ (references = {} \/ "retrieve_clause" \in toolsRun)
         /\ "extract_definition" \notin toolsRun ->
            StubLookup("extract_definition", kept.evidence[1])
      [] OTHER -> StubOther("draft")

StubDecide ==
    /\ Enter("decide")
    /\ StubClient
    /\ Propose(StubAction)
    /\ UNCHANGED <<expired, client, seen, corrections, toolVars, modelVars, draft,
                   verificationOk, repairs, historyVars>>

\* Mutation: the planner may take the call held back for the writer.
PlannerTakesAll == modelCalls >= MaxModelCalls

(* One model call is held back for drafting. *)
PlannerBudgetSpent == modelCalls >= MaxModelCalls - 1

RefusePlanning ==
    /\ Enter("decide")
    /\ ~ StubClient
    /\ PlannerBudgetSpent
    /\ StopNode("model_budget_exhausted", TRUE)
    /\ UNCHANGED <<expired, planVars, toolVars, modelVars, draft,
                   verificationOk, repairs, historyVars>>

AskPlanner ==
    /\ Enter("decide")
    /\ ~ StubClient
    /\ ~ PlannerBudgetSpent
    /\ modelCalls' = modelCalls + 1
    /\ Emit("model_started", kept.toolCalls, modelCalls', status)
    /\ Go("awaitPlanner")
    /\ dispatched' = [dispatched EXCEPT !.models = @ + 1]
    /\ UNCHANGED <<expired, planVars, toolVars, callReserved, usageKnown,
                   draft, verificationOk, repairs, lost>>

PlannerAnswers ==
    /\ pc = "awaitPlanner"
    /\ \/ /\ \E a \in Actions : Propose(a)
          /\ UNCHANGED corrections
       \/ Invalid
    /\ UNCHANGED <<expired, client, seen, toolVars, modelVars, draft,
                   verificationOk, repairs, steps, dispatched, lost>>

\* Mutation: an outage of the planner ends in an abstention.
PlannerOutageAbstains ==
    /\ usageKnown' = FALSE
    /\ StopNode("model_unavailable", FALSE)
    /\ lost' = lost + 1
    /\ UNCHANGED <<expired, planVars, toolVars, modelCalls, callReserved,
                   draft, verificationOk, repairs, steps, dispatched>>

PlannerUnavailable ==
    /\ usageKnown' = FALSE
    /\ StopNode("model_unavailable", TRUE)
    /\ lost' = lost + 1
    /\ UNCHANGED <<expired, planVars, toolVars, modelCalls, callReserved,
                   draft, verificationOk, repairs, steps, dispatched>>

PlannerFails == pc = "awaitPlanner" /\ PlannerUnavailable
\* Mutation: the call after a correction is awaited without a timeout.
PlannerTimesOutOnce ==
    pc = "awaitPlanner" /\ expired /\ corrections = 0 /\ PlannerUnavailable

PlannerTimesOut == pc = "awaitPlanner" /\ expired /\ PlannerUnavailable

-------------------------------------------------------------------------------
(* authorize *)

Refused == AuthorizeError(kept, request)
Progress == Cardinality(kept.evidenceById)
Repeated == request \in DOMAIN seen /\ seen[request] = Progress
Noted == [a \in DOMAIN seen \cup {request} |->
             IF a = request THEN Progress ELSE seen[a]]
SearchIsHopeless == IsSearch(request) /\ emptySearches >= 2

AuthorizeFrame ==
    UNCHANGED <<expired, toolVars, modelVars, draft, verificationOk, repairs,
                historyVars>>

ChooseAbstain ==
    /\ Enter("authorize")
    /\ request.tool = "abstain"
    /\ StopNode("insufficient_evidence", FALSE)
    /\ UNCHANGED planVars
    /\ AuthorizeFrame

ChooseDraft ==
    /\ Enter("authorize")
    /\ request.tool = "draft"
    /\ IF ~ request.wellFormed \/ kept.evidenceById = {}
       THEN StopNode("insufficient_evidence", FALSE)
       ELSE /\ pc' = "write"
            /\ status' = "writing"
            /\ NodeCompleted(kept.toolCalls, "writing")
            /\ UNCHANGED <<stopReason, delivered>>
    /\ UNCHANGED planVars
    /\ AuthorizeFrame

RejectAction ==
    /\ Enter("authorize")
    /\ request.tool \in Tools
    /\ Refused # "none"
    /\ IF Refused = "invalid_arguments"
       THEN Invalid
       ELSE /\ StopNode("scope_or_provenance_violation", TRUE)
            /\ UNCHANGED <<request, corrections>>
    /\ UNCHANGED <<client, seen>>
    /\ AuthorizeFrame

AcceptAction ==
    /\ Enter("authorize")
    /\ request.tool \in Tools
    /\ Refused = "none"
    /\ IF Repeated
       THEN /\ StopNode("repeated_action_without_evidence", FALSE)
            /\ UNCHANGED seen
       ELSE /\ seen' = Noted
            /\ IF SearchIsHopeless
               THEN StopNode("insufficient_evidence", FALSE)
               ELSE /\ Go("execute")
                    /\ NodeCompleted(kept.toolCalls, status)
    /\ UNCHANGED <<client, request, corrections>>
    /\ AuthorizeFrame

-------------------------------------------------------------------------------
(* execute: ToolExecutor.execute over a session built from the state *)

ExecuteFrame ==
    UNCHANGED <<expired, planVars, modelVars, draft, verificationOk, repairs,
                lost>>

BeginExecute ==
    /\ Enter("execute")
    /\ session' = kept
    /\ attempt' = 0
    /\ Go("attempt")
    /\ UNCHANGED <<kept, pending, toolsRun, emptySearches, logVars, dispatched>>
    /\ ExecuteFrame

StopAttempt ==
    /\ pc = "attempt"
    /\ kept' = session
    /\ \/ /\ expired
          /\ StopNodeAt(session.toolCalls, "deadline_exhausted", TRUE)
       \/ /\ ~ expired
          /\ Refusal(session, request) # "none"
          /\ StopNodeAt(session.toolCalls, Refusal(session, request), TRUE)
    /\ UNCHANGED <<session, attempt, pending, toolsRun, emptySearches, steps,
                   dispatched>>
    /\ ExecuteFrame

\* Mutation: tool_started is written before the session is synced.
DispatchToolUnsynced ==
    /\ pc = "attempt"
    /\ ~ expired
    /\ Refusal(session, request) = "none"
    /\ session' = Reserved(session, request, attempt)
    /\ UNCHANGED kept
    /\ Emit("tool_started", kept.toolCalls, modelCalls, status)
    /\ Go("awaitTool")
    /\ dispatched' = [dispatched EXCEPT !.tools = @ + 1]
    /\ UNCHANGED <<attempt, pending, toolsRun, emptySearches, steps>>
    /\ ExecuteFrame

(* on_event syncs the session into the state before tool_started is written. *)
DispatchTool ==
    /\ pc = "attempt"
    /\ ~ expired
    /\ Refusal(session, request) = "none"
    /\ session' = Reserved(session, request, attempt)
    /\ kept' = session'
    /\ Emit("tool_started", kept'.toolCalls, modelCalls, status)
    /\ Go("awaitTool")
    /\ dispatched' = [dispatched EXCEPT !.tools = @ + 1]
    /\ UNCHANGED <<attempt, pending, toolsRun, emptySearches, steps>>
    /\ ExecuteFrame

(* The result is recorded before the loop decides what to do with it. *)
Record(empty) ==
    /\ toolsRun' = toolsRun \cup {request.tool}
    /\ emptySearches' = IF IsSearch(request) /\ empty
                        THEN emptySearches + 1 ELSE emptySearches

ReadFrame == UNCHANGED <<session, steps, dispatched>> /\ ExecuteFrame

ScopeViolation ==
    /\ kept' = session
    /\ StopNodeAt(session.toolCalls, "tool_scope_violation", TRUE)
    /\ UNCHANGED <<attempt, pending, toolsRun, emptySearches>>

Accepted(hits) ==
    /\ kept' = session
    /\ Record(hits = <<>>)
    /\ pending' = hits
    /\ Emit("tool_completed", session.toolCalls, modelCalls, status)
    /\ Go("admit")
    /\ UNCHANGED attempt

ReadReturns ==
    /\ pc = "awaitTool"
    /\ request.tool \in Lookups \cup {"document_search"}
    /\ \E hits \in HitLists :
        /\ IsSearch(request) \/ LookupHits(request, hits)
        /\ IF HitsInScope(hits) /\ HitsTrusted(hits)
           THEN Accepted(hits) ELSE ScopeViolation
    /\ ReadFrame

(* A date, supported or not, and a public citation check admit nothing. *)
ValueReturns ==
    /\ pc = "awaitTool"
    /\ request.tool \in {"calculate_date", "verify_citation"}
    /\ IF request.tool = "verify_citation"
          /\ ~ request.cites \subseteq session.evidenceById
       THEN ScopeViolation ELSE Accepted(<<>>)
    /\ ReadFrame

ReadFailed ==
    /\ Suspends(request)
    /\ Record(FALSE)
    /\ kept' = session
    /\ IF attempt < Attempts - 1
       THEN /\ attempt' = attempt + 1
            /\ Emit("tool_failed", session.toolCalls, modelCalls, status)
            /\ Go("attempt")
       ELSE /\ StopNodeAt(session.toolCalls, "tool_unavailable", TRUE)
            /\ UNCHANGED attempt
    /\ UNCHANGED pending
    /\ ReadFrame

ReadUnavailable == pc = "awaitTool" /\ ReadFailed
ReadTimesOut == pc = "awaitTool" /\ expired /\ ReadFailed

(* RuntimeError fails the tool; any other exception is contained. *)
ReadBreaks ==
    /\ pc = "awaitTool"
    /\ Suspends(request)
    /\ \/ /\ Record(FALSE)
          /\ kept' = session
          /\ StopNodeAt(session.toolCalls, "tool_unavailable", TRUE)
       \/ /\ Contain
          /\ UNCHANGED <<kept, toolsRun, emptySearches>>
    /\ UNCHANGED <<attempt, pending>>
    /\ ReadFrame

AdmitHit ==
    /\ pc = "admit"
    /\ pending # <<>>
    /\ pending' = Tail(pending)
    /\ session' = Admitted(session, Head(pending))
    /\ IF Admissible(session, Head(pending))
       THEN /\ kept' = session'
            /\ Emit("evidence_added", kept'.toolCalls, modelCalls, status)
       ELSE UNCHANGED <<kept, logVars>>
    /\ Go("admit")
    /\ UNCHANGED <<attempt, toolsRun, emptySearches, steps, dispatched>>
    /\ ExecuteFrame

FinishExecute ==
    /\ pc = "admit"
    /\ pending = <<>>
    /\ kept' = session
    /\ Go("decide")
    /\ NodeCompleted(session.toolCalls, status)
    /\ UNCHANGED <<session, attempt, pending, toolsRun, emptySearches, steps,
                   dispatched>>
    /\ ExecuteFrame

-------------------------------------------------------------------------------
(* write, verify, repair *)

DraftUnaffordable ==
    modelCalls >= MaxModelCalls \/ kept.toolCalls >= MaxToolCalls

RefuseDraft ==
    /\ Enter("write")
    /\ DraftUnaffordable
    /\ Stop("draft_budget_exhausted", TRUE)
    /\ UNCHANGED <<expired, planVars, toolVars, modelVars, draft,
                   verificationOk, repairs, logVars, historyVars>>

AskWriter ==
    /\ Enter("write")
    /\ ~ DraftUnaffordable
    /\ modelCalls' = modelCalls + 1
    /\ callReserved' = TRUE
    /\ Emit("model_started", kept.toolCalls, modelCalls', status)
    /\ Go("awaitWriter")
    /\ dispatched' = [dispatched EXCEPT !.models = @ + 1]
    /\ UNCHANGED <<expired, planVars, toolVars, usageKnown, draft,
                   verificationOk, repairs, lost>>

\* Mutation: the shared writer counts a call the graph already counted.
WriterCountsAgain == modelCalls + 1

(* The writer node is V1's: it counts its call unless it was reserved. *)
WriterCount == modelCalls + (IF callReserved THEN 0 ELSE 1)

WriterAnswers ==
    /\ pc = "awaitWriter"
    /\ draft' \in Drafts
    /\ modelCalls' = WriterCount
    /\ callReserved' = FALSE
    /\ Emit("draft_created", kept.toolCalls, modelCalls', status)
    /\ Go("verify")
    /\ UNCHANGED <<expired, planVars, toolVars, usageKnown, verificationOk,
                   repairs, steps, dispatched, lost>>

(* ModelError: the writer marks the run failed itself, without a reason. *)
WriterFails ==
    /\ pc = "awaitWriter"
    /\ status' = "failed"
    /\ modelCalls' = WriterCount
    /\ callReserved' = FALSE
    /\ usageKnown' = FALSE
    /\ Emit("draft_created", kept.toolCalls, modelCalls', "failed")
    /\ pc' = "terminal"
    /\ lost' = lost + 1
    /\ UNCHANGED <<expired, stopReason, planVars, toolVars, gateVars, steps,
                   dispatched>>

(* wait_for ends the node at the deadline; anything else is contained. *)
WriterTimesOut ==
    /\ pc = "awaitWriter"
    /\ expired
    /\ usageKnown' = FALSE
    /\ Stop("deadline_exhausted", TRUE)
    /\ lost' = lost + 1
    /\ UNCHANGED <<expired, planVars, toolVars, modelCalls, callReserved,
                   draft, verificationOk, repairs, logVars, steps, dispatched>>

ModelRaises ==
    /\ pc \in {"awaitPlanner", "awaitWriter"}
    /\ Contain
    /\ lost' = lost + 1
    /\ UNCHANGED <<expired, planVars, toolVars, modelVars, draft,
                   verificationOk, repairs, steps, dispatched>>

(* registry.verify: every locator must resolve to an admitted chunk. *)
Grounded(d) ==
    /\ d.cites # {}
    /\ d.cites \subseteq Range(kept.evidence)
    /\ ~ d.malformed

VerificationUnaffordable == kept.toolCalls >= MaxToolCalls

\* Mutation: the mandatory verification takes no tool slot.
VerifyDraftFree ==
    /\ Enter("verify")
    /\ verificationOk' = Grounded(draft)
    /\ NodeCompleted(kept.toolCalls, status)
    /\ Go(IF verificationOk' \/ repairs >= MaxRepairAttempts
          THEN "terminal" ELSE "repair")
    /\ UNCHANGED <<expired, planVars, toolVars, modelVars, draft, repairs,
                   historyVars>>

VerifyDraft ==
    /\ Enter("verify")
    /\ IF VerificationUnaffordable
       THEN /\ StopNode("verification_budget_exhausted", TRUE)
            /\ UNCHANGED <<kept, verificationOk>>
       ELSE /\ kept' = [kept EXCEPT !.toolCalls = @ + 1]
            /\ verificationOk' = Grounded(draft)
            /\ NodeCompleted(kept.toolCalls + 1, status)
            /\ Go(IF verificationOk' \/ repairs >= MaxRepairAttempts
                  THEN "terminal" ELSE "repair")
    /\ UNCHANGED <<expired, planVars, session, attempt, pending, toolsRun,
                   emptySearches, modelVars, draft, repairs, historyVars>>

Repair ==
    /\ Enter("repair")
    /\ repairs' = repairs + 1
    /\ NodeCompleted(kept.toolCalls, status)
    /\ Go("write")
    /\ UNCHANGED <<expired, planVars, toolVars, modelVars, draft,
                   verificationOk, historyVars>>

-------------------------------------------------------------------------------
(* terminal, cancellation, disconnection *)

Completes == verificationOk /\ status = "writing"

FinalStatus ==
    CASE Completes -> "completed"
      [] ~ Completes /\ status \in Stopped -> status
      [] OTHER -> "abstained"

Terminal ==
    /\ pc = "terminal"
    /\ steps' = steps + 1
    /\ status' = FinalStatus
    /\ stopReason' = CASE Completes -> "verified"
                       [] ~ Completes /\ status \in Stopped -> stopReason
                       [] OTHER -> "citation_verification_failed"
    /\ delivered' = Completes
    /\ Emit(IF FinalStatus = "completed" THEN "run_completed"
            ELSE IF FinalStatus = "abstained" THEN "run_abstained"
            ELSE "run_failed",
            kept.toolCalls, modelCalls, FinalStatus)
    /\ pc' = "close"
    /\ UNCHANGED <<expired, planVars, toolVars, modelVars, draft,
                   verificationOk, repairs, historyVars>>

CancelledWith(reason) ==
    /\ status' = "cancelled"
    /\ stopReason' = reason
    /\ delivered' = FALSE

(* CancelledError reaches a node at its await: guarded writes the event. *)
CancelNode ==
    /\ pc \in Waits
    /\ pc = "awaitTool" => Suspends(request)
    /\ CancelledWith("cancelled")
    /\ usageKnown' = (usageKnown /\ pc = "awaitTool")
    /\ lost' = IF pc = "awaitTool" THEN lost ELSE lost + 1
    /\ Emit("run_cancelled", kept.toolCalls, modelCalls, "cancelled")
    /\ pc' = "close"
    /\ UNCHANGED <<expired, planVars, toolVars, modelCalls, callReserved,
                   draft, verificationOk, repairs, steps, dispatched>>

(* The consumer leaves between two nodes: the generator is closed. *)
Disconnect ==
    /\ pc \in Nodes \ {"initialize"}
    /\ pc' = "close"
    /\ UNCHANGED <<expired, status, stopReason, planVars, toolVars, modelVars,
                   gateVars, logVars, steps, historyVars>>

(* close_incomplete, on every way out of v2_states: from the last snapshot *)
(* of the journal, unless its last event is already terminal.              *)
CloseIncomplete ==
    /\ pc = "close"
    /\ pc' = "end"
    /\ IF journal.event \in TerminalEvents
       THEN UNCHANGED <<status, stopReason, delivered, usageKnown, logVars>>
       ELSE /\ CancelledWith("consumer_disconnected")
            /\ usageKnown' = FALSE
            /\ Emit("run_cancelled", journal.toolCalls, journal.modelCalls,
                    "cancelled")
    /\ UNCHANGED <<expired, planVars, toolVars, modelCalls, callReserved,
                   draft, verificationOk, repairs, steps, historyVars>>

DeadlinePasses ==
    /\ pc \notin {"initialize", "close", "end"}
    /\ ~ expired
    /\ expired' = TRUE
    /\ UNCHANGED <<pc, status, stopReason, planVars, toolVars, modelVars,
                   gateVars, logVars, steps, historyVars>>

Done == pc = "end" /\ UNCHANGED vars

(* What the run does by itself, as opposed to what happens to it. *)
Decide == StubDecide \/ RefusePlanning \/ AskPlanner
AuthorizeNode == ChooseAbstain \/ ChooseDraft \/ RejectAction \/ AcceptAction
Execute == BeginExecute \/ StopAttempt \/ DispatchTool \/ AdmitHit
              \/ FinishExecute \/ ValueReturns
Write == RefuseDraft \/ AskWriter
OwnStep ==
    \/ Initialize \/ NodeExpires \/ Decide \/ AuthorizeNode \/ Execute
    \/ Write \/ VerifyDraft \/ Repair \/ Terminal \/ CloseIncomplete
    \/ PlannerTimesOut \/ ReadTimesOut \/ WriterTimesOut

Reply ==
    \/ PlannerAnswers \/ PlannerFails \/ ReadReturns \/ ReadUnavailable
    \/ ReadBreaks \/ WriterAnswers \/ WriterFails \/ ModelRaises

Next == OwnStep \/ Reply \/ CancelNode \/ Disconnect \/ DeadlinePasses \/ Done

Spec == Init /\ [][Next]_vars

(***************************************************************************)
(* LangGraph schedules the next node, a lookup in the in-memory store      *)
(* returns, the clock advances and wait_for fires at the deadline.  A      *)
(* model or a retriever may never answer and nobody has to cancel.         *)
(***************************************************************************)
FairSpec ==
    /\ Spec
    /\ WF_vars(OwnStep)
    /\ WF_vars(pc = "awaitTool" /\ ~ Suspends(request) /\ ReadReturns)
    /\ WF_vars(DeadlinePasses)

-------------------------------------------------------------------------------
TypeOK ==
    /\ pc \in Places
    /\ expired \in BOOLEAN
    /\ status \in Statuses
    /\ stopReason \in StopReasons
    /\ kept \in Session
    /\ session \in Session
    /\ client \in Clients
    /\ request \in Action \cup {NoAction}
    /\ pc \in RequestPlaces => request \in Action
    /\ DOMAIN seen \subseteq Action
    /\ \A a \in DOMAIN seen : seen[a] \in Nat
    /\ corrections \in Nat
    /\ attempt \in {0, 1}
    /\ pending \in Seq(Evidence)
    /\ toolsRun \subseteq ActionTools
    /\ emptySearches \in Nat
    /\ modelCalls \in Nat
    /\ callReserved \in BOOLEAN
    /\ usageKnown \in BOOLEAN
    /\ draft \in Draft
    /\ verificationOk \in BOOLEAN
    /\ repairs \in Nat
    /\ delivered \in BOOLEAN
    /\ journal \in [event: Events, toolCalls: Nat, modelCalls: Nat,
                    status: Statuses]
    /\ terminals \in Nat
    /\ steps \in Nat
    /\ dispatched \in [tools: Nat, models: Nat]
    /\ lost \in Nat

(***************************************************************************)
(* A run spends no more than its Budget, and its counters are what was     *)
(* really sent out: every tool read, the mandatory verifications, and      *)
(* every planner and writer call once, although the writer node is shared  *)
(* with V1 and counts its own call there.                                  *)
(***************************************************************************)
BudgetsHold ==
    /\ kept.toolCalls <= MaxToolCalls
    /\ kept.searchesUsed <= MaxSearches
    /\ Cardinality(kept.evidenceById) <= MaxEvidenceItems
    /\ EvidenceChars(kept) <= MaxEvidenceChars
    /\ modelCalls <= MaxModelCalls
    /\ repairs <= MaxRepairAttempts
    /\ modelCalls = dispatched.models
    /\ kept.toolCalls >= dispatched.tools

(***************************************************************************)
(* The two reservations do their work: research never leaves the run       *)
(* unable to verify what it drafted, and only a repair can find that there *)
(* is no call left to draft with.                                          *)
(***************************************************************************)
GateIsAffordable ==
    /\ stopReason # "verification_budget_exhausted"
    /\ stopReason = "draft_budget_exhausted" => repairs > 0

(***************************************************************************)
(* A run is completed only with an answer whose every citation resolves to *)
(* a chunk this run admitted, of a granted document and equal to the       *)
(* store's copy; "a public verify_citation call never substitutes for the  *)
(* final gate" and an empty or uncited draft fails it.                     *)
(***************************************************************************)
CompletedMeansVerified ==
    /\ status = "completed" => /\ delivered
                               /\ Grounded(draft)
                               /\ kept.toolCalls > dispatched.tools
    /\ delivered => status = "completed"
    /\ \A e \in Range(kept.evidence) : DocOf[e] \in Granted /\ e \notin Forged

(***************************************************************************)
(* Counters are journaled before a call is dispatched: if the process dies *)
(* at any point, the last snapshot accounts for every tool read and model  *)
(* call that went out.                                                     *)
(***************************************************************************)
JournalCoversDispatches ==
    /\ journal.toolCalls >= dispatched.tools
    /\ journal.modelCalls >= dispatched.models

(***************************************************************************)
(* "There is exactly one terminal event for normal success, failure,       *)
(* abstention or cancellation", and it says what the run's status says.    *)
(***************************************************************************)
OneTerminalEvent ==
    /\ terminals <= 1
    /\ pc = "end" => /\ terminals = 1
                     /\ journal.event \in TerminalEvents
                     /\ journal.status = status
                     /\ status \in Stopped \cup {"completed"}

(***************************************************************************)
(* "Provider outages are not evidence-based abstentions": a run that lost  *)
(* a model call neither abstains nor completes.                            *)
(***************************************************************************)
OutageIsNotAbstention ==
    pc = "end" /\ status \in {"abstained", "completed"} => lost = 0

(***************************************************************************)
(* A run that lost a model call says its token usage is unknown, unless    *)
(* the call ended in an exception of no expected kind.                     *)
(***************************************************************************)
LostCallMakesUsageUnknown ==
    pc = "end" /\ lost > 0 /\ stopReason # "internal_error" => ~ usageKnown

(***************************************************************************)
(* A lost model call shows in the result: in its status and in its usage.  *)
(***************************************************************************)
LostCallsShow == OutageIsNotAbstention /\ LostCallMakesUsageUnknown

(***************************************************************************)
(* Every round of the graph costs a tool call or an argument correction,   *)
(* so a run takes a bounded number of supersteps: 48 for the default       *)
(* Budget, against the recursion_limit of 100 at which LangGraph raises.   *)
(***************************************************************************)
StepBound == 3 * MaxToolCalls + 12
StepsAreBounded == steps <= StepBound

(***************************************************************************)
(* No limit gets in the way of the gate: neither the calls that research   *)
(* takes nor the recursion limit keep a drafted answer from its            *)
(* verification.                                                           *)
(***************************************************************************)
GateIsReachable == GateIsAffordable /\ StepsAreBounded

(***************************************************************************)
(* Every run reaches its end even if the model or the retriever hangs.     *)
(***************************************************************************)
RunTerminates == <>(pc = "end")

(* The run as its consumer may rely on it. *)
Promise == INSTANCE RunContract WITH
    ToolBudget <- MaxToolCalls,
    ModelBudget <- MaxModelCalls,
    outcome <- IF terminals = 0 THEN "open" ELSE journal.status,
    toolsSpent <- kept.toolCalls,
    modelsSpent <- modelCalls,
    approved <- verificationOk,
    answered <- delivered

(***************************************************************************)
(* The graph keeps the contract of a run: see RunContract.                 *)
(***************************************************************************)
KeepsContract == Promise!Contract

===============================================================================
