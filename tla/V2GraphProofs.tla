---------------------------- MODULE V2GraphProofs ----------------------------
(***************************************************************************)
(* Theorems about a run of the V2 graph, for every budget, every planner,  *)
(* every writer and every retriever.                                       *)
(***************************************************************************)
EXTENDS V2Graph, ToolPolicyProofs

(* A session within its limits whose two indexes of evidence agree. *)
SessionOK(s) == WithinLimits(s) /\ Range(s.evidence) = s.evidenceById

(* Typing needs the sessions intact: the offline planner picks its lookups  *)
(* from the evidence, and progress is a number only of a finite set.        *)
Typed == TypeOK /\ SessionOK(kept) /\ SessionOK(session)

(* A nonempty set of naturals has a least element. *)
LEMMA LeastNat ==
    ASSUME NEW T, T \subseteq Nat, T # {}
    PROVE  Min(T) \in T
<1> DEFINE R == OpToRel(<, Nat)
<1>1. IsWellFoundedOn(R, Nat)
  BY NatLessThanWellFounded
<1> HIDE DEF R
<1>2. PICK x \in T : \A y \in T : ~ (<<y, x>> \in R)
  BY <1>1, WFMin
<1>3. R = {p \in Nat \X Nat : p[1] < p[2]}
  BY DEF R, OpToRel
<1>4. ASSUME NEW y \in T, y < x
      PROVE  <<y, x>> \in R
  BY <1>3, <1>4
<1>5. \A y \in T : ~ (y < x)
  BY <1>2, <1>4
<1>6. \A y \in T : x <= y
  BY <1>5
<1> QED BY <1>6 DEF Min

(* A new session is within its limits. *)
LEMMA NewSessionOK == NewSession \in Session /\ SessionOK(NewSession)
<1>1. NewSession \in Session
  BY DEF NewSession, Session
<1>2. /\ NewSession.toolCalls = 0 /\ NewSession.searchesUsed = 0
      /\ NewSession.evidenceById = {} /\ NewSession.evidence = <<>>
  BY DEF NewSession
<1>3. IsFiniteSet(NewSession.evidenceById)
      /\ Cardinality(NewSession.evidenceById) = 0
  BY <1>2, FS_EmptySet
<1>4. Range(NewSession.evidence) = {}
  BY <1>2 DEF Range
<1>5. EvidenceChars(NewSession) = 0
  BY <1>1, <1>2, NoEvidenceNoChars
<1> QED BY <1>1, <1>2, <1>3, <1>4, <1>5, LimitAssumption
        DEF SessionOK, WithinLimits

(* What the three changes of a session keep: a reserved attempt, ... *)
LEMMA ReservedOK ==
    ASSUME NEW s \in Session, SessionOK(s), NEW r, NEW a \in {0, 1},
           Refusal(s, r) = "none"
    PROVE  Reserved(s, r, a) \in Session /\ SessionOK(Reserved(s, r, a))
BY ReservedType, ReservedWithinLimits, ReservedSpends DEF SessionOK

(* ... an admitted hit, ... *)
LEMMA AdmittedOK ==
    ASSUME NEW s \in Session, SessionOK(s), NEW e \in Evidence
    PROVE  Admitted(s, e) \in Session /\ SessionOK(Admitted(s, e))
<1>1. Admitted(s, e) \in Session /\ WithinLimits(Admitted(s, e))
  BY AdmittedType, AdmittedWithinLimits DEF SessionOK
<1>2. CASE ~ Admissible(s, e)
  BY <1>2 DEF Admitted
<1>3. CASE Admissible(s, e)
  <2>1. Admitted(s, e).evidence = Append(s.evidence, e)
        /\ Admitted(s, e).evidenceById = s.evidenceById \cup {e}
    BY <1>3 DEF Admitted, Session
  <2>2. Range(Append(s.evidence, e)) = Range(s.evidence) \cup {e}
    BY RangeWithAppend DEF Session
  <2> QED BY <1>1, <2>1, <2>2 DEF SessionOK
<1> QED BY <1>2, <1>3

(* ... and the mandatory verification. *)
Charged(s) == [s EXCEPT !.toolCalls = @ + 1]

(* Paying for a tool call that was still affordable keeps the limits. *)
LEMMA ChargedOK ==
    ASSUME NEW s \in Session, SessionOK(s), s.toolCalls < MaxToolCalls
    PROVE  Charged(s) \in Session /\ SessionOK(Charged(s))
<1>1. Charged(s) \in Session
  BY DEF Charged, Session
<1>2. /\ Charged(s).toolCalls = s.toolCalls + 1
      /\ Charged(s).searchesUsed = s.searchesUsed
      /\ Charged(s).evidenceById = s.evidenceById
      /\ Charged(s).evidence = s.evidence
  BY DEF Charged, Session
<1>3. s.toolCalls + 1 <= MaxToolCalls
  BY LimitAssumption DEF Session
<1>4. EvidenceChars(Charged(s)) = EvidenceChars(s)
  BY <1>2 DEF EvidenceChars
<1> QED BY <1>1, <1>2, <1>3, <1>4 DEF SessionOK, WithinLimits

-------------------------------------------------------------------------------
(* What the offline planner proposes is an action. *)
LEMMA StubActionType ==
    ASSUME Typed
    PROVE  StubAction \in Action
<1> USE DEF Action, RequestOf, ActionTools, Tools, Lookups
<1>1. /\ kept.evidence \in Seq(Evidence)
      /\ Range(kept.evidence) = kept.evidenceById
  BY DEF Typed, TypeOK, Session, SessionOK
<1>2. FirstQuery \in Queries /\ SecondQuery \in Queries
  BY GraphAssumption
<1>3. \A e \in Evidence : DocOf[e] \in Docs
  BY ScopeAssumption
<1>4. \A q \in Queries : StubSearch(q) \in Action
  BY ScopeAssumption DEF StubSearch
<1>5. \A e \in Evidence, t \in Lookups : StubLookup(t, e) \in Action
  BY <1>2, <1>3 DEF StubLookup
<1>6. StubOther("abstain") \in Action /\ StubOther("draft") \in Action
  BY <1>2 DEF StubOther
<1>7. \A i \in DOMAIN kept.evidence : kept.evidence[i] \in Evidence
  BY <1>1
<1>8. kept.evidenceById # {} => 1 \in DOMAIN kept.evidence
  <2>1. kept.evidence = <<>> => kept.evidenceById = {}
    BY <1>1 DEF Range
  <2> QED BY <1>1, <2>1
<1> DEFINE references == {i \in DOMAIN kept.evidence :
                            kept.evidence[i] \in Referencing}
           A == toolsRun = {}
           B == toolsRun # {} /\ kept.evidenceById = {}
           C == kept.evidenceById # {} /\ references # {}
                /\ "retrieve_clause" \notin toolsRun
           D == kept.evidenceById # {} /\ AsksDefinition
                /\ (references = {} \/ "retrieve_clause" \in toolsRun)
                /\ "extract_definition" \notin toolsRun
           onB == IF kept.searchesUsed < Min({2, MaxSearches})
                  THEN StubSearch(SecondQuery) ELSE StubOther("abstain")
           onC == StubLookup("retrieve_clause", kept.evidence[Min(references)])
           onD == StubLookup("extract_definition", kept.evidence[1])
<1>9. StubAction = CASE A -> StubSearch(FirstQuery) [] B -> onB [] C -> onC
                     [] D -> onD [] OTHER -> StubOther("draft")
  BY DEF StubAction
<1>10. onB \in Action
  BY <1>2, <1>4, <1>6
<1>11. C => onC \in Action
  <2> SUFFICES ASSUME C PROVE onC \in Action
    OBVIOUS
  <2>1. references \subseteq DOMAIN kept.evidence /\ references # {}
        /\ DOMAIN kept.evidence \subseteq Nat
    BY <1>1
  <2>2. Min(references) \in references
    BY <2>1, LeastNat
  <2> QED BY <1>5, <1>7, <2>1, <2>2
<1>12. D => onD \in Action
  BY <1>5, <1>7, <1>8
<1>13. StubSearch(FirstQuery) \in Action /\ StubOther("draft") \in Action
  BY <1>2, <1>4, <1>6
<1> HIDE DEF A, B, C, D, onB, onC, onD, Action
<1> QED BY <1>9, <1>10, <1>11, <1>12, <1>13

(* Stopping a node and writing an event keep their variables well typed. *)
Journal == [event: Events, toolCalls: Nat, modelCalls: Nat, status: Statuses]

(* Stopping a run sets a stopped status and a known reason. *)
LEMMA StopType ==
    ASSUME NEW reason \in StopReasons, NEW failed, Stop(reason, failed)
    PROVE  /\ status' \in {"failed", "abstained"}
           /\ stopReason' \in StopReasons
           /\ delivered' \in BOOLEAN
           /\ pc' = "terminal"
BY DEF Stop

(* Emitting an event keeps the journal's summary in its type. *)
LEMMA EmitType ==
    ASSUME terminals \in Nat, NEW event \in Events, NEW tools \in Nat,
           NEW models \in Nat, NEW st \in Statuses,
           Emit(event, tools, models, st)
    PROVE  journal' \in Journal /\ terminals' \in Nat
BY DEF Emit, Journal

(* The initial states are typed. *)
LEMMA TypedInit == Init => Typed
<1> SUFFICES ASSUME Init PROVE Typed
  OBVIOUS
<1>1. SessionOK(kept) /\ SessionOK(session) /\ kept \in Session
      /\ session \in Session
  BY NewSessionOK DEF Init
<1>2. journal \in Journal
  BY DEF Init, Journal, Events, Statuses
<1>3. DOMAIN seen = {}
  BY DEF Init
<1>4. draft \in Draft /\ pending \in Seq(Evidence)
  BY DEF Init, Draft, NoDraft
<1>5. dispatched \in [tools: Nat, models: Nat]
  BY DEF Init
<1> QED BY <1>1, <1>2, <1>3, <1>4, <1>5 DEF Init, Typed, TypeOK, Places, Nodes,
           Statuses, StopReasons, RequestPlaces, Journal

-------------------------------------------------------------------------------
(* The ways the two copies of the session change. *)
LEMMA SessionMoves ==
    ASSUME [Next]_vars
    PROVE  \/ UNCHANGED <<kept, session>>
           \/ UNCHANGED kept /\ session' = kept
           \/ /\ kept' = session /\ UNCHANGED session
              /\ pc \in {"attempt", "awaitTool", "admit"}
           \/ DispatchTool \/ AdmitHit \/ VerifyDraft
<1> USE DEF toolVars, Emit
<1>1. CASE OwnStep
  BY <1>1 DEF OwnStep, Initialize, NodeExpires, Decide, StubDecide,
       RefusePlanning, AskPlanner, AuthorizeNode, ChooseAbstain, ChooseDraft,
       RejectAction, AcceptAction, AuthorizeFrame, Execute, BeginExecute,
       StopAttempt, FinishExecute, ValueReturns, Accepted, ScopeViolation,
       ReadFrame, Write, RefuseDraft, AskWriter, Repair, Terminal,
       CloseIncomplete, PlannerTimesOut, PlannerUnavailable, ReadTimesOut,
       ReadFailed, WriterTimesOut
<1>2. CASE Reply
  BY <1>2 DEF Reply, PlannerAnswers, PlannerFails, PlannerUnavailable,
       ReadReturns, Accepted, ScopeViolation, ReadFrame, ReadUnavailable,
       ReadFailed, ReadBreaks, WriterAnswers, WriterFails, ModelRaises
<1>3. CASE CancelNode \/ Disconnect \/ DeadlinePasses \/ Done
           \/ UNCHANGED vars
  BY <1>3 DEF CancelNode, Disconnect, DeadlinePasses, Done, vars
<1> QED BY <1>1, <1>2, <1>3 DEF Next

(* Every step keeps the live session and the snapshot of it within the limits. *)
LEMMA SessionsStep ==
    ASSUME Typed, [Next]_vars
    PROVE  /\ kept' \in Session /\ SessionOK(kept')
           /\ session' \in Session /\ SessionOK(session')
<1>0. /\ kept \in Session /\ SessionOK(kept)
      /\ session \in Session /\ SessionOK(session)
  BY DEF Typed, TypeOK
<1>1. CASE DispatchTool
  <2>1. attempt \in {0, 1}
    BY DEF Typed, TypeOK
  <2> QED BY <1>0, <1>1, <2>1, ReservedOK DEF DispatchTool
<1>2. CASE AdmitHit
  <2>1. pending \in Seq(Evidence) /\ pending # <<>>
    BY <1>2 DEF Typed, TypeOK, AdmitHit
  <2>2. Head(pending) \in Evidence
    BY <2>1
  <2>3. session' = Admitted(session, Head(pending))
        /\ (kept' = session' \/ kept' = kept)
    BY <1>2 DEF AdmitHit
  <2> QED BY <1>0, <2>2, <2>3, AdmittedOK
<1>3. CASE VerifyDraft
  <2>1. session' = session
    BY <1>3 DEF VerifyDraft
  <2>2. CASE VerificationUnaffordable
    BY <1>0, <1>3, <2>1, <2>2 DEF VerifyDraft
  <2>3. CASE ~ VerificationUnaffordable
    <3>1. kept.toolCalls < MaxToolCalls
      BY <1>0, <2>3, LimitAssumption DEF VerificationUnaffordable, Session
    <3>2. kept' = Charged(kept)
      BY <1>3, <2>3 DEF VerifyDraft, Charged
    <3> QED BY <1>0, <2>1, <3>1, <3>2, ChargedOK
  <2> QED BY <2>2, <2>3
<1> QED BY <1>0, <1>1, <1>2, <1>3, SessionMoves

(* The terminal node ends a run with one of the three terminal statuses. *)
LEMMA FinalStatusType == FinalStatus \in {"completed"} \cup Stopped
<1>1. Completes => FinalStatus = "completed"
  BY DEF FinalStatus
<1>2. ~ Completes /\ status \in Stopped => FinalStatus = status
  BY DEF FinalStatus
<1>3. ~ Completes /\ status \notin Stopped => FinalStatus = "abstained"
  BY DEF FinalStatus
<1> QED BY <1>1, <1>2, <1>3 DEF Stopped

(* Every step keeps the control state in its type: one case per node. *)
LEMMA TypeStep ==
    ASSUME Typed, [Next]_vars
    PROVE  TypeOK'
<1> USE DEF planVars, toolVars, modelVars, gateVars, logVars, historyVars,
            AuthorizeFrame, ExecuteFrame, ReadFrame, Enter, Go
<1> DEFINE Plan == /\ expired' \in BOOLEAN
                   /\ client' \in Clients
                   /\ request' \in Action \cup {NoAction}
                   /\ DOMAIN seen' \subseteq Action
                   /\ \A a \in DOMAIN seen' : seen'[a] \in Nat
                   /\ corrections' \in Nat
                   /\ attempt' \in {0, 1}
                   /\ pending' \in Seq(Evidence)
                   /\ toolsRun' \subseteq ActionTools
                   /\ emptySearches' \in Nat
           Tally == /\ modelCalls' \in Nat
                    /\ callReserved' \in BOOLEAN
                    /\ usageKnown' \in BOOLEAN
                    /\ draft' \in Draft
                    /\ verificationOk' \in BOOLEAN
                    /\ repairs' \in Nat
                    /\ steps' \in Nat
                    /\ dispatched' \in [tools: Nat, models: Nat]
                    /\ lost' \in Nat
           Course == /\ pc' \in Places
                     /\ status' \in Statuses
                     /\ stopReason' \in StopReasons
                     /\ delivered' \in BOOLEAN
                     /\ pc' \in RequestPlaces => request' \in Action
           Log == journal' \in Journal /\ terminals' \in Nat
<1>0. /\ TypeOK /\ kept \in Session /\ session \in Session
      /\ kept.toolCalls \in Nat /\ session.toolCalls \in Nat
      /\ Cardinality(kept.evidenceById) \in Nat
      /\ journal \in Journal /\ terminals \in Nat
      /\ pc \in RequestPlaces => request.tool \in ActionTools
      /\ modelCalls \in Nat /\ steps \in Nat
      /\ dispatched \in [tools: Nat, models: Nat]
  <2>1. IsFiniteSet(kept.evidenceById)
    BY DEF Typed, SessionOK, WithinLimits
  <2> QED BY <2>1, FS_CardinalityType DEF Typed, TypeOK, Session, Journal,
           Action, RequestOf
<1>1. ASSUME Plan, Tally, Course, Log PROVE TypeOK'
  BY <1>1, SessionsStep DEF TypeOK, Journal
<1>2. CASE UNCHANGED vars
  BY <1>0, <1>2 DEF TypeOK, vars
<1>3. CASE Done
  BY <1>2, <1>3 DEF Done
<1>4. CASE Initialize
  <2>1. Plan
    BY <1>0, <1>4 DEF TypeOK, Initialize, Stop
  <2>2. Tally
    BY <1>0, <1>4 DEF TypeOK, Initialize, Stop
  <2>3. Course
    BY <1>0, <1>4 DEF TypeOK, Places, Nodes, Waits, RequestPlaces, Statuses,
          Stopped, StopReasons, Initialize, Stop
  <2>4. Log
    BY <1>0, <1>4, EmitType DEF TypeOK, Statuses, Stopped, Events,
          TerminalEvents, Initialize, Stop
  <2> QED BY <1>1, <2>1, <2>2, <2>3, <2>4
<1>5. CASE NodeExpires
  <2>1. Plan
    BY <1>0, <1>5 DEF TypeOK, NodeExpires, Stop
  <2>2. Tally
    BY <1>0, <1>5 DEF TypeOK, NodeExpires, Stop
  <2>3. Course
    BY <1>0, <1>5 DEF TypeOK, Places, Nodes, Waits, RequestPlaces, Statuses,
          Stopped, StopReasons, NodeExpires, Stop
  <2>4. Log
    BY <1>0, <1>5 DEF NodeExpires
  <2> QED BY <1>1, <2>1, <2>2, <2>3, <2>4
<1>6. CASE StubDecide
  <2>1. Plan
    BY <1>0, <1>6, StubActionType DEF TypeOK, StubDecide, Propose,
          NodeCompleted
  <2>2. Tally
    BY <1>0, <1>6, StubActionType DEF TypeOK, StubDecide, Propose,
          NodeCompleted
  <2>3. Course
    BY <1>0, <1>6, StubActionType DEF TypeOK, Places, Nodes, Waits,
          RequestPlaces, Statuses, Stopped, StopReasons, StubDecide, Propose,
          NodeCompleted
  <2>4. Log
    BY <1>0, <1>6, StubActionType, EmitType DEF TypeOK, Statuses, Stopped,
          Events, TerminalEvents, StubDecide, Propose, NodeCompleted
  <2> QED BY <1>1, <2>1, <2>2, <2>3, <2>4
<1>7. CASE RefusePlanning
  <2>1. Plan
    BY <1>0, <1>7 DEF TypeOK, RefusePlanning, StopNode, StopNodeAt,
          NodeCompleted, Stop
  <2>2. Tally
    BY <1>0, <1>7 DEF TypeOK, RefusePlanning, StopNode, StopNodeAt,
          NodeCompleted, Stop
  <2>3. Course
    BY <1>0, <1>7 DEF TypeOK, Places, Nodes, Waits, RequestPlaces, Statuses,
          Stopped, StopReasons, RefusePlanning, StopNode, StopNodeAt,
          NodeCompleted, Stop
  <2>4. Log
    BY <1>0, <1>7, EmitType DEF TypeOK, Statuses, Stopped, Events,
          TerminalEvents, RefusePlanning, StopNode, StopNodeAt, NodeCompleted,
          Stop
  <2> QED BY <1>1, <2>1, <2>2, <2>3, <2>4
<1>8. CASE AskPlanner
  <2>1. Plan
    BY <1>0, <1>8 DEF TypeOK, AskPlanner
  <2>2. Tally
    <3>1. dispatched' \in [tools: Nat, models: Nat]
      <4>1. dispatched' = [dispatched EXCEPT !.models = @ + 1]
        BY <1>8 DEF AskPlanner
      <4> QED BY <1>0, <4>1
    <3>2. modelCalls' \in Nat /\ steps' \in Nat
      <4>1. modelCalls' = modelCalls + 1 /\ steps' = steps + 1
        BY <1>8 DEF AskPlanner
      <4> QED BY <1>0, <4>1
    <3> QED BY <1>0, <1>8, <3>1, <3>2 DEF TypeOK, AskPlanner
  <2>3. Course
    BY <1>0, <1>8 DEF TypeOK, Places, Nodes, Waits, RequestPlaces, Statuses,
          Stopped, StopReasons, AskPlanner
  <2>4. Log
    BY <1>0, <2>2, <1>8, EmitType DEF TypeOK, Statuses, Stopped, Events,
          TerminalEvents, AskPlanner
  <2> QED BY <1>1, <2>1, <2>2, <2>3, <2>4
<1>9. CASE PlannerAnswers
  <2>1. Plan
    BY <1>0, <1>9, GraphAssumption DEF TypeOK, PlannerAnswers, Propose,
          NodeCompleted, Invalid, StopNode, StopNodeAt, Stop
  <2>2. Tally
    BY <1>0, <1>9, GraphAssumption DEF TypeOK, PlannerAnswers, Propose,
          NodeCompleted, Invalid, StopNode, StopNodeAt, Stop
  <2>3. Course
    BY <1>0, <1>9, GraphAssumption DEF TypeOK, Places, Nodes, Waits,
          RequestPlaces, Statuses, Stopped, StopReasons, PlannerAnswers,
          Propose, NodeCompleted, Invalid, StopNode, StopNodeAt, Stop
  <2>4. Log
    BY <1>0, <1>9, GraphAssumption, EmitType DEF TypeOK, Statuses, Stopped,
          Events, TerminalEvents, PlannerAnswers, Propose, NodeCompleted,
          Invalid, StopNode, StopNodeAt, Stop
  <2> QED BY <1>1, <2>1, <2>2, <2>3, <2>4
<1>10. CASE PlannerUnavailable
  <2>1. Plan
    BY <1>0, <1>10 DEF TypeOK, PlannerUnavailable, StopNode, StopNodeAt,
          NodeCompleted, Stop
  <2>2. Tally
    <3>1. lost' \in Nat
      BY <1>0, <1>10 DEF TypeOK, PlannerUnavailable
    <3> QED BY <1>0, <1>10, <3>1 DEF TypeOK, PlannerUnavailable
  <2>3. Course
    BY <1>0, <1>10 DEF TypeOK, Places, Nodes, Waits, RequestPlaces, Statuses,
          Stopped, StopReasons, PlannerUnavailable, StopNode, StopNodeAt,
          NodeCompleted, Stop
  <2>4. Log
    BY <1>0, <1>10, EmitType DEF TypeOK, Statuses, Stopped, Events,
          TerminalEvents, PlannerUnavailable, StopNode, StopNodeAt,
          NodeCompleted, Stop
  <2> QED BY <1>1, <2>1, <2>2, <2>3, <2>4
<1>11. CASE ChooseAbstain
  <2>1. Plan
    BY <1>0, <1>11 DEF TypeOK, ChooseAbstain, StopNode, StopNodeAt,
          NodeCompleted, Stop
  <2>2. Tally
    BY <1>0, <1>11 DEF TypeOK, ChooseAbstain, StopNode, StopNodeAt,
          NodeCompleted, Stop
  <2>3. Course
    BY <1>0, <1>11 DEF TypeOK, Places, Nodes, Waits, RequestPlaces, Statuses,
          Stopped, StopReasons, ChooseAbstain, StopNode, StopNodeAt,
          NodeCompleted, Stop
  <2>4. Log
    BY <1>0, <1>11, EmitType DEF TypeOK, Statuses, Stopped, Events,
          TerminalEvents, ChooseAbstain, StopNode, StopNodeAt, NodeCompleted,
          Stop
  <2> QED BY <1>1, <2>1, <2>2, <2>3, <2>4
<1>12. CASE ChooseDraft
  <2>1. Plan
    BY <1>0, <1>12 DEF TypeOK, ChooseDraft, StopNode, StopNodeAt,
          NodeCompleted, Stop
  <2>2. Tally
    BY <1>0, <1>12 DEF TypeOK, ChooseDraft, StopNode, StopNodeAt,
          NodeCompleted, Stop
  <2>3. Course
    BY <1>0, <1>12 DEF TypeOK, Places, Nodes, Waits, RequestPlaces, Statuses,
          Stopped, StopReasons, ChooseDraft, StopNode, StopNodeAt,
          NodeCompleted, Stop
  <2>4. Log
    BY <1>0, <1>12, EmitType DEF TypeOK, Statuses, Stopped, Events,
          TerminalEvents, ChooseDraft, StopNode, StopNodeAt, NodeCompleted,
          Stop
  <2> QED BY <1>1, <2>1, <2>2, <2>3, <2>4
<1>13. CASE RejectAction
  <2>1. Plan
    BY <1>0, <1>13 DEF TypeOK, RejectAction, Invalid, StopNode, StopNodeAt,
          NodeCompleted, Stop
  <2>2. Tally
    BY <1>0, <1>13 DEF TypeOK, RejectAction, Invalid, StopNode, StopNodeAt,
          NodeCompleted, Stop
  <2>3. Course
    BY <1>0, <1>13 DEF TypeOK, Places, Nodes, Waits, RequestPlaces, Statuses,
          Stopped, StopReasons, RejectAction, Invalid, StopNode, StopNodeAt,
          NodeCompleted, Stop
  <2>4. Log
    BY <1>0, <1>13, EmitType DEF TypeOK, Statuses, Stopped, Events,
          TerminalEvents, RejectAction, Invalid, StopNode, StopNodeAt,
          NodeCompleted, Stop
  <2> QED BY <1>1, <2>1, <2>2, <2>3, <2>4
<1>14. CASE AcceptAction
  <2>1. Plan
    <3>1. request \in Action
      BY <1>0, <1>14 DEF TypeOK, AcceptAction, RequestPlaces
    <3>2. /\ DOMAIN Noted \subseteq Action
          /\ \A a \in DOMAIN Noted : Noted[a] \in Nat
      BY <1>0, <3>1 DEF TypeOK, Noted, Progress
    <3>3. seen' = seen \/ seen' = Noted
      BY <1>14 DEF AcceptAction
    <3>4. /\ DOMAIN seen' \subseteq Action
          /\ \A a \in DOMAIN seen' : seen'[a] \in Nat
      BY <1>0, <3>2, <3>3 DEF TypeOK
    <3> QED BY <1>0, <1>14, <3>4 DEF TypeOK, AcceptAction
  <2>2. Tally
    BY <1>0, <1>14 DEF TypeOK, AcceptAction, StopNode, StopNodeAt,
          NodeCompleted, Stop, Noted, Progress
  <2>3. Course
    BY <1>0, <1>14 DEF TypeOK, Places, Nodes, Waits, RequestPlaces, Statuses,
          Stopped, StopReasons, AcceptAction, StopNode, StopNodeAt,
          NodeCompleted, Stop, Noted, Progress
  <2>4. Log
    BY <1>0, <1>14, EmitType DEF TypeOK, Statuses, Stopped, Events,
          TerminalEvents, AcceptAction, StopNode, StopNodeAt, NodeCompleted,
          Stop, Noted, Progress
  <2> QED BY <1>1, <2>1, <2>2, <2>3, <2>4
<1>15. CASE BeginExecute
  <2>1. Plan
    BY <1>0, <1>15 DEF TypeOK, BeginExecute
  <2>2. Tally
    BY <1>0, <1>15 DEF TypeOK, BeginExecute
  <2>3. Course
    BY <1>0, <1>15 DEF TypeOK, Places, Nodes, Waits, RequestPlaces, Statuses,
          Stopped, StopReasons, BeginExecute
  <2>4. Log
    BY <1>0, <1>15 DEF BeginExecute
  <2> QED BY <1>1, <2>1, <2>2, <2>3, <2>4
<1>16. CASE StopAttempt
  <2>1. Plan
    BY <1>0, <1>16, RefusalType DEF TypeOK, StopAttempt, StopNodeAt,
          NodeCompleted, Stop
  <2>2. Tally
    BY <1>0, <1>16, RefusalType DEF TypeOK, StopAttempt, StopNodeAt,
          NodeCompleted, Stop
  <2>3. Course
    <3>1. Refusal(session, request) # "none"
             => Refusal(session, request) \in StopReasons
      BY RefusalType DEF StopReasons
    <3>2. PICK reason \in StopReasons :
             StopNodeAt(session.toolCalls, reason, TRUE)
      BY <1>16, <3>1 DEF StopAttempt, StopReasons
    <3> QED BY <3>2, StopType DEF StopNodeAt, Places, Nodes, RequestPlaces,
            Statuses, Stopped
  <2>4. Log
    BY <1>0, <1>16, RefusalType, EmitType DEF TypeOK, Statuses, Stopped,
          Events, TerminalEvents, StopAttempt, StopNodeAt, NodeCompleted, Stop
  <2> QED BY <1>1, <2>1, <2>2, <2>3, <2>4
<1>17. CASE DispatchTool
  <2>1. Plan
    BY <1>0, <1>17, SessionsStep DEF TypeOK, DispatchTool
  <2>2. Tally
    BY <1>0, <1>17, SessionsStep DEF TypeOK, DispatchTool
  <2>3. Course
    BY <1>0, <1>17, SessionsStep DEF TypeOK, Places, Nodes, Waits,
          RequestPlaces, Statuses, Stopped, StopReasons, DispatchTool
  <2>4. Log
    <3>1. kept'.toolCalls \in Nat
      BY SessionsStep DEF Session
    <3> QED BY <1>0, <1>17, <3>1, EmitType DEF TypeOK, DispatchTool, Events
  <2> QED BY <1>1, <2>1, <2>2, <2>3, <2>4
<1>18. CASE ReadReturns
  <2>1. Plan
    <3>1. HitLists \subseteq Seq(Evidence)
      BY BoundedSeqIsSeq, GraphAssumption DEF HitLists
    <3>2. request.tool \in ActionTools
      BY <1>0, <1>18 DEF ReadReturns, RequestPlaces
    <3>3. /\ pending' \in Seq(Evidence) /\ toolsRun' \subseteq ActionTools
          /\ emptySearches' \in Nat /\ UNCHANGED attempt
      <4>1. CASE ScopeViolation
        BY <1>0, <4>1 DEF TypeOK, ScopeViolation
      <4>2. ASSUME NEW hits \in HitLists, Accepted(hits)
            PROVE  /\ pending' \in Seq(Evidence)
                   /\ toolsRun' \subseteq ActionTools
                   /\ emptySearches' \in Nat /\ UNCHANGED attempt
        BY <1>0, <3>1, <3>2, <4>2 DEF TypeOK, Accepted, Record
      <4> QED BY <1>18, <4>1, <4>2 DEF ReadReturns
    <3> QED BY <1>0, <1>18, <3>3 DEF TypeOK, ReadReturns
  <2>2. Tally
    BY <1>0, <1>18, BoundedSeqIsSeq, GraphAssumption DEF TypeOK, ReadReturns,
          Accepted, ScopeViolation, Record, StopNodeAt, NodeCompleted, Stop
  <2>3. Course
    BY <1>0, <1>18, BoundedSeqIsSeq, GraphAssumption DEF TypeOK, Places,
          Nodes, Waits, RequestPlaces, Statuses, Stopped, StopReasons,
          ReadReturns, Accepted, ScopeViolation, Record, StopNodeAt,
          NodeCompleted, Stop
  <2>4. Log
    BY <1>0, <1>18, BoundedSeqIsSeq, GraphAssumption, EmitType DEF TypeOK,
          Statuses, Stopped, Events, TerminalEvents, ReadReturns, Accepted,
          ScopeViolation, Record, StopNodeAt, NodeCompleted, Stop
  <2> QED BY <1>1, <2>1, <2>2, <2>3, <2>4
<1>19. CASE ValueReturns
  <2>1. Plan
    <3>1. request.tool \in ActionTools
      BY <1>0, <1>19 DEF ValueReturns, RequestPlaces
    <3>2. /\ pending' \in Seq(Evidence) /\ toolsRun' \subseteq ActionTools
          /\ emptySearches' \in Nat /\ UNCHANGED attempt
      <4>1. CASE ScopeViolation
        BY <1>0, <4>1 DEF TypeOK, ScopeViolation
      <4>2. CASE Accepted(<<>>)
        BY <1>0, <3>1, <4>2 DEF TypeOK, Accepted, Record
      <4> QED BY <1>19, <4>1, <4>2 DEF ValueReturns
    <3> QED BY <1>0, <1>19, <3>2 DEF TypeOK, ValueReturns
  <2>2. Tally
    BY <1>0, <1>19 DEF TypeOK, ValueReturns, Accepted, ScopeViolation, Record,
          StopNodeAt, NodeCompleted, Stop
  <2>3. Course
    BY <1>0, <1>19 DEF TypeOK, Places, Nodes, Waits, RequestPlaces, Statuses,
          Stopped, StopReasons, ValueReturns, Accepted, ScopeViolation,
          Record, StopNodeAt, NodeCompleted, Stop
  <2>4. Log
    BY <1>0, <1>19, EmitType DEF TypeOK, Statuses, Stopped, Events,
          TerminalEvents, ValueReturns, Accepted, ScopeViolation, Record,
          StopNodeAt, NodeCompleted, Stop
  <2> QED BY <1>1, <2>1, <2>2, <2>3, <2>4
<1>20. CASE ReadFailed /\ pc = "awaitTool"
  <2>1. Plan
    <3>1. request.tool \in ActionTools
      BY <1>0, <1>20 DEF RequestPlaces
    <3>2. /\ toolsRun' \subseteq ActionTools /\ emptySearches' \in Nat
          /\ UNCHANGED pending
      BY <1>0, <1>20, <3>1 DEF TypeOK, ReadFailed, Record
    <3>3. attempt' \in {0, 1}
      <4>1. Attempts \in {1, 2} /\ attempt \in {0, 1}
        BY <1>0 DEF TypeOK, Attempts
      <4>2. attempt < Attempts - 1 => attempt' = attempt + 1
        BY <1>20 DEF ReadFailed
      <4>3. ~ (attempt < Attempts - 1) => attempt' = attempt
        BY <1>20 DEF ReadFailed
      <4> QED BY <4>1, <4>2, <4>3
    <3> QED BY <1>0, <1>20, <3>2, <3>3 DEF TypeOK, ReadFailed
  <2>2. Tally
    BY <1>0, <1>20 DEF TypeOK, ReadFailed, Record, StopNodeAt, NodeCompleted,
          Stop, Attempts
  <2>3. Course
    <3>1. request' \in Action
      BY <1>0, <1>20 DEF TypeOK, ReadFailed, RequestPlaces
    <3>2. "tool_unavailable" \in StopReasons
      BY DEF StopReasons
    <3>3. CASE attempt < Attempts - 1
      BY <1>0, <1>20, <3>1, <3>3 DEF TypeOK, ReadFailed, Places
    <3>4. CASE ~ (attempt < Attempts - 1)
      BY <1>0, <1>20, <3>1, <3>2, <3>4, StopType DEF TypeOK, ReadFailed,
         StopNodeAt, Places, Nodes, Statuses, Stopped
    <3> QED BY <3>3, <3>4
  <2>4. Log
    BY <1>0, <1>20, EmitType DEF TypeOK, Statuses, Stopped, Events,
          TerminalEvents, ReadFailed, Record, StopNodeAt, NodeCompleted, Stop,
          Attempts
  <2> QED BY <1>1, <2>1, <2>2, <2>3, <2>4
<1>21. CASE ReadBreaks
  <2>1. Plan
    <3>1. request.tool \in ActionTools
      BY <1>0, <1>21 DEF ReadBreaks, RequestPlaces
    <3>2. /\ toolsRun' \subseteq ActionTools /\ emptySearches' \in Nat
      BY <1>0, <1>21, <3>1 DEF TypeOK, ReadBreaks, Record
    <3> QED BY <1>0, <1>21, <3>2 DEF TypeOK, ReadBreaks
  <2>2. Tally
    BY <1>0, <1>21 DEF TypeOK, ReadBreaks, Record, StopNodeAt, NodeCompleted,
          Stop, Contain
  <2>3. Course
    BY <1>0, <1>21 DEF TypeOK, Places, Nodes, Waits, RequestPlaces, Statuses,
          Stopped, StopReasons, ReadBreaks, Record, StopNodeAt, NodeCompleted,
          Stop, Contain
  <2>4. Log
    BY <1>0, <1>21, EmitType DEF TypeOK, Statuses, Stopped, Events,
          TerminalEvents, ReadBreaks, Record, StopNodeAt, NodeCompleted, Stop,
          Contain
  <2> QED BY <1>1, <2>1, <2>2, <2>3, <2>4
<1>22. CASE AdmitHit
  <2>1. Plan
    BY <1>0, <1>22, SessionsStep DEF TypeOK, AdmitHit
  <2>2. Tally
    BY <1>0, <1>22, SessionsStep DEF TypeOK, AdmitHit
  <2>3. Course
    BY <1>0, <1>22, SessionsStep DEF TypeOK, Places, Nodes, Waits,
          RequestPlaces, Statuses, Stopped, StopReasons, AdmitHit
  <2>4. Log
    <3>1. kept'.toolCalls \in Nat
      BY SessionsStep DEF Session
    <3> QED BY <1>0, <1>22, <3>1, EmitType DEF TypeOK, AdmitHit, Events
  <2> QED BY <1>1, <2>1, <2>2, <2>3, <2>4
<1>23. CASE FinishExecute
  <2>1. Plan
    BY <1>0, <1>23 DEF TypeOK, FinishExecute, NodeCompleted
  <2>2. Tally
    BY <1>0, <1>23 DEF TypeOK, FinishExecute, NodeCompleted
  <2>3. Course
    BY <1>0, <1>23 DEF TypeOK, Places, Nodes, Waits, RequestPlaces, Statuses,
          Stopped, StopReasons, FinishExecute, NodeCompleted
  <2>4. Log
    BY <1>0, <1>23, EmitType DEF TypeOK, Statuses, Stopped, Events,
          TerminalEvents, FinishExecute, NodeCompleted
  <2> QED BY <1>1, <2>1, <2>2, <2>3, <2>4
<1>24. CASE RefuseDraft
  <2>1. Plan
    BY <1>0, <1>24 DEF TypeOK, RefuseDraft, Stop
  <2>2. Tally
    BY <1>0, <1>24 DEF TypeOK, RefuseDraft, Stop
  <2>3. Course
    BY <1>0, <1>24 DEF TypeOK, Places, Nodes, Waits, RequestPlaces, Statuses,
          Stopped, StopReasons, RefuseDraft, Stop
  <2>4. Log
    BY <1>0, <1>24 DEF RefuseDraft
  <2> QED BY <1>1, <2>1, <2>2, <2>3, <2>4
<1>25. CASE AskWriter
  <2>1. Plan
    BY <1>0, <1>25 DEF TypeOK, AskWriter
  <2>2. Tally
    <3>1. dispatched' \in [tools: Nat, models: Nat]
      <4>1. dispatched' = [dispatched EXCEPT !.models = @ + 1]
        BY <1>25 DEF AskWriter
      <4> QED BY <1>0, <4>1
    <3>2. modelCalls' \in Nat /\ steps' \in Nat
      <4>1. modelCalls' = modelCalls + 1 /\ steps' = steps + 1
        BY <1>25 DEF AskWriter
      <4> QED BY <1>0, <4>1
    <3> QED BY <1>0, <1>25, <3>1, <3>2 DEF TypeOK, AskWriter
  <2>3. Course
    BY <1>0, <1>25 DEF TypeOK, Places, Nodes, Waits, RequestPlaces, Statuses,
          Stopped, StopReasons, AskWriter
  <2>4. Log
    BY <1>0, <2>2, <1>25, EmitType DEF TypeOK, Statuses, Stopped, Events,
          TerminalEvents, AskWriter
  <2> QED BY <1>1, <2>1, <2>2, <2>3, <2>4
<1>26. CASE WriterAnswers
  <2>1. Plan
    BY <1>0, <1>26, GraphAssumption DEF TypeOK, WriterAnswers, WriterCount
  <2>2. Tally
    <3>1. WriterCount \in Nat
      BY <1>0, <1>26 DEF TypeOK, WriterAnswers, WriterCount
    <3>2. draft' \in Draft
      BY <1>26, GraphAssumption DEF WriterAnswers
    <3> QED BY <1>0, <1>26, <3>1, <3>2 DEF TypeOK, WriterAnswers
  <2>3. Course
    BY <1>0, <1>26, GraphAssumption DEF TypeOK, Places, Nodes, Waits,
          RequestPlaces, Statuses, Stopped, StopReasons, WriterAnswers,
          WriterCount
  <2>4. Log
    BY <1>0, <1>26, GraphAssumption, EmitType DEF TypeOK, Statuses, Stopped,
          Events, TerminalEvents, WriterAnswers, WriterCount
  <2> QED BY <1>1, <2>1, <2>2, <2>3, <2>4
<1>27. CASE WriterFails
  <2>1. Plan
    BY <1>0, <1>27 DEF TypeOK, WriterFails, WriterCount
  <2>2. Tally
    <3>1. WriterCount \in Nat /\ lost' \in Nat
      BY <1>0, <1>27 DEF TypeOK, WriterFails, WriterCount
    <3> QED BY <1>0, <1>27, <3>1 DEF TypeOK, WriterFails
  <2>3. Course
    BY <1>0, <1>27 DEF TypeOK, Places, Nodes, Waits, RequestPlaces, Statuses,
          Stopped, StopReasons, WriterFails, WriterCount
  <2>4. Log
    BY <1>0, <1>27, EmitType DEF TypeOK, Statuses, Stopped, Events,
          TerminalEvents, WriterFails, WriterCount
  <2> QED BY <1>1, <2>1, <2>2, <2>3, <2>4
<1>28. CASE WriterTimesOut
  <2>1. Plan
    BY <1>0, <1>28 DEF TypeOK, WriterTimesOut, Stop
  <2>2. Tally
    <3>1. lost' \in Nat
      BY <1>0, <1>28 DEF TypeOK, WriterTimesOut
    <3> QED BY <1>0, <1>28, <3>1 DEF TypeOK, WriterTimesOut
  <2>3. Course
    BY <1>0, <1>28 DEF TypeOK, Places, Nodes, Waits, RequestPlaces, Statuses,
          Stopped, StopReasons, WriterTimesOut, Stop
  <2>4. Log
    BY <1>0, <1>28 DEF WriterTimesOut
  <2> QED BY <1>1, <2>1, <2>2, <2>3, <2>4
<1>29. CASE ModelRaises
  <2>1. Plan
    BY <1>0, <1>29 DEF TypeOK, ModelRaises, Contain, Stop
  <2>2. Tally
    BY <1>0, <1>29 DEF TypeOK, ModelRaises, Contain, Stop
  <2>3. Course
    BY <1>0, <1>29 DEF TypeOK, Places, Nodes, Waits, RequestPlaces, Statuses,
          Stopped, StopReasons, ModelRaises, Contain, Stop
  <2>4. Log
    BY <1>0, <1>29 DEF ModelRaises, Contain
  <2> QED BY <1>1, <2>1, <2>2, <2>3, <2>4
<1>30. CASE VerifyDraft
  <2>1. Plan
    BY <1>0, <1>30 DEF TypeOK, VerifyDraft, StopNode, StopNodeAt,
          NodeCompleted, Stop, Grounded
  <2>2. Tally
    <3>1. steps' \in Nat
      BY <1>0, <1>30 DEF TypeOK, VerifyDraft
    <3>2. Grounded(draft) \in BOOLEAN
      BY DEF Grounded
    <3>3. verificationOk' \in BOOLEAN
      BY <1>0, <1>30, <3>2 DEF TypeOK, VerifyDraft
    <3> QED BY <1>0, <1>30, <3>1, <3>3 DEF TypeOK, VerifyDraft
  <2>3. Course
    BY <1>0, <1>30 DEF TypeOK, Places, Nodes, Waits, RequestPlaces, Statuses,
          Stopped, StopReasons, VerifyDraft, StopNode, StopNodeAt,
          NodeCompleted, Stop, Grounded
  <2>4. Log
    <3>1. kept.toolCalls + 1 \in Nat
      BY <1>0
    <3>2. /\ modelCalls \in Nat /\ status \in Statuses
          /\ {"failed", "abstained"} \subseteq Statuses
          /\ "node_completed" \in Events
      BY <1>0 DEF TypeOK, Statuses, Stopped, Events
    <3>3. \E n \in Nat, st \in Statuses :
             Emit("node_completed", n, modelCalls, st)
      BY <1>0, <1>30, <3>1, <3>2 DEF VerifyDraft, StopNode, StopNodeAt,
         NodeCompleted
    <3> QED BY <1>0, <3>2, <3>3, EmitType
  <2> QED BY <1>1, <2>1, <2>2, <2>3, <2>4
<1>31. CASE Repair
  <2>1. Plan
    BY <1>0, <1>31 DEF TypeOK, Repair, NodeCompleted
  <2>2. Tally
    BY <1>0, <1>31 DEF TypeOK, Repair, NodeCompleted
  <2>3. Course
    BY <1>0, <1>31 DEF TypeOK, Places, Nodes, Waits, RequestPlaces, Statuses,
          Stopped, StopReasons, Repair, NodeCompleted
  <2>4. Log
    BY <1>0, <1>31, EmitType DEF TypeOK, Statuses, Stopped, Events,
          TerminalEvents, Repair, NodeCompleted
  <2> QED BY <1>1, <2>1, <2>2, <2>3, <2>4
<1>32. CASE Terminal
  <2>1. Plan
    BY <1>0, <1>32 DEF TypeOK, Terminal, FinalStatus
  <2>2. Tally
    BY <1>0, <1>32 DEF TypeOK, Terminal, FinalStatus
  <2>3. Course
    <3>1. FinalStatus \in {"completed"} \cup Stopped
      BY FinalStatusType
    <3>2. stopReason' \in StopReasons
      BY <1>0, <1>32 DEF TypeOK, Terminal, StopReasons
    <3>3. delivered' \in BOOLEAN
      BY <1>0, <1>32 DEF TypeOK, Terminal, Completes
    <3> QED BY <1>32, <3>1, <3>2, <3>3
            DEF Terminal, Statuses, Places, RequestPlaces
  <2>4. Log
    BY <1>0, <1>32, EmitType DEF TypeOK, Statuses, Stopped, Events,
          TerminalEvents, Terminal, FinalStatus
  <2> QED BY <1>1, <2>1, <2>2, <2>3, <2>4
<1>33. CASE CancelNode
  <2>1. Plan
    BY <1>0, <1>33 DEF TypeOK, CancelNode, CancelledWith
  <2>2. Tally
    BY <1>0, <1>33 DEF TypeOK, CancelNode, CancelledWith
  <2>3. Course
    BY <1>0, <1>33 DEF TypeOK, Places, Nodes, Waits, RequestPlaces, Statuses,
          Stopped, StopReasons, CancelNode, CancelledWith
  <2>4. Log
    BY <1>0, <1>33, EmitType DEF TypeOK, Statuses, Stopped, Events,
          TerminalEvents, CancelNode, CancelledWith
  <2> QED BY <1>1, <2>1, <2>2, <2>3, <2>4
<1>34. CASE Disconnect
  <2>1. Plan
    BY <1>0, <1>34 DEF TypeOK, Disconnect
  <2>2. Tally
    BY <1>0, <1>34 DEF TypeOK, Disconnect
  <2>3. Course
    BY <1>0, <1>34 DEF TypeOK, Places, Nodes, Waits, RequestPlaces, Statuses,
          Stopped, StopReasons, Disconnect
  <2>4. Log
    BY <1>0, <1>34 DEF Disconnect
  <2> QED BY <1>1, <2>1, <2>2, <2>3, <2>4
<1>35. CASE CloseIncomplete
  <2>1. Plan
    BY <1>0, <1>35 DEF TypeOK, CloseIncomplete, CancelledWith
  <2>2. Tally
    BY <1>0, <1>35 DEF TypeOK, CloseIncomplete, CancelledWith
  <2>3. Course
    BY <1>0, <1>35 DEF TypeOK, Places, Nodes, Waits, RequestPlaces, Statuses,
          Stopped, StopReasons, CloseIncomplete, CancelledWith
  <2>4. Log
    BY <1>0, <1>35, EmitType DEF TypeOK, Statuses, Stopped, Events,
          TerminalEvents, CloseIncomplete, CancelledWith
  <2> QED BY <1>1, <2>1, <2>2, <2>3, <2>4
<1>36. CASE DeadlinePasses
  <2>1. Plan
    BY <1>0, <1>36 DEF TypeOK, DeadlinePasses
  <2>2. Tally
    BY <1>0, <1>36 DEF TypeOK, DeadlinePasses
  <2>3. Course
    BY <1>0, <1>36 DEF TypeOK, Places, Nodes, Waits, RequestPlaces, Statuses,
          Stopped, StopReasons, DeadlinePasses
  <2>4. Log
    BY <1>0, <1>36 DEF DeadlinePasses
  <2> QED BY <1>1, <2>1, <2>2, <2>3, <2>4
<1> QED
  BY <1>2, <1>3, <1>4, <1>5, <1>6, <1>7, <1>8, <1>9, <1>10, <1>11, <1>12,
     <1>13, <1>14, <1>15, <1>16, <1>17, <1>18, <1>19, <1>20, <1>21, <1>22,
     <1>23, <1>24, <1>25, <1>26, <1>27, <1>28, <1>29, <1>30, <1>31, <1>32,
     <1>33, <1>34, <1>35, <1>36 DEF Next, OwnStep, Reply, Decide,
     AuthorizeNode, Execute, Write, PlannerTimesOut, ReadTimesOut,
     WriterTimesOut, PlannerFails, ReadUnavailable

(* Every reachable state of a run is well typed, and its sessions are within *)
(* their limits.                                                             *)
LEMMA AlwaysTyped == Spec => []Typed
<1>1. ASSUME Typed, [Next]_vars
      PROVE  Typed'
  <2>1. SessionOK(kept)' /\ SessionOK(session)'
    <3>1. SessionOK(kept') /\ SessionOK(session')
      BY <1>1, SessionsStep
    <3> QED BY <3>1 DEF SessionOK, WithinLimits
  <2> QED BY <1>1, <2>1, TypeStep DEF Typed
<1> QED BY <1>1, TypedInit, PTL DEF Spec

(* Every reachable state of a run has its type. *)
THEOREM TypeCorrect == Spec => []TypeOK
<1>1. Typed => TypeOK
  BY DEF Typed
<1> QED BY <1>1, AlwaysTyped, PTL

(* What a dispatch, an admission and the verification cost. *)
LEMMA DispatchCosts ==
    ASSUME Typed, DispatchTool
    PROVE  /\ session.toolCalls < MaxToolCalls - 1
           /\ session'.toolCalls = session.toolCalls + 1
           /\ kept' = session'
<1>1. session \in Session /\ attempt \in {0, 1}
  BY DEF Typed, TypeOK
<1>2. session.toolCalls < MaxToolCalls - 1
  BY <1>1, LimitAssumption, GraphAssumption DEF DispatchTool, Refusal, Session
<1> QED BY <1>1, <1>2, ReservedSpends DEF DispatchTool

(* Admitting a hit consumes no tool call. *)
LEMMA AdmissionIsFree ==
    ASSUME Typed, AdmitHit
    PROVE  session'.toolCalls = session.toolCalls
<1>1. session \in Session /\ pending \in Seq(Evidence) /\ pending # <<>>
  BY DEF Typed, TypeOK, AdmitHit
<1>2. Head(pending) \in Evidence
  BY <1>1
<1> QED BY <1>1, <1>2, AdmittedType DEF AdmitHit

(* A verification that cannot be paid for leaves the verdict as it was. *)
LEMMA VerificationCosts ==
    ASSUME Typed, VerifyDraft
    PROVE  IF VerificationUnaffordable
           THEN UNCHANGED <<kept, verificationOk>>
           ELSE /\ kept'.toolCalls = kept.toolCalls + 1
                /\ kept'.evidence = kept.evidence
                /\ kept'.evidenceById = kept.evidenceById
BY DEF Typed, TypeOK, Session, VerifyDraft

-------------------------------------------------------------------------------
(* Why the gate stays affordable: while research goes on, a model call is    *)
(* left for the writer, and a run that has evidence has a tool call left;    *)
(* both are checked again before every draft.                                *)
Researching == {"initialize", "decide", "awaitPlanner"} \cup RequestPlaces

GateInv ==
    /\ pc = "initialize" => /\ modelCalls = 0
                            /\ kept.evidenceById = {}
    /\ pc = "decide" /\ StubClient => modelCalls < MaxModelCalls
    /\ pc \in RequestPlaces \cup {"awaitPlanner"} => modelCalls < MaxModelCalls
    /\ pc \in Researching => repairs = 0
    /\ pc \in Researching /\ kept.evidenceById # {}
          => kept.toolCalls < MaxToolCalls
    /\ pc = "attempt" /\ session.evidenceById # {}
          => session.toolCalls < MaxToolCalls
    /\ pc \in {"awaitTool", "admit"} => session.toolCalls < MaxToolCalls
    /\ pc = "write" /\ repairs = 0 => /\ modelCalls < MaxModelCalls
                                      /\ kept.toolCalls < MaxToolCalls
    /\ pc \in {"awaitWriter", "verify"} => kept.toolCalls < MaxToolCalls
    /\ GateIsAffordable

(* Every step keeps the reserve of the citation gate: the planner and the
   reads leave its tool call alone, and only VerifyDraft spends it. *)
LEMMA GateStep ==
    ASSUME Typed, GateInv, [Next]_vars
    PROVE  GateInv'
<1> USE DEF planVars, toolVars, modelVars, gateVars, logVars, historyVars,
            AuthorizeFrame, ExecuteFrame, ReadFrame, Enter, Go, Emit,
            NodeCompleted, StopNode, StopNodeAt, Stop, Contain, RequestPlaces,
            Researching, GuardedNodes, Nodes, Waits, StubClient
<1>0. /\ client \in Clients
      /\ kept.toolCalls \in Nat /\ session.toolCalls \in Nat
      /\ modelCalls \in Nat /\ repairs \in Nat
      /\ MaxModelCalls \in Nat /\ MaxToolCalls \in Nat
  BY LimitAssumption, GraphAssumption DEF Typed, TypeOK, Session
<1>1. CASE Initialize
  BY <1>0, <1>1, GraphAssumption DEF GateInv, GateIsAffordable, Initialize
<1>2. CASE NodeExpires
  BY <1>0, <1>2 DEF GateInv, GateIsAffordable, NodeExpires
<1>3. CASE StubDecide
  BY <1>0, <1>3, GraphAssumption DEF GateInv, GateIsAffordable, StubDecide,
     Propose
<1>4. CASE RefusePlanning
  BY <1>0, <1>4 DEF GateInv, GateIsAffordable, RefusePlanning
<1>5. CASE AskPlanner
  BY <1>0, <1>5 DEF GateInv, GateIsAffordable, AskPlanner, PlannerBudgetSpent
<1>6. CASE PlannerAnswers
  BY <1>0, <1>6 DEF GateInv, GateIsAffordable, PlannerAnswers, Propose,
     Invalid
<1>7. CASE PlannerUnavailable
  BY <1>0, <1>7 DEF GateInv, GateIsAffordable, PlannerUnavailable
<1>8. CASE AuthorizeNode
  BY <1>0, <1>8 DEF GateInv, GateIsAffordable, AuthorizeNode, ChooseAbstain,
     ChooseDraft, RejectAction, AcceptAction, Invalid
<1>9. CASE BeginExecute
  BY <1>0, <1>9 DEF GateInv, GateIsAffordable, BeginExecute
<1>10. CASE StopAttempt
  BY <1>0, <1>10, RefusalType DEF GateInv, GateIsAffordable, StopAttempt,
     Refusals
<1>11. CASE DispatchTool
  BY <1>0, <1>11, DispatchCosts DEF GateInv, GateIsAffordable, DispatchTool
<1>12. CASE ReadReturns
  BY <1>0, <1>12 DEF GateInv, GateIsAffordable, ReadReturns, Accepted,
     ScopeViolation, Record
<1>13. CASE ValueReturns
  BY <1>0, <1>13 DEF GateInv, GateIsAffordable, ValueReturns, Accepted,
     ScopeViolation, Record
<1>14. CASE pc = "awaitTool" /\ ReadFailed
  BY <1>0, <1>14 DEF GateInv, GateIsAffordable, ReadFailed, Record
<1>15. CASE ReadBreaks
  BY <1>0, <1>15 DEF GateInv, GateIsAffordable, ReadBreaks, Record
<1>16. CASE AdmitHit
  BY <1>0, <1>16, AdmissionIsFree DEF GateInv, GateIsAffordable, AdmitHit
<1>17. CASE FinishExecute
  BY <1>0, <1>17 DEF GateInv, GateIsAffordable, FinishExecute
<1>18. CASE RefuseDraft
  BY <1>0, <1>18 DEF GateInv, GateIsAffordable, RefuseDraft, DraftUnaffordable
<1>19. CASE AskWriter
  BY <1>0, <1>19 DEF GateInv, GateIsAffordable, AskWriter, DraftUnaffordable
<1>20. CASE WriterAnswers
  BY <1>0, <1>20 DEF GateInv, GateIsAffordable, WriterAnswers
<1>21. CASE WriterFails
  BY <1>0, <1>21 DEF GateInv, GateIsAffordable, WriterFails
<1>22. CASE WriterTimesOut
  BY <1>0, <1>22 DEF GateInv, GateIsAffordable, WriterTimesOut
<1>23. CASE ModelRaises
  BY <1>0, <1>23 DEF GateInv, GateIsAffordable, ModelRaises
<1>24. CASE VerifyDraft
  BY <1>0, <1>24 DEF GateInv, GateIsAffordable, VerifyDraft,
     VerificationUnaffordable
<1>25. CASE Repair
  BY <1>0, <1>25 DEF GateInv, GateIsAffordable, Repair
<1>26. CASE Terminal
  BY <1>0, <1>26 DEF GateInv, GateIsAffordable, Terminal
<1>27. CASE CancelNode
  BY <1>0, <1>27 DEF GateInv, GateIsAffordable, CancelNode, CancelledWith
<1>28. CASE Disconnect
  BY <1>0, <1>28 DEF GateInv, GateIsAffordable, Disconnect
<1>29. CASE CloseIncomplete
  BY <1>0, <1>29 DEF GateInv, GateIsAffordable, CloseIncomplete, CancelledWith
<1>30. CASE DeadlinePasses
  BY <1>0, <1>30 DEF GateInv, GateIsAffordable, DeadlinePasses
<1>50. CASE UNCHANGED vars
  BY <1>50 DEF GateInv, GateIsAffordable, vars
<1> QED
  BY <1>50, <1>1, <1>2, <1>3, <1>4, <1>5, <1>6, <1>7, <1>8, <1>9, <1>10,
     <1>11, <1>12, <1>13, <1>14, <1>15, <1>16, <1>17, <1>18, <1>19, <1>20,
     <1>21, <1>22, <1>23, <1>24, <1>25, <1>26, <1>27, <1>28, <1>29, <1>30 DEF
     Next, OwnStep, Reply, Decide, Execute, Write, PlannerTimesOut,
     ReadTimesOut, WriterTimesOut, PlannerFails, ReadUnavailable, Done

(* Research never leaves a run unable to verify what it drafted, and only a  *)
(* repair can find that no call is left to draft with: for every budget and  *)
(* every planner.                                                            *)
THEOREM GateAffordable == Spec => []GateIsAffordable
<1>1. Init => GateInv
  BY GraphAssumption DEF Init, NewSession, GateInv, GateIsAffordable,
     RequestPlaces, Researching
<1>2. GateInv => GateIsAffordable
  BY DEF GateInv
<1> QED BY <1>1, <1>2, GateStep, AlwaysTyped, PTL DEF Spec

-------------------------------------------------------------------------------
(* While a tool runs the state mirrors the executor's session. *)
Synced == pc \in {"attempt", "awaitTool", "admit"} => kept = session

(* A round of decide, authorize and execute is three supersteps and costs a  *)
(* tool call, or two and costs the correction; write, verify and repair cost *)
(* the verification's call.  Rounds is what has been paid so far.            *)
Rounds == 3 * (kept.toolCalls + corrections)

StepInv ==
    /\ pc = "initialize" => steps = 0
    /\ pc = "decide" => steps <= Rounds + 1
    /\ pc \in {"awaitTool", "admit"} => steps <= Rounds + 1
    /\ pc \in {"awaitPlanner", "authorize", "repair"} => steps <= Rounds + 2
    /\ pc \in {"execute", "write"} => steps <= Rounds + 3
    /\ pc \in {"attempt", "awaitWriter", "verify"} => steps <= Rounds + 4
    /\ pc = "terminal" => steps <= Rounds + 5
    /\ pc \in {"close", "end"} => steps <= Rounds + 6
    /\ corrections <= 2
    /\ pc \notin {"terminal", "close", "end"} => corrections <= 1

(* Every step keeps the supersteps within the rounds paid for so far. *)
LEMMA StepsStep ==
    ASSUME Typed, Synced, StepInv, [Next]_vars
    PROVE  Synced' /\ StepInv'
<1> USE DEF planVars, toolVars, modelVars, gateVars, logVars, historyVars,
            AuthorizeFrame, ExecuteFrame, ReadFrame, Enter, Go, Emit,
            NodeCompleted, StopNode, StopNodeAt, Stop, Contain, Nodes, Waits,
            GuardedNodes, Synced, StepInv, Rounds
<1>0. /\ kept.toolCalls \in Nat /\ session.toolCalls \in Nat
      /\ steps \in Nat /\ corrections \in Nat
  BY DEF Typed, TypeOK, Session
<1>1. CASE Initialize
  BY <1>0, <1>1 DEF Initialize
<1>2. CASE NodeExpires
  BY <1>0, <1>2 DEF NodeExpires
<1>3. CASE StubDecide
  BY <1>0, <1>3 DEF StubDecide, Propose
<1>4. CASE RefusePlanning
  BY <1>0, <1>4 DEF RefusePlanning
<1>5. CASE AskPlanner
  BY <1>0, <1>5 DEF AskPlanner, PlannerBudgetSpent
<1>6. CASE PlannerAnswers
  BY <1>0, <1>6 DEF PlannerAnswers, Propose, Invalid
<1>7. CASE pc = "awaitPlanner" /\ PlannerUnavailable
  BY <1>0, <1>7 DEF PlannerUnavailable
<1>8. CASE ChooseAbstain \/ ChooseDraft \/ AcceptAction
  BY <1>0, <1>8 DEF ChooseAbstain, ChooseDraft, AcceptAction
<1>9. CASE RejectAction
  BY <1>0, <1>9 DEF RejectAction, Invalid
<1>10. CASE BeginExecute
  BY <1>0, <1>10 DEF BeginExecute
<1>11. CASE StopAttempt
  BY <1>0, <1>11 DEF StopAttempt
<1>12. CASE DispatchTool
  BY <1>0, <1>12, DispatchCosts DEF DispatchTool
<1>13. CASE ReadReturns
  BY <1>0, <1>13 DEF ReadReturns, Accepted, ScopeViolation, Record
<1>14. CASE ValueReturns
  BY <1>0, <1>14 DEF ValueReturns, Accepted, ScopeViolation, Record
<1>15. CASE pc = "awaitTool" /\ ReadFailed
  BY <1>0, <1>15 DEF ReadFailed, Record
<1>16. CASE ReadBreaks
  BY <1>0, <1>16 DEF ReadBreaks, Record
<1>17. CASE AdmitHit
  <2>1. kept' = session'
    BY <1>17 DEF AdmitHit, Admitted
  <2> QED BY <1>0, <1>17, <2>1, AdmissionIsFree DEF AdmitHit
<1>18. CASE FinishExecute
  BY <1>0, <1>18 DEF FinishExecute
<1>19. CASE RefuseDraft
  BY <1>0, <1>19 DEF RefuseDraft
<1>20. CASE AskWriter
  BY <1>0, <1>20 DEF AskWriter
<1>21. CASE WriterAnswers
  BY <1>0, <1>21 DEF WriterAnswers
<1>22. CASE WriterFails
  BY <1>0, <1>22 DEF WriterFails
<1>23. CASE WriterTimesOut
  BY <1>0, <1>23 DEF WriterTimesOut
<1>24. CASE ModelRaises
  BY <1>0, <1>24 DEF ModelRaises
<1>25. CASE VerifyDraft
  <2>1. CASE VerificationUnaffordable
    BY <1>0, <1>25, <2>1 DEF VerifyDraft
  <2>2. CASE ~ VerificationUnaffordable
    BY <1>0, <1>25, <2>2, VerificationCosts DEF VerifyDraft
  <2> QED BY <2>1, <2>2
<1>26. CASE Repair
  BY <1>0, <1>26 DEF Repair
<1>27. CASE Terminal
  BY <1>0, <1>27 DEF Terminal
<1>28. CASE CancelNode
  BY <1>0, <1>28 DEF CancelNode, CancelledWith
<1>29. CASE Disconnect
  BY <1>0, <1>29 DEF Disconnect
<1>30. CASE CloseIncomplete
  BY <1>0, <1>30 DEF CloseIncomplete, CancelledWith
<1>31. CASE DeadlinePasses
  BY <1>0, <1>31 DEF DeadlinePasses
<1>32. CASE UNCHANGED vars
  BY <1>32 DEF vars
<1> QED
  BY <1>1, <1>2, <1>3, <1>4, <1>5, <1>6, <1>7, <1>8, <1>9, <1>10, <1>11,
     <1>12, <1>13, <1>14, <1>15, <1>16, <1>17, <1>18, <1>19, <1>20, <1>21,
     <1>22, <1>23, <1>24, <1>25, <1>26, <1>27, <1>28, <1>29, <1>30, <1>31,
     <1>32 DEF Next, OwnStep, Reply, Decide, AuthorizeNode, Execute, Write,
     PlannerTimesOut, ReadTimesOut, WriterTimesOut, PlannerFails,
     ReadUnavailable, Done

(* No run of the graph takes more supersteps than its Budget pays for: the   *)
(* recursion limit is reached by no planner, writer or retriever.            *)
THEOREM StepsBounded == Spec => []StepsAreBounded
<1>1. Init => Synced /\ StepInv
  BY DEF Init, NewSession, Synced, StepInv, Rounds
<1>2. Typed /\ StepInv => StepsAreBounded
  <2> SUFFICES ASSUME Typed, StepInv PROVE StepsAreBounded
    OBVIOUS
  <2>1. /\ kept.toolCalls \in Nat /\ corrections \in Nat /\ steps \in Nat
        /\ kept.toolCalls <= MaxToolCalls /\ MaxToolCalls \in Nat
    BY LimitAssumption DEF Typed, TypeOK, Session, SessionOK, WithinLimits
  <2>2. steps <= Rounds + 6 /\ corrections <= 2
    <3>1. Rounds \in Nat
      BY <2>1 DEF Rounds
    <3>2. pc \in Places
      BY DEF Typed, TypeOK
    <3> QED BY <2>1, <3>1, <3>2 DEF StepInv, Places, Nodes, Waits
  <2>3. Rounds + 6 <= StepBound
    BY <2>1, <2>2 DEF Rounds, StepBound
  <2> QED BY <2>1, <2>2, <2>3 DEF StepsAreBounded, Rounds, StepBound
<1> QED BY <1>1, <1>2, StepsStep, AlwaysTyped, PTL DEF Spec

(* Neither the calls of research nor the recursion limit keep a drafted       *)
(* answer from its verification.                                              *)
THEOREM GateReachable == Spec => []GateIsReachable
<1>1. GateIsAffordable /\ StepsAreBounded => GateIsReachable
  BY DEF GateIsReachable
<1> QED BY <1>1, GateAffordable, StepsBounded, PTL

-------------------------------------------------------------------------------
(* What is journaled covers what went out, because the counters do and every *)
(* event carries them; a repair is entered only while one is left.           *)
JournalInv ==
    /\ modelCalls = dispatched.models
    /\ modelCalls <= MaxModelCalls
    /\ repairs <= MaxRepairAttempts
    /\ pc = "repair" => repairs < MaxRepairAttempts
    /\ pc = "initialize" => dispatched.models = 0 /\ dispatched.tools = 0
    /\ pc = "awaitWriter" => callReserved
    /\ kept.toolCalls >= dispatched.tools
    /\ JournalCoversDispatches

(* Every step keeps the journal in agreement with the session's counters. *)
LEMMA JournalStep ==
    ASSUME Typed, Synced, JournalInv, [Next]_vars
    PROVE  JournalInv'
<1> USE DEF planVars, toolVars, modelVars, gateVars, logVars, historyVars,
            AuthorizeFrame, ExecuteFrame, ReadFrame, Enter, Go, Emit,
            NodeCompleted, StopNode, StopNodeAt, Stop, Contain, Synced, JournalInv,
            JournalCoversDispatches
<1>0. /\ kept.toolCalls \in Nat /\ session.toolCalls \in Nat
      /\ modelCalls \in Nat /\ dispatched \in [tools: Nat, models: Nat]
      /\ journal.toolCalls \in Nat /\ journal.modelCalls \in Nat
      /\ repairs \in Nat /\ MaxRepairAttempts \in Nat
      /\ MaxModelCalls \in Nat
  BY GraphAssumption DEF Typed, TypeOK, Session
<1>1. CASE Initialize
  BY <1>0, <1>1 DEF Initialize
<1>2. CASE NodeExpires
  BY <1>0, <1>2 DEF NodeExpires
<1>3. CASE StubDecide
  BY <1>0, <1>3 DEF StubDecide, Propose
<1>4. CASE RefusePlanning
  BY <1>0, <1>4 DEF RefusePlanning
<1>5. CASE AskPlanner
  BY <1>0, <1>5 DEF AskPlanner, PlannerBudgetSpent
<1>6. CASE PlannerAnswers
  BY <1>0, <1>6 DEF PlannerAnswers, Propose, Invalid
<1>7. CASE pc = "awaitPlanner" /\ PlannerUnavailable
  BY <1>0, <1>7 DEF PlannerUnavailable
<1>8. CASE AuthorizeNode
  BY <1>0, <1>8 DEF AuthorizeNode, ChooseAbstain, ChooseDraft, RejectAction,
     AcceptAction, Invalid
<1>9. CASE BeginExecute
  BY <1>0, <1>9 DEF BeginExecute
<1>10. CASE StopAttempt
  BY <1>0, <1>10 DEF StopAttempt
<1>11. CASE DispatchTool
  BY <1>0, <1>11, DispatchCosts DEF DispatchTool
<1>12. CASE ReadReturns
  BY <1>0, <1>12 DEF ReadReturns, Accepted, ScopeViolation, Record
<1>13. CASE ValueReturns
  BY <1>0, <1>13 DEF ValueReturns, Accepted, ScopeViolation, Record
<1>14. CASE pc = "awaitTool" /\ ReadFailed
  BY <1>0, <1>14 DEF ReadFailed, Record
<1>15. CASE ReadBreaks
  BY <1>0, <1>15 DEF ReadBreaks, Record
<1>16. CASE AdmitHit
  BY <1>0, <1>16, AdmissionIsFree DEF AdmitHit
<1>17. CASE FinishExecute
  BY <1>0, <1>17 DEF FinishExecute
<1>18. CASE RefuseDraft
  BY <1>0, <1>18 DEF RefuseDraft
<1>19. CASE AskWriter
  BY <1>0, <1>19 DEF AskWriter, DraftUnaffordable
<1>20. CASE WriterAnswers
  BY <1>0, <1>20 DEF WriterAnswers, WriterCount
<1>21. CASE WriterFails
  BY <1>0, <1>21 DEF WriterFails, WriterCount
<1>22. CASE WriterTimesOut
  BY <1>0, <1>22 DEF WriterTimesOut
<1>23. CASE ModelRaises
  BY <1>0, <1>23 DEF ModelRaises
<1>24. CASE VerifyDraft
  <2>1. CASE VerificationUnaffordable
    BY <1>0, <1>24, <2>1 DEF VerifyDraft
  <2>2. CASE ~ VerificationUnaffordable
    BY <1>0, <1>24, <2>2, VerificationCosts DEF VerifyDraft
  <2> QED BY <2>1, <2>2
<1>25. CASE Repair
  BY <1>0, <1>25 DEF Repair
<1>26. CASE Terminal
  BY <1>0, <1>26, FinalStatusType DEF Terminal
<1>27. CASE CancelNode
  BY <1>0, <1>27 DEF CancelNode, CancelledWith
<1>28. CASE Disconnect
  BY <1>0, <1>28 DEF Disconnect
<1>29. CASE CloseIncomplete
  BY <1>0, <1>29 DEF CloseIncomplete, CancelledWith
<1>30. CASE DeadlinePasses
  BY <1>0, <1>30 DEF DeadlinePasses
<1>31. CASE UNCHANGED vars
  BY <1>31 DEF vars
<1> QED
  BY <1>1, <1>2, <1>3, <1>4, <1>5, <1>6, <1>7, <1>8, <1>9, <1>10, <1>11,
     <1>12, <1>13, <1>14, <1>15, <1>16, <1>17, <1>18, <1>19, <1>20, <1>21,
     <1>22, <1>23, <1>24, <1>25, <1>26, <1>27, <1>28, <1>29, <1>30, <1>31 DEF
     Next, OwnStep, Reply, Decide, Execute, Write, PlannerTimesOut,
     ReadTimesOut, WriterTimesOut, PlannerFails, ReadUnavailable, Done

(* Whenever the process dies, its journal accounts for every tool read and   *)
(* model call that went out.                                                 *)
THEOREM JournalCovers == Spec => []JournalCoversDispatches
<1>1. Init => Synced /\ StepInv /\ JournalInv
  BY GraphAssumption DEF Init, NewSession, Synced, StepInv, Rounds, JournalInv,
     JournalCoversDispatches
<1>2. JournalInv => JournalCoversDispatches
  BY DEF JournalInv
<1> QED BY <1>1, <1>2, StepsStep, JournalStep, AlwaysTyped, PTL DEF Spec

(* A run spends no more than its Budget, and its counters are what was       *)
(* really sent out, for every budget, planner, writer and retriever: the     *)
(* limits are the session's, the counters' agreement is the journal's.       *)
THEOREM BudgetsKept == Spec => []BudgetsHold
<1>1. Init => Synced /\ StepInv /\ JournalInv
  BY GraphAssumption DEF Init, NewSession, Synced, StepInv, Rounds, JournalInv,
     JournalCoversDispatches
<1>2. Typed /\ JournalInv => BudgetsHold
  BY DEF Typed, SessionOK, WithinLimits, JournalInv, BudgetsHold
<1> QED BY <1>1, <1>2, StepsStep, JournalStep, AlwaysTyped, PTL DEF Spec

-------------------------------------------------------------------------------
(* The journal ends with one terminal event or with none.                    *)
TerminalInv ==
    /\ pc \notin {"close", "end"} => terminals = 0
    /\ terminals = 0 <=> journal.event \notin TerminalEvents
    /\ terminals # 0 => /\ terminals = 1
                        /\ journal.status = status
                        /\ status \in Stopped \cup {"completed"}
    /\ pc = "end" => terminals = 1
    /\ status = "completed" => terminals = 1

(* Every step keeps the number of terminal events in agreement with the
   phase of the run. *)
LEMMA TerminalStep ==
    ASSUME Typed, TerminalInv, [Next]_vars
    PROVE  TerminalInv'
<1> USE DEF planVars, toolVars, modelVars, gateVars, logVars, historyVars,
            AuthorizeFrame, ExecuteFrame, ReadFrame, Enter, Go, Emit,
            NodeCompleted, StopNode, StopNodeAt, Stop, Contain, TerminalInv,
            TerminalEvents, Stopped, Nodes, Waits, GuardedNodes
<1>0. terminals \in Nat
  BY DEF Typed, TypeOK
<1>1. CASE Initialize
  BY <1>0, <1>1 DEF Initialize
<1>2. CASE NodeExpires
  BY <1>0, <1>2 DEF NodeExpires
<1>3. CASE StubDecide
  BY <1>0, <1>3 DEF StubDecide, Propose
<1>4. CASE RefusePlanning
  BY <1>0, <1>4 DEF RefusePlanning
<1>5. CASE AskPlanner
  BY <1>0, <1>5 DEF AskPlanner, PlannerBudgetSpent
<1>6. CASE PlannerAnswers
  BY <1>0, <1>6 DEF PlannerAnswers, Propose, Invalid
<1>7. CASE pc = "awaitPlanner" /\ PlannerUnavailable
  BY <1>0, <1>7 DEF PlannerUnavailable
<1>8. CASE AuthorizeNode
  BY <1>0, <1>8 DEF AuthorizeNode, ChooseAbstain, ChooseDraft, RejectAction,
     AcceptAction, Invalid
<1>9. CASE BeginExecute
  BY <1>0, <1>9 DEF BeginExecute
<1>10. CASE StopAttempt
  BY <1>0, <1>10 DEF StopAttempt
<1>11. CASE DispatchTool
  BY <1>0, <1>11 DEF DispatchTool
<1>12. CASE ReadReturns
  BY <1>0, <1>12 DEF ReadReturns, Accepted, ScopeViolation, Record
<1>13. CASE ValueReturns
  BY <1>0, <1>13 DEF ValueReturns, Accepted, ScopeViolation, Record
<1>14. CASE pc = "awaitTool" /\ ReadFailed
  BY <1>0, <1>14 DEF ReadFailed, Record
<1>15. CASE ReadBreaks
  BY <1>0, <1>15 DEF ReadBreaks, Record
<1>16. CASE AdmitHit
  BY <1>0, <1>16 DEF AdmitHit
<1>17. CASE FinishExecute
  BY <1>0, <1>17 DEF FinishExecute
<1>18. CASE RefuseDraft
  BY <1>0, <1>18 DEF RefuseDraft
<1>19. CASE AskWriter
  BY <1>0, <1>19 DEF AskWriter
<1>20. CASE WriterAnswers
  BY <1>0, <1>20 DEF WriterAnswers, WriterCount
<1>21. CASE WriterFails
  BY <1>0, <1>21 DEF WriterFails, WriterCount
<1>22. CASE WriterTimesOut
  BY <1>0, <1>22 DEF WriterTimesOut
<1>23. CASE ModelRaises
  BY <1>0, <1>23 DEF ModelRaises
<1>24. CASE VerifyDraft
  BY <1>0, <1>24 DEF VerifyDraft
<1>25. CASE Repair
  BY <1>0, <1>25 DEF Repair
<1>26. CASE Terminal
  BY <1>0, <1>26, FinalStatusType DEF Terminal
<1>27. CASE CancelNode
  BY <1>0, <1>27 DEF CancelNode, CancelledWith
<1>28. CASE Disconnect
  BY <1>0, <1>28 DEF Disconnect
<1>29. CASE CloseIncomplete
  BY <1>0, <1>29 DEF CloseIncomplete, CancelledWith
<1>30. CASE DeadlinePasses
  BY <1>0, <1>30 DEF DeadlinePasses
<1>31. CASE UNCHANGED vars
  BY <1>31 DEF vars
<1> QED
  BY <1>1, <1>2, <1>3, <1>4, <1>5, <1>6, <1>7, <1>8, <1>9, <1>10, <1>11,
     <1>12, <1>13, <1>14, <1>15, <1>16, <1>17, <1>18, <1>19, <1>20, <1>21,
     <1>22, <1>23, <1>24, <1>25, <1>26, <1>27, <1>28, <1>29, <1>30, <1>31 DEF
     Next, OwnStep, Reply, Decide, Execute, Write, PlannerTimesOut,
     ReadTimesOut, WriterTimesOut, PlannerFails, ReadUnavailable, Done

(* A run writes at most one terminal event, and the one it ends with says    *)
(* what the run's status says.                                               *)
THEOREM TerminatesOnce == Spec => []OneTerminalEvent
<1>1. Init => TerminalInv
  BY DEF Init, TerminalInv, TerminalEvents
<1>2. Typed /\ TerminalInv => OneTerminalEvent
  BY DEF Typed, TypeOK, TerminalInv, OneTerminalEvent
<1> QED BY <1>1, <1>2, TerminalStep, AlwaysTyped, PTL DEF Spec

-------------------------------------------------------------------------------
(* A run that lost a model call has failed or was cancelled, and knows that   *)
(* its usage is unknown unless the call raised what nobody expected.          *)
LostInv ==
    /\ lost > 0 => /\ pc \in {"terminal", "close", "end"}
                   /\ status \in {"failed", "cancelled"}
    /\ lost > 0 /\ stopReason # "internal_error" => ~ usageKnown

(* Every step keeps a lost model call visible in the run's usage. *)
LEMMA LostStep ==
    ASSUME Typed, LostInv, [Next]_vars
    PROVE  LostInv'
<1> USE DEF planVars, toolVars, modelVars, gateVars, logVars, historyVars,
            AuthorizeFrame, ExecuteFrame, ReadFrame, Enter, Go, Emit,
            NodeCompleted, StopNode, StopNodeAt, Stop, Contain, LostInv,
            Stopped, Nodes, Waits, GuardedNodes
<1>0. lost \in Nat
  BY DEF Typed, TypeOK
<1>1. CASE Initialize
  BY <1>0, <1>1 DEF Initialize
<1>2. CASE NodeExpires
  BY <1>0, <1>2 DEF NodeExpires
<1>3. CASE StubDecide
  BY <1>0, <1>3 DEF StubDecide, Propose
<1>4. CASE RefusePlanning
  BY <1>0, <1>4 DEF RefusePlanning
<1>5. CASE AskPlanner
  BY <1>0, <1>5 DEF AskPlanner
<1>6. CASE PlannerAnswers
  BY <1>0, <1>6 DEF PlannerAnswers, Propose, Invalid
<1>7. CASE pc = "awaitPlanner" /\ PlannerUnavailable
  BY <1>0, <1>7 DEF PlannerUnavailable
<1>8. CASE AuthorizeNode
  BY <1>0, <1>8 DEF AuthorizeNode, ChooseAbstain, ChooseDraft, RejectAction,
     AcceptAction, Invalid
<1>9. CASE BeginExecute
  BY <1>0, <1>9 DEF BeginExecute
<1>10. CASE StopAttempt
  BY <1>0, <1>10 DEF StopAttempt
<1>11. CASE DispatchTool
  BY <1>0, <1>11 DEF DispatchTool
<1>12. CASE ReadReturns
  BY <1>0, <1>12 DEF ReadReturns, Accepted, ScopeViolation, Record
<1>13. CASE ValueReturns
  BY <1>0, <1>13 DEF ValueReturns, Accepted, ScopeViolation, Record
<1>14. CASE pc = "awaitTool" /\ ReadFailed
  BY <1>0, <1>14 DEF ReadFailed, Record
<1>15. CASE ReadBreaks
  BY <1>0, <1>15 DEF ReadBreaks, Record
<1>16. CASE AdmitHit
  BY <1>0, <1>16 DEF AdmitHit
<1>17. CASE FinishExecute
  BY <1>0, <1>17 DEF FinishExecute
<1>18. CASE RefuseDraft
  BY <1>0, <1>18 DEF RefuseDraft
<1>19. CASE AskWriter
  BY <1>0, <1>19 DEF AskWriter
<1>20. CASE WriterAnswers
  BY <1>0, <1>20 DEF WriterAnswers, WriterCount
<1>21. CASE WriterFails
  BY <1>0, <1>21 DEF WriterFails, WriterCount
<1>22. CASE WriterTimesOut
  BY <1>0, <1>22 DEF WriterTimesOut
<1>23. CASE ModelRaises
  BY <1>0, <1>23 DEF ModelRaises
<1>24. CASE VerifyDraft
  BY <1>0, <1>24 DEF VerifyDraft
<1>25. CASE Repair
  BY <1>0, <1>25 DEF Repair
<1>26. CASE Terminal
  <2>1. CASE lost > 0
    <3>1. status \in {"failed", "cancelled"} /\ ~ Completes
      BY <2>1 DEF Completes
    <3>2. FinalStatus = status
      BY <3>1 DEF FinalStatus
    <3>3. stopReason' = stopReason
      BY <1>26, <3>1 DEF Terminal
    <3> QED BY <1>0, <1>26, <3>1, <3>2, <3>3 DEF Terminal
  <2>2. CASE lost = 0
    BY <1>26, <2>2 DEF Terminal
  <2> QED BY <1>0, <2>1, <2>2
<1>27. CASE CancelNode
  BY <1>0, <1>27 DEF CancelNode, CancelledWith
<1>28. CASE Disconnect
  BY <1>0, <1>28 DEF Disconnect
<1>29. CASE CloseIncomplete
  BY <1>0, <1>29 DEF CloseIncomplete, CancelledWith
<1>30. CASE DeadlinePasses
  BY <1>0, <1>30 DEF DeadlinePasses
<1>31. CASE UNCHANGED vars
  BY <1>31 DEF vars
<1> QED
  BY <1>1, <1>2, <1>3, <1>4, <1>5, <1>6, <1>7, <1>8, <1>9, <1>10, <1>11,
     <1>12, <1>13, <1>14, <1>15, <1>16, <1>17, <1>18, <1>19, <1>20, <1>21,
     <1>22, <1>23, <1>24, <1>25, <1>26, <1>27, <1>28, <1>29, <1>30, <1>31 DEF
     Next, OwnStep, Reply, Decide, Execute, Write, PlannerTimesOut,
     ReadTimesOut, WriterTimesOut, PlannerFails, ReadUnavailable, Done

(* A provider outage is never presented as an evidence-based abstention,     *)
(* still less as an answer.                                                  *)
THEOREM OutagesAreFailures == Spec => []OutageIsNotAbstention
<1>1. Init => LostInv
  BY DEF Init, LostInv
<1>2. Typed /\ LostInv => OutageIsNotAbstention
  BY DEF Typed, TypeOK, LostInv, OutageIsNotAbstention
<1> QED BY <1>1, <1>2, LostStep, AlwaysTyped, PTL DEF Spec

(* ... and its token usage is not presented as known.                        *)
THEOREM LostUsageIsUnknown == Spec => []LostCallMakesUsageUnknown
<1>1. Init => LostInv
  BY DEF Init, LostInv
<1>2. LostInv => LostCallMakesUsageUnknown
  BY DEF LostInv, LostCallMakesUsageUnknown
<1> QED BY <1>1, <1>2, LostStep, AlwaysTyped, PTL DEF Spec

(* A run that lost a model call shows it in its status and in its usage.      *)
THEOREM LostCallsAreShown == Spec => []LostCallsShow
<1>1. OutageIsNotAbstention /\ LostCallMakesUsageUnknown => LostCallsShow
  BY DEF LostCallsShow
<1> QED BY <1>1, OutagesAreFailures, LostUsageIsUnknown, PTL

-------------------------------------------------------------------------------
(* Only hits of granted documents equal to the store's copy are ever pending *)
(* or admitted.                                                              *)
Sound(e) == DocOf[e] \in Granted /\ e \notin Forged

EvidenceInv ==
    /\ \A e \in kept.evidenceById \cup session.evidenceById : Sound(e)
    /\ \A e \in Range(pending) : Sound(e)

(* Every step keeps the evidence of the session distinct and in scope. *)
LEMMA EvidenceStep ==
    ASSUME Typed, EvidenceInv, [Next]_vars
    PROVE  EvidenceInv'
<1>0. kept \in Session /\ session \in Session /\ pending \in Seq(Evidence)
  BY DEF Typed, TypeOK
<1>1. \A e \in kept'.evidenceById \cup session'.evidenceById : Sound(e)
  <2>1. CASE DispatchTool
    <3>1. session'.evidenceById = session.evidenceById /\ kept' = session'
      <4>1. attempt \in {0, 1}
        BY DEF Typed, TypeOK
      <4> QED BY <1>0, <2>1, <4>1, ReservedSpends DEF DispatchTool
    <3> QED BY <3>1 DEF EvidenceInv
  <2>2. CASE AdmitHit
    <3>1. pending # <<>>
      BY <2>2 DEF AdmitHit
    <3>2. Head(pending) \in Evidence /\ Head(pending) \in Range(pending)
      BY <1>0, <3>1 DEF Range
    <3>3. session'.evidenceById \subseteq
             session.evidenceById \cup {Head(pending)}
      BY <1>0, <2>2, <3>2, AdmittedType DEF AdmitHit
    <3>4. kept' = session' \/ kept' = kept
      BY <2>2 DEF AdmitHit
    <3> QED BY <3>2, <3>3, <3>4 DEF EvidenceInv
  <2>3. CASE VerifyDraft
    <3>1. kept'.evidenceById = kept.evidenceById /\ session' = session
      BY <2>3, VerificationCosts DEF VerifyDraft
    <3> QED BY <3>1 DEF EvidenceInv
  <2> QED BY <2>1, <2>2, <2>3, SessionMoves DEF EvidenceInv
<1>2. \/ pending' = pending \/ pending' = <<>>
      \/ AdmitHit
      \/ HitsInScope(pending') /\ HitsTrusted(pending')
  <2> USE DEF toolVars, ReadFrame, ExecuteFrame, ScopeViolation, Accepted
  <2>1. CASE OwnStep
    BY <2>1 DEF OwnStep, Initialize, NodeExpires, Decide, StubDecide,
       RefusePlanning, AskPlanner, AuthorizeNode, ChooseAbstain, ChooseDraft,
       RejectAction, AcceptAction, AuthorizeFrame, Execute, BeginExecute,
       StopAttempt, DispatchTool, FinishExecute, ValueReturns, Write,
       RefuseDraft, AskWriter, VerifyDraft, Repair, Terminal, CloseIncomplete,
       PlannerTimesOut, PlannerUnavailable, ReadTimesOut, ReadFailed,
       WriterTimesOut
  <2>2. CASE Reply
    BY <2>2 DEF Reply, PlannerAnswers, PlannerFails, PlannerUnavailable,
       ReadReturns, ReadUnavailable, ReadFailed, ReadBreaks, WriterAnswers,
       WriterFails, ModelRaises
  <2>3. CASE CancelNode \/ Disconnect \/ DeadlinePasses \/ Done
             \/ UNCHANGED vars
    BY <2>3 DEF CancelNode, Disconnect, DeadlinePasses, Done, vars
  <2> QED BY <2>1, <2>2, <2>3 DEF Next
<1>3. \A e \in Range(pending') : Sound(e)
  <2>1. CASE AdmitHit
    <3>1. pending # <<>> /\ pending' = Tail(pending)
      BY <2>1 DEF AdmitHit
    <3>2. \A i \in DOMAIN Tail(pending) :
             i + 1 \in DOMAIN pending /\ Tail(pending)[i] = pending[i + 1]
      BY <1>0, <3>1
    <3>3. Range(pending') = {pending'[i] : i \in DOMAIN pending'}
          /\ Range(pending) = {pending[i] : i \in DOMAIN pending}
      BY DEF Range
    <3> QED BY <3>1, <3>2, <3>3 DEF EvidenceInv
  <2>2. CASE pending' = pending
    BY <2>2 DEF EvidenceInv
  <2>3. CASE pending' = <<>>
    BY <2>3 DEF Range
  <2>4. CASE HitsInScope(pending') /\ HitsTrusted(pending')
    BY <2>4 DEF HitsInScope, HitsTrusted, Sound
  <2> QED BY <1>2, <2>1, <2>2, <2>3, <2>4
<1> QED BY <1>1, <1>3 DEF EvidenceInv, Sound

(* An approval is of the draft at hand and has been paid for; only an        *)
(* approved draft completes a run.                                           *)
ApprovalInv ==
    /\ verificationOk => /\ pc \in {"terminal", "close", "end"}
                         /\ Grounded(draft)
                         /\ kept.toolCalls > dispatched.tools
    /\ status = "completed" => /\ verificationOk
                               /\ delivered
                               /\ pc \in {"close", "end"}
    /\ delivered => status = "completed"

(* Every step keeps the verdict tied to the draft it was given for. *)
LEMMA ApprovalStep ==
    ASSUME Typed, JournalInv, ApprovalInv, [Next]_vars
    PROVE  ApprovalInv'
<1> USE DEF planVars, toolVars, modelVars, gateVars, logVars, historyVars,
            AuthorizeFrame, ExecuteFrame, ReadFrame, Enter, Go, Emit,
            NodeCompleted, StopNode, StopNodeAt, Stop, Contain, ApprovalInv,
            Grounded, Stopped, Nodes, Waits, GuardedNodes
<1>0. /\ kept.toolCalls \in Nat /\ dispatched \in [tools: Nat, models: Nat]
      /\ kept.toolCalls >= dispatched.tools
      /\ verificationOk \in BOOLEAN
  BY DEF Typed, TypeOK, Session, JournalInv
<1>1. CASE Initialize
  BY <1>0, <1>1 DEF Initialize
<1>2. CASE NodeExpires
  BY <1>0, <1>2 DEF NodeExpires
<1>3. CASE StubDecide
  BY <1>0, <1>3 DEF StubDecide, Propose
<1>4. CASE RefusePlanning
  BY <1>0, <1>4 DEF RefusePlanning
<1>5. CASE AskPlanner
  BY <1>0, <1>5 DEF AskPlanner
<1>6. CASE PlannerAnswers
  BY <1>0, <1>6 DEF PlannerAnswers, Propose, Invalid
<1>7. CASE pc = "awaitPlanner" /\ PlannerUnavailable
  BY <1>0, <1>7 DEF PlannerUnavailable
<1>8. CASE AuthorizeNode
  BY <1>0, <1>8 DEF AuthorizeNode, ChooseAbstain, ChooseDraft, RejectAction,
     AcceptAction, Invalid
<1>9. CASE BeginExecute
  BY <1>0, <1>9 DEF BeginExecute
<1>10. CASE StopAttempt
  BY <1>0, <1>10 DEF StopAttempt
<1>11. CASE DispatchTool
  BY <1>0, <1>11 DEF DispatchTool
<1>12. CASE ReadReturns
  BY <1>0, <1>12 DEF ReadReturns, Accepted, ScopeViolation, Record
<1>13. CASE ValueReturns
  BY <1>0, <1>13 DEF ValueReturns, Accepted, ScopeViolation, Record
<1>14. CASE pc = "awaitTool" /\ ReadFailed
  BY <1>0, <1>14 DEF ReadFailed, Record
<1>15. CASE ReadBreaks
  BY <1>0, <1>15 DEF ReadBreaks, Record
<1>16. CASE AdmitHit
  BY <1>0, <1>16 DEF AdmitHit
<1>17. CASE FinishExecute
  BY <1>0, <1>17 DEF FinishExecute
<1>18. CASE RefuseDraft
  BY <1>0, <1>18 DEF RefuseDraft
<1>19. CASE AskWriter
  BY <1>0, <1>19 DEF AskWriter
<1>20. CASE WriterAnswers
  BY <1>0, <1>20 DEF WriterAnswers, WriterCount
<1>21. CASE WriterFails
  BY <1>0, <1>21 DEF WriterFails, WriterCount
<1>22. CASE WriterTimesOut
  BY <1>0, <1>22 DEF WriterTimesOut
<1>23. CASE ModelRaises
  BY <1>0, <1>23 DEF ModelRaises
<1>24. CASE VerifyDraft
  <2>1. CASE VerificationUnaffordable
    BY <1>0, <1>24, <2>1 DEF VerifyDraft
  <2>2. CASE ~ VerificationUnaffordable
    <3>1. kept'.toolCalls = kept.toolCalls + 1 /\ kept'.evidence = kept.evidence
      BY <1>24, <2>2, VerificationCosts
    <3>2. /\ verificationOk' = Grounded(draft)
          /\ pc' = IF verificationOk' \/ repairs >= MaxRepairAttempts
                   THEN "terminal" ELSE "repair"
          /\ UNCHANGED <<draft, dispatched, status, delivered>>
      BY <1>24, <2>2 DEF VerifyDraft
    <3>3. status # "completed" /\ ~ delivered
      BY <1>24 DEF VerifyDraft
    <3>4. kept'.toolCalls > dispatched'.tools
      BY <1>0, <3>1, <3>2
    <3> QED BY <3>1, <3>2, <3>3, <3>4
  <2> QED BY <2>1, <2>2
<1>25. CASE Repair
  BY <1>0, <1>25 DEF Repair
<1>26. CASE Terminal
  <2>1. /\ Completes => FinalStatus = "completed"
        /\ ~ Completes /\ status \in Stopped => FinalStatus = status
        /\ ~ Completes /\ status \notin Stopped => FinalStatus = "abstained"
    BY DEF FinalStatus
  <2>2. /\ status' = FinalStatus /\ delivered' = Completes /\ pc' = "close"
        /\ UNCHANGED <<verificationOk, draft, kept, dispatched>>
    BY <1>26 DEF Terminal
  <2>3. Completes => verificationOk
    BY DEF Completes
  <2> QED BY <2>1, <2>2, <2>3
<1>27. CASE CancelNode
  BY <1>0, <1>27 DEF CancelNode, CancelledWith
<1>28. CASE Disconnect
  BY <1>0, <1>28 DEF Disconnect
<1>29. CASE CloseIncomplete
  BY <1>0, <1>29 DEF CloseIncomplete, CancelledWith
<1>30. CASE DeadlinePasses
  BY <1>0, <1>30 DEF DeadlinePasses
<1>31. CASE UNCHANGED vars
  BY <1>31 DEF vars
<1> QED
  BY <1>1, <1>2, <1>3, <1>4, <1>5, <1>6, <1>7, <1>8, <1>9, <1>10, <1>11,
     <1>12, <1>13, <1>14, <1>15, <1>16, <1>17, <1>18, <1>19, <1>20, <1>21,
     <1>22, <1>23, <1>24, <1>25, <1>26, <1>27, <1>28, <1>29, <1>30, <1>31 DEF
     Next, OwnStep, Reply, Decide, Execute, Write, PlannerTimesOut,
     ReadTimesOut, WriterTimesOut, PlannerFails, ReadUnavailable, Done

(* A completed run delivers a draft whose every citation resolves to a chunk *)
(* it admitted, granted and genuine, and has paid for that check.            *)
THEOREM CompletedVerified == Spec => []CompletedMeansVerified
<1>1. /\ Init => Synced /\ StepInv /\ JournalInv
      /\ Init => EvidenceInv /\ ApprovalInv
  BY GraphAssumption DEF Init, NewSession, Synced, StepInv, Rounds, JournalInv,
     JournalCoversDispatches, EvidenceInv, ApprovalInv, Range
<1>2. Typed /\ EvidenceInv /\ ApprovalInv => CompletedMeansVerified
  BY DEF Typed, SessionOK, EvidenceInv, ApprovalInv, CompletedMeansVerified,
     Sound
<1> QED BY <1>1, <1>2, StepsStep, JournalStep, EvidenceStep, ApprovalStep,
       AlwaysTyped, PTL DEF Spec

-------------------------------------------------------------------------------
(* What a step may change of what the consumer sees: counters only grow, and *)
(* not after an approval or in the step that ends the run; the approval is   *)
(* given once and paid for; what ended stays as it ended.                    *)
Progresses ==
    /\ kept.toolCalls <= kept'.toolCalls
    /\ modelCalls <= modelCalls'
    /\ verificationOk \/ terminals' # terminals =>
          /\ kept'.toolCalls = kept.toolCalls
          /\ modelCalls' = modelCalls
          /\ verificationOk' = verificationOk
    /\ verificationOk' # verificationOk =>
          /\ verificationOk'
          /\ kept'.toolCalls = kept.toolCalls + 1
          /\ modelCalls' = modelCalls
    /\ terminals # 0 => /\ terminals' = terminals
                        /\ journal' = journal
                        /\ kept'.toolCalls = kept.toolCalls
                        /\ modelCalls' = modelCalls
                        /\ verificationOk' = verificationOk

(* Every step is a step of RunContract under the refinement mapping, or
   leaves its variables alone. *)
LEMMA ProgressStep ==
    ASSUME Typed, Synced, JournalInv, ApprovalInv, TerminalInv, [Next]_vars
    PROVE  Progresses
<1> USE DEF planVars, toolVars, modelVars, gateVars, logVars, historyVars,
            AuthorizeFrame, ExecuteFrame, ReadFrame, Enter, Go, Emit,
            NodeCompleted, StopNode, StopNodeAt, Stop, Contain, Synced, Progresses,
            TerminalEvents, Stopped, Nodes, Waits, GuardedNodes
<1>0. /\ kept.toolCalls \in Nat /\ session.toolCalls \in Nat
      /\ modelCalls \in Nat /\ terminals \in Nat
      /\ verificationOk \in BOOLEAN
  BY DEF Typed, TypeOK, Session
<1>a. /\ verificationOk => pc \in {"terminal", "close", "end"}
      /\ pc \notin {"close", "end"} => terminals = 0
      /\ pc = "end" => terminals = 1
      /\ pc = "awaitWriter" => callReserved
      /\ terminals = 0 <=> journal.event \notin TerminalEvents
  BY DEF ApprovalInv, TerminalInv, JournalInv
<1>1. CASE Initialize
  BY <1>0, <1>a, <1>1 DEF Initialize
<1>2. CASE NodeExpires
  BY <1>0, <1>a, <1>2 DEF NodeExpires
<1>3. CASE StubDecide
  BY <1>0, <1>a, <1>3 DEF StubDecide, Propose
<1>4. CASE RefusePlanning
  BY <1>0, <1>a, <1>4 DEF RefusePlanning
<1>5. CASE AskPlanner
  BY <1>0, <1>a, <1>5 DEF AskPlanner
<1>6. CASE PlannerAnswers
  BY <1>0, <1>a, <1>6 DEF PlannerAnswers, Propose, Invalid
<1>7. CASE pc = "awaitPlanner" /\ PlannerUnavailable
  BY <1>0, <1>a, <1>7 DEF PlannerUnavailable
<1>8. CASE AuthorizeNode
  BY <1>0, <1>a, <1>8 DEF AuthorizeNode, ChooseAbstain, ChooseDraft, RejectAction,
     AcceptAction, Invalid
<1>9. CASE BeginExecute
  BY <1>0, <1>a, <1>9 DEF BeginExecute
<1>10. CASE StopAttempt
  BY <1>0, <1>a, <1>10 DEF StopAttempt
<1>11. CASE DispatchTool
  BY <1>0, <1>a, <1>11, DispatchCosts DEF DispatchTool
<1>12. CASE ReadReturns
  BY <1>0, <1>a, <1>12 DEF ReadReturns, Accepted, ScopeViolation, Record
<1>13. CASE ValueReturns
  BY <1>0, <1>a, <1>13 DEF ValueReturns, Accepted, ScopeViolation, Record
<1>14. CASE pc = "awaitTool" /\ ReadFailed
  BY <1>0, <1>a, <1>14 DEF ReadFailed, Record
<1>15. CASE ReadBreaks
  BY <1>0, <1>a, <1>15 DEF ReadBreaks, Record
<1>16. CASE AdmitHit
  BY <1>0, <1>a, <1>16, AdmissionIsFree DEF AdmitHit
<1>17. CASE FinishExecute
  BY <1>0, <1>a, <1>17 DEF FinishExecute
<1>18. CASE RefuseDraft
  BY <1>0, <1>a, <1>18 DEF RefuseDraft
<1>19. CASE AskWriter
  BY <1>0, <1>a, <1>19 DEF AskWriter
<1>20. CASE WriterAnswers
  BY <1>0, <1>a, <1>20 DEF WriterAnswers, WriterCount
<1>21. CASE WriterFails
  BY <1>0, <1>a, <1>21 DEF WriterFails, WriterCount
<1>22. CASE WriterTimesOut
  BY <1>0, <1>a, <1>22 DEF WriterTimesOut
<1>23. CASE ModelRaises
  BY <1>0, <1>a, <1>23 DEF ModelRaises
<1>24. CASE VerifyDraft
  <2>1. CASE VerificationUnaffordable
    BY <1>0, <1>a, <1>24, <2>1 DEF VerifyDraft
  <2>2. CASE ~ VerificationUnaffordable
    <3>1. kept'.toolCalls = kept.toolCalls + 1
      BY <1>24, <2>2, VerificationCosts
    <3>2. /\ UNCHANGED <<modelCalls, terminals>> /\ pc = "verify"
          /\ verificationOk' = Grounded(draft)
      BY <1>24, <2>2 DEF VerifyDraft
    <3>3. ~ verificationOk /\ terminals = 0 /\ Grounded(draft) \in BOOLEAN
      BY <1>a, <3>2 DEF Grounded
    <3> QED BY <1>0, <1>a, <3>1, <3>2, <3>3
  <2> QED BY <2>1, <2>2
<1>25. CASE Repair
  BY <1>0, <1>a, <1>25 DEF Repair
<1>26. CASE Terminal
  BY <1>0, <1>a, <1>26, FinalStatusType DEF Terminal
<1>27. CASE CancelNode
  BY <1>0, <1>a, <1>27 DEF CancelNode, CancelledWith
<1>28. CASE Disconnect
  BY <1>0, <1>a, <1>28 DEF Disconnect
<1>29. CASE CloseIncomplete
  BY <1>0, <1>a, <1>29 DEF CloseIncomplete, CancelledWith
<1>30. CASE DeadlinePasses
  BY <1>0, <1>a, <1>30 DEF DeadlinePasses
<1>31. CASE UNCHANGED vars
  BY <1>0, <1>a, <1>31 DEF vars
<1> QED
  BY <1>1, <1>2, <1>3, <1>4, <1>5, <1>6, <1>7, <1>8, <1>9, <1>10, <1>11,
     <1>12, <1>13, <1>14, <1>15, <1>16, <1>17, <1>18, <1>19, <1>20, <1>21,
     <1>22, <1>23, <1>24, <1>25, <1>26, <1>27, <1>28, <1>29, <1>30, <1>31 DEF
     Next, OwnStep, Reply, Decide, Execute, Write, PlannerTimesOut,
     ReadTimesOut, WriterTimesOut, PlannerFails, ReadUnavailable, Done

(* The graph implements the contract of a run: each step is a step of the    *)
(* contract or changes nothing the consumer sees.                            *)
THEOREM ContractKept == Spec => KeepsContract
<1> DEFINE Inv == Typed /\ Synced /\ JournalInv /\ ApprovalInv /\ TerminalInv
<1>1. Init => Promise!Start
  BY DEF Init, NewSession, Promise!Start
<1>2. ASSUME Inv, Inv', [Next]_vars
      PROVE  [Promise!Work \/ Promise!Approve \/ Promise!Finish]_(Promise!contractVars)
  <2>1. Progresses
    BY <1>2, ProgressStep
  <2>2. /\ kept.toolCalls \in Nat /\ kept'.toolCalls \in Nat
        /\ modelCalls \in Nat /\ modelCalls' \in Nat
        /\ kept'.toolCalls <= MaxToolCalls /\ modelCalls' <= MaxModelCalls
        /\ MaxToolCalls \in Nat /\ MaxModelCalls \in Nat
    BY <1>2, LimitAssumption, GraphAssumption
       DEF Typed, TypeOK, Session, SessionOK, WithinLimits, JournalInv
  <2>3. /\ verificationOk \in BOOLEAN /\ verificationOk' \in BOOLEAN
        /\ terminals \in {0, 1} /\ terminals' \in {0, 1}
        /\ delivered \in BOOLEAN /\ delivered' \in BOOLEAN
    BY <1>2 DEF Typed, TypeOK, TerminalInv
  <2>4. /\ delivered <=> terminals = 1 /\ journal.status = "completed"
        /\ delivered' <=> terminals' = 1 /\ journal'.status = "completed"
    BY <1>2 DEF TerminalInv, ApprovalInv
  <2>5. CASE terminals = 0 /\ terminals' = 1
    <3>1. /\ journal'.status \in Stopped \cup {"completed"}
          /\ journal'.status = "completed" => verificationOk'
      BY <1>2, <2>5 DEF TerminalInv, ApprovalInv
    <3>2. Promise!Finish
      BY <2>1, <2>3, <2>4, <2>5, <3>1 DEF Progresses, Promise!Finish, Stopped
    <3> QED BY <3>2
  <2>6. CASE terminals = 1
    BY <2>1, <2>3, <2>4, <2>6 DEF Progresses, Promise!contractVars
  <2>7. CASE terminals = 0 /\ terminals' = 0
    <3>1. CASE verificationOk' # verificationOk
      <4>1. /\ ~ verificationOk /\ verificationOk' = TRUE
            /\ kept'.toolCalls = kept.toolCalls + 1 /\ modelCalls' = modelCalls
        BY <2>1, <2>3, <3>1 DEF Progresses
      <4>2. kept.toolCalls < MaxToolCalls
        BY <2>2, <4>1
      <4>3. delivered' = delivered
        BY <2>3, <2>4, <2>7
      <4>4. Promise!Approve
        BY <2>7, <4>1, <4>2, <4>3 DEF Promise!Approve
      <4> QED BY <4>4
    <3>2. CASE verificationOk' = verificationOk /\ verificationOk
      BY <2>1, <2>3, <2>4, <2>7, <3>2 DEF Progresses, Promise!contractVars
    <3>3. CASE verificationOk' = verificationOk /\ ~ verificationOk
      <4>1. Promise!Work
        BY <2>1, <2>2, <2>3, <2>4, <2>7, <3>3 DEF Progresses, Promise!Work
      <4> QED BY <4>1
    <3> QED BY <3>1, <3>2, <3>3
  <2> QED BY <2>3, <2>5, <2>6, <2>7
<1>3. Init => Synced /\ StepInv /\ JournalInv /\ ApprovalInv /\ TerminalInv
  BY GraphAssumption DEF Init, NewSession, Synced, StepInv, Rounds, JournalInv,
     JournalCoversDispatches, ApprovalInv, TerminalInv, TerminalEvents
<1>4. Spec => []Inv
  BY <1>3, StepsStep, JournalStep, ApprovalStep, TerminalStep, AlwaysTyped, PTL
     DEF Spec
<1> QED BY <1>1, <1>2, <1>4, PTL DEF Spec, KeepsContract, Promise!Contract

===============================================================================
