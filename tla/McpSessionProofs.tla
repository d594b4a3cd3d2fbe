--------------------------- MODULE McpSessionProofs ---------------------------
(***************************************************************************)
(* Theorems about a session shared by any number of concurrent calls.      *)
(***************************************************************************)
EXTENDS McpSession, ToolPolicyProofs

(* The hits of a read are a sequence of chunks. *)
LEMMA HitsAreSeq == HitLists \subseteq Seq(Evidence)
BY BoundedSeqIsSeq, McpAssumption DEF HitLists

(* Replies are well typed. *)
LEMMA ReplyTypes ==
    /\ NoReply \in Reply
    /\ ValueReply \in Reply
    /\ \A why \in Codes : ErrorReply(why) \in Reply
    /\ \A items, new \in SUBSET Evidence : EvidenceReply(items, new) \in Reply
<1>1. NoReply \in Reply
  BY DEF NoReply, Reply, Codes
<1>2. ValueReply \in Reply
  BY DEF ValueReply, NoReply, Reply, Codes
<1>3. ASSUME NEW why \in Codes PROVE ErrorReply(why) \in Reply
  BY DEF ErrorReply, Reply
<1>4. ASSUME NEW items \in SUBSET Evidence, NEW new \in SUBSET Evidence
      PROVE  EvidenceReply(items, new) \in Reply
  BY DEF EvidenceReply, Reply, Codes
<1> QED BY <1>1, <1>2, <1>3, <1>4

-------------------------------------------------------------------------------
(* A new session, with no call placed, has its type. *)
LEMMA TypeInit == Init => TypeOK
<1> SUFFICES ASSUME Init PROVE TypeOK
  OBVIOUS
<1>1. NewSession \in Session
  BY DEF NewSession, Session
<1>2. NoRequest \in Requests
  BY McpAssumption DEF NoRequest
<1>3. reply \in [Calls -> Reply]
  BY ReplyTypes DEF Init
<1>4. <<>> \in Seq(Evidence)
  OBVIOUS
<1> QED BY <1>1, <1>2, <1>3, <1>4 DEF Init, TypeOK, CallStates

(* The call's answer is well typed. *)
LEMMA AnswerType ==
    ASSUME NEW c \in Calls, NEW r \in Reply, TypeOK, Answer(c, r)
    PROVE  /\ pc' \in [Calls -> CallStates]
           /\ reply' \in [Calls -> Reply]
BY DEF TypeOK, Answer, CallStates

(* Every step of every call keeps the session and the calls in their types. *)
LEMMA TypeStep ==
    ASSUME TypeOK, [Next]_vars
    PROVE  TypeOK'
<1> USE DEF callVars
<1>1. CASE UNCHANGED vars
  BY <1>1 DEF TypeOK, vars
<1>2. CASE Tick
  BY <1>2 DEF TypeOK, Tick
<1>3. CASE Quiescent
  BY <1>3 DEF TypeOK, Quiescent, vars
<1>4. ASSUME NEW c \in Calls, Step(c)
      PROVE  TypeOK'
  <2>0. /\ request[c] \in Requests /\ attempt[c] \in {0, 1}
        /\ session.evidenceById \subseteq Evidence
    BY DEF TypeOK, Session
  <2>1. CASE RefuseExpired(c)
    <3>1. ErrorReply("session_expired") \in Reply
      BY ReplyTypes DEF Codes
    <3> QED BY <2>1, <3>1, AnswerType DEF TypeOK, RefuseExpired
  <2>2. CASE RefuseUnauthorized(c)
    <3>1. PICK r \in Requests : AuthorizeError(session, r) # "none"
                     /\ Answer(c, ErrorReply(AuthorizeError(session, r)))
      BY <2>2 DEF RefuseUnauthorized
    <3>2. ErrorReply(AuthorizeError(session, r)) \in Reply
      BY ReplyTypes, AuthorizeErrorType DEF Codes
    <3> QED BY <2>2, <3>1, <3>2, AnswerType DEF TypeOK, RefuseUnauthorized
  <2>3. CASE Receive(c)
    BY <2>3 DEF TypeOK, Receive, CallStates
  <2>15. CASE Authorize(c)
    <3>1. now + Timeout(c) \in Int
      BY McpAssumption DEF Timeout, Remaining, TypeOK
    <3> QED BY <2>15, <3>1 DEF TypeOK, Authorize, CallStates
  <2>4. CASE GiveUp(c)
    <3>1. StopCode(c, "deadline_exhausted") \in Codes
      BY DEF StopCode, TypeOK, Codes
    <3>2. Refusal(session, request[c]) # "none"
             => StopCode(c, Refusal(session, request[c])) \in Codes
      BY RefusalType DEF StopCode, TypeOK, Codes
    <3>3. PICK why \in Codes : Answer(c, ErrorReply(why))
      BY <2>4, <3>1, <3>2 DEF GiveUp
    <3>4. ErrorReply(why) \in Reply
      BY ReplyTypes
    <3> QED BY <2>4, <3>3, <3>4, AnswerType DEF TypeOK, GiveUp
  <2>5. CASE Dispatch(c)
    <3>1. Reserved(session, request[c], attempt[c]) \in Session
      BY <2>0, ReservedType DEF TypeOK
    <3> QED BY <2>0, <2>5, <3>1 DEF TypeOK, Dispatch, CallStates
  <2>6. CASE ReadReturns(c)
    <3>1. PICK hits \in HitLists :
            IF HitsInScope(hits) /\ HitsTrusted(hits)
            THEN /\ refs' = [refs EXCEPT ![c] = Range(hits)]
                 /\ pending' = [pending EXCEPT ![c] = hits]
                 /\ pc' = [pc EXCEPT ![c] = "admit"]
                 /\ UNCHANGED reply
            ELSE /\ Answer(c, ErrorReply("tool_scope_violation"))
                 /\ UNCHANGED <<refs, pending>>
      BY <2>6 DEF ReadReturns
    <3>2. hits \in Seq(Evidence) /\ Range(hits) \in SUBSET Evidence
      BY HitsAreSeq, RangeInSet
    <3>3. ErrorReply("tool_scope_violation") \in Reply
      BY ReplyTypes DEF Codes
    <3>4. /\ refs' \in [Calls -> SUBSET Evidence]
          /\ pending' \in [Calls -> Seq(Evidence)]
          /\ pc' \in [Calls -> CallStates]
          /\ reply' \in [Calls -> Reply]
      <4>1. CASE HitsInScope(hits) /\ HitsTrusted(hits)
        BY <3>1, <3>2, <4>1, ZenonT(40) DEF TypeOK, CallStates
      <4>2. CASE ~ (HitsInScope(hits) /\ HitsTrusted(hits))
        BY <3>1, <3>3, <4>2, AnswerType DEF TypeOK
      <4> QED BY <4>1, <4>2
    <3> QED BY <2>6, <3>4 DEF TypeOK, ReadReturns
  <2>7. CASE DateReturns(c)
    <3>1. PICK r \in {ValueReply} \cup {ErrorReply(e) :
                 e \in {"unsupported_convention", "date_out_of_range"}} :
             Answer(c, r)
      BY <2>7 DEF DateReturns
    <3>2. r \in Reply
      BY ReplyTypes DEF Codes
    <3> QED BY <2>7, <3>1, <3>2, AnswerType DEF TypeOK, DateReturns
  <2>8. CASE CheckReturns(c)
    <3>1. PICK r \in {ValueReply, ErrorReply("unknown_evidence")} : Answer(c, r)
      BY <2>8 DEF CheckReturns
    <3>2. r \in Reply
      BY ReplyTypes DEF Codes
    <3> QED BY <2>8, <3>1, <3>2, AnswerType DEF TypeOK, CheckReturns
  <2>9. ASSUME NEW code \in ReadErrors, RetryOrFail(c, code)
        PROVE  TypeOK'
    <3>1. ErrorReply(code) \in Reply
      BY ReplyTypes DEF Codes
    <3>2. CASE attempt[c] < Attempts - 1
      <4>1. attempt[c] + 1 \in {0, 1}
        BY <2>0, <3>2 DEF Attempts
      <4> QED BY <2>9, <3>2, <4>1 DEF TypeOK, RetryOrFail, CallStates
    <3>3. CASE ~ (attempt[c] < Attempts - 1)
      BY <2>9, <3>1, <3>3, AnswerType DEF TypeOK, RetryOrFail
    <3> QED BY <3>2, <3>3
  <2>10. CASE ReadUnavailable(c) \/ ReadTimesOut(c)
    BY <2>9, <2>10 DEF ReadUnavailable, ReadTimesOut, ReadErrors
  <2>11. CASE ReadBreaks(c)
    <3>1. PICK code \in {"tool_unavailable", "unhandled_exception"} :
             Answer(c, ErrorReply(code))
      BY <2>11 DEF ReadBreaks
    <3>2. ErrorReply(code) \in Reply
      BY ReplyTypes DEF Codes
    <3> QED BY <2>11, <3>1, <3>2, AnswerType DEF TypeOK, ReadBreaks
  <2>12. CASE CancelCall(c)
    BY <2>12 DEF TypeOK, CancelCall, CallStates
  <2>13. CASE Admit(c)
    <3>1. pending[c] \in Seq(Evidence) /\ pending[c] # <<>>
      BY <2>13 DEF TypeOK, Admit
    <3>2. Head(pending[c]) \in Evidence /\ Tail(pending[c]) \in Seq(Evidence)
      BY <3>1
    <3>3. Admitted(session, Head(pending[c])) \in Session
      BY <3>2, AdmittedType DEF TypeOK
    <3> QED BY <2>13, <3>2, <3>3 DEF TypeOK, Admit
  <2>14. CASE ReturnEvidence(c)
    <3>1. EvidenceReply(refs[c] \cap session.evidenceById, fresh[c]) \in Reply
      BY <2>0, ReplyTypes DEF TypeOK
    <3> QED BY <2>14, <3>1, AnswerType DEF TypeOK, ReturnEvidence
  <2> QED BY <1>4, <2>1, <2>2, <2>3, <2>4, <2>5, <2>6, <2>7, <2>8, <2>10,
             <2>11, <2>12, <2>13, <2>14, <2>15 DEF Step, Settle
<1> QED BY <1>1, <1>2, <1>3, <1>4 DEF Next

(* Every reachable state of the server is well typed. *)
THEOREM TypeCorrect == Spec => []TypeOK
BY TypeInit, TypeStep, PTL DEF Spec

-------------------------------------------------------------------------------
(* Only a dispatch and an admission touch the shared session. *)
LEMMA SessionChanges ==
    ASSUME TypeOK, [Next]_vars
    PROVE  \/ UNCHANGED <<session, fresh>>
           \/ \E c \in Calls : Dispatch(c) \/ Admit(c)
BY DEF Next, Step, Settle, vars, callVars, Tick, Quiescent, RefuseExpired,
       Receive, RefuseUnauthorized, Authorize, GiveUp, ReadReturns, DateReturns,
       CheckReturns, ReadUnavailable, ReadTimesOut, RetryOrFail, ReadBreaks,
       CancelCall, ReturnEvidence

(* What a dispatch does to the session. *)
LEMMA DispatchSpends ==
    ASSUME TypeOK, NEW c \in Calls, Dispatch(c)
    PROVE  /\ now < deadline[c]
           /\ session'.toolCalls = session.toolCalls + 1
           /\ session'.searchesUsed >= session.searchesUsed
           /\ UNCHANGED <<session.evidenceById, session.evidence, fresh>>
           /\ WithinLimits(session) => WithinLimits(session')
<1>1. attempt[c] \in {0, 1} /\ session \in Session
  BY DEF TypeOK
<1> QED BY <1>1, ReservedSpends, ReservedWithinLimits DEF Dispatch

(* What an admission does to it. *)
LEMMA AdmitAdds ==
    ASSUME TypeOK, NEW c \in Calls, Admit(c)
    PROVE  /\ Head(pending[c]) \in Evidence
           /\ session' = Admitted(session, Head(pending[c]))
           /\ session'.toolCalls = session.toolCalls
           /\ session'.searchesUsed = session.searchesUsed
           /\ session.evidenceById \subseteq session'.evidenceById
           /\ WithinLimits(session) => WithinLimits(session')
<1>1. pending[c] \in Seq(Evidence) /\ pending[c] # <<>> /\ session \in Session
  BY DEF TypeOK, Admit
<1>2. Head(pending[c]) \in Evidence
  BY <1>1
<1> QED BY <1>1, <1>2, AdmittedType, AdmittedWithinLimits DEF Admit

-------------------------------------------------------------------------------
(* Calls, searches and evidence items stay within the limits of the session *)
(* however many calls overlap.                                              *)
THEOREM CountsWithinLimits == Spec => []WithinLimits(session)
<1>1. Init => WithinLimits(session)
  <2>1. /\ NewSession.toolCalls = 0 /\ NewSession.searchesUsed = 0
        /\ NewSession.evidenceById = {}
    BY DEF NewSession
  <2>2. IsFiniteSet({}) /\ Cardinality({}) = 0
    BY FS_EmptySet
  <2>3. WithinLimits(NewSession)
    <3>1. /\ IsFiniteSet(NewSession.evidenceById)
          /\ Cardinality(NewSession.evidenceById) = 0
      BY <2>1, <2>2
    <3> QED BY <2>1, <3>1, NoEvidenceNoChars, LimitAssumption DEF WithinLimits
  <2> QED BY <2>3 DEF Init
<1>2. ASSUME TypeOK, WithinLimits(session), [Next]_vars
      PROVE  WithinLimits(session)'
  <2>1. CASE UNCHANGED <<session, fresh>>
    <3>1. session' = session
      BY <2>1
    <3> QED BY <1>2, <3>1 DEF WithinLimits
  <2>2. ASSUME NEW c \in Calls, Dispatch(c) \/ Admit(c)
        PROVE  WithinLimits(session')
    BY <1>2, <2>2, DispatchSpends, AdmitAdds
  <2>3. WithinLimits(session)' <=> WithinLimits(session')
    BY DEF WithinLimits
  <2> QED BY <1>2, <2>1, <2>2, <2>3, SessionChanges
<1> QED BY <1>1, <1>2, TypeCorrect, PTL DEF Spec

(* Capacity is never handed back and admitted evidence never dropped. *)
THEOREM RefundsNothing == Spec => NothingIsRefunded
<1>1. ASSUME TypeOK, [Next]_vars
      PROVE  [/\ session'.toolCalls >= session.toolCalls
              /\ session'.searchesUsed >= session.searchesUsed
              /\ session.evidenceById \subseteq session'.evidenceById]_vars
  <2>1. session.toolCalls \in Nat /\ session.searchesUsed \in Nat
    BY <1>1 DEF TypeOK, Session
  <2>2. CASE UNCHANGED <<session, fresh>>
    BY <2>1, <2>2
  <2>3. CASE \E c \in Calls : Dispatch(c) \/ Admit(c)
    BY <1>1, <2>1, <2>3, DispatchSpends, AdmitAdds
  <2> QED BY <1>1, <2>2, <2>3, SessionChanges
<1> QED BY <1>1, TypeCorrect, PTL DEF Spec, NothingIsRefunded

(* A call that waits for capacity or for its read came in before the         *)
(* session's end, and its deadline is that of its two readings of the clock.  *)
DeadlinesFit ==
    \A c \in Calls :
        /\ pc[c] = "authorize" => received[c] < SessionEnd
        /\ pc[c] \in {"reserve", "await"} =>
             received[c] < SessionEnd /\ deadline[c] = authorized[c] + Timeout(c)

(* One call's step changes no reading of another; its own deadline stands    *)
(* from the authorization to the last attempt.                               *)
LEMMA DeadlinesFitStep ==
    ASSUME TypeOK, DeadlinesFit, [Next]_vars
    PROVE  DeadlinesFit'
<1> USE DEF callVars
<1>1. CASE UNCHANGED vars \/ Tick \/ Quiescent
  BY <1>1 DEF DeadlinesFit, Timeout, Remaining, vars, Tick, Quiescent
<1>2. ASSUME NEW c \in Calls, Step(c) PROVE DeadlinesFit'
  <2>1. /\ pc \in [Calls -> CallStates] /\ received \in [Calls -> Nat]
        /\ deadline \in [Calls -> Int] /\ authorized \in [Calls -> Nat] /\ now \in Nat
    BY DEF TypeOK
  <2>2. CASE Receive(c)
    <3>1. \A d \in Calls : /\ pc'[d] = IF d = c THEN "authorize" ELSE pc[d]
                           /\ received'[d] = IF d = c THEN now ELSE received[d]
                           /\ deadline'[d] = deadline[d] /\ authorized'[d] = authorized[d]
      BY <2>1, <2>2 DEF Receive
    <3>2. now < SessionEnd
      BY <2>1, <2>2, McpAssumption DEF Receive, SessionExpired
    <3> QED BY <3>1, <3>2 DEF DeadlinesFit, Timeout, Remaining
  <2>3. CASE Authorize(c)
    <3>1. \A d \in Calls : /\ pc'[d] = IF d = c THEN "reserve" ELSE pc[d]
                           /\ received'[d] = received[d]
                           /\ deadline'[d] = IF d = c THEN now + Timeout(c) ELSE deadline[d]
                           /\ authorized'[d] = IF d = c THEN now ELSE authorized[d]
      BY <2>1, <2>3 DEF Authorize
    <3>2. received[c] < SessionEnd
      BY <2>3 DEF Authorize, DeadlinesFit
    <3> QED BY <3>1, <3>2 DEF DeadlinesFit, Timeout, Remaining
  <2>4. CASE ~ Receive(c) /\ ~ Authorize(c)
    <3>1. UNCHANGED <<received, deadline, authorized>>
      BY <1>2, <2>4 DEF Step, Settle, RefuseExpired, RefuseUnauthorized, GiveUp,
         Dispatch, ReadReturns, DateReturns, CheckReturns, ReadUnavailable,
         ReadTimesOut, RetryOrFail, ReadBreaks, CancelCall, Admit, ReturnEvidence
    <3>2. \A d \in Calls : \/ pc'[d] = pc[d]
                           \/ pc'[d] \in {"done", "cancelled", "admit"}
                           \/ pc[d] = "reserve" /\ pc'[d] = "await"
                           \/ pc[d] = "await" /\ pc'[d] = "reserve"
      BY <1>2, <2>1, <2>4 DEF Step, Settle, RefuseExpired, RefuseUnauthorized, GiveUp,
         Dispatch, ReadReturns, DateReturns, CheckReturns, ReadUnavailable,
         ReadTimesOut, RetryOrFail, ReadBreaks, CancelCall, Admit, ReturnEvidence,
         Answer
    <3> QED BY <3>1, <3>2 DEF DeadlinesFit, Timeout, Remaining
  <2> QED BY <2>2, <2>3, <2>4
<1> QED BY <1>1, <1>2 DEF Next

(* Only a dispatch counts one. *)
LEMMA DispatchChanges ==
    ASSUME TypeOK, [Next]_vars, NEW c \in Calls, dispatched'[c] # dispatched[c]
    PROVE  pc[c] = "reserve" /\ now < deadline[c]
<1>1. \/ UNCHANGED dispatched
      \/ \E d \in Calls : Dispatch(d)
  BY DEF Next, Step, Settle, vars, callVars, Tick, Quiescent, RefuseExpired, Receive,
     RefuseUnauthorized, Authorize, GiveUp, ReadReturns, DateReturns, CheckReturns,
     ReadUnavailable, ReadTimesOut, RetryOrFail, ReadBreaks, CancelCall, Admit,
     ReturnEvidence
<1>2. PICK d \in Calls : Dispatch(d)
  BY <1>1
<1>3. dispatched'[c] # dispatched[c] => c = d
  BY <1>2 DEF TypeOK, Dispatch
<1> QED BY <1>2, <1>3 DEF Dispatch

(* No attempt of a call, first or retry, is dispatched once its timeout or   *)
(* the session is over, except by what passed between the two readings of    *)
(* the clock its deadline is made of.  DeadlinesFit carries the deadline     *)
(* from there to the attempt.                                                *)
THEOREM DispatchesBounded == Spec => DispatchesAreBounded
<1>1. Init => DeadlinesFit
  BY DEF Init, DeadlinesFit
<1>2. ASSUME TypeOK, DeadlinesFit, [Next]_vars
      PROVE  [\A c \in Calls : dispatched'[c] # dispatched[c] =>
                /\ received[c] < SessionEnd
                /\ now < authorized[c] + CallTimeout
                /\ now < SessionEnd + (authorized[c] - received[c])]_vars
  <2>1. ASSUME NEW c \in Calls, dispatched'[c] # dispatched[c]
        PROVE  /\ received[c] < SessionEnd
               /\ now < authorized[c] + CallTimeout
               /\ now < SessionEnd + (authorized[c] - received[c])
    <3>1. /\ now < authorized[c] + Timeout(c)
          /\ received[c] < SessionEnd
      BY <1>2, <2>1, DispatchChanges DEF DeadlinesFit
    <3>2. /\ now \in Nat /\ authorized[c] \in Nat /\ received[c] \in Nat
          /\ SessionEnd \in Nat /\ CallTimeout \in Nat
      BY <1>2, McpAssumption DEF TypeOK
    <3> QED BY <3>1, <3>2 DEF Timeout, Remaining
  <2> QED BY <2>1
<1> QED BY <1>1, <1>2, DeadlinesFitStep, TypeCorrect, PTL
        DEF Spec, DispatchesAreBounded

-------------------------------------------------------------------------------
(* What a read brought is granted and equal to the store's copy: the        *)
(* registry rejected every other answer before it was recorded.             *)
Sound(e) == DocOf[e] \in Granted /\ e \notin Forged
ReadsAreSound == \A c \in Calls : \A e \in refs[c] : Sound(e)

(* The hits of a read belong to the session's scope, whatever the retriever
   returned: the provenance check stands between a read and its use. *)
LEMMA SoundReads == Spec => []ReadsAreSound
<1>1. Init => ReadsAreSound
  BY DEF Init, ReadsAreSound
<1>2. ASSUME TypeOK, ReadsAreSound, [Next]_vars
      PROVE  ReadsAreSound'
  <2>1. \/ UNCHANGED refs
        \/ \E c \in Calls, hits \in HitLists :
              /\ HitsInScope(hits) /\ HitsTrusted(hits)
              /\ refs' = [refs EXCEPT ![c] = Range(hits)]
    BY <1>2 DEF Next, Step, Settle, vars, callVars, Tick, Quiescent,
          RefuseExpired, Receive, RefuseUnauthorized, Authorize, GiveUp, Dispatch,
          ReadReturns, DateReturns, CheckReturns, ReadUnavailable,
          ReadTimesOut, RetryOrFail, ReadBreaks, CancelCall, Admit,
          ReturnEvidence
  <2>2. ASSUME NEW hits, HitsInScope(hits), HitsTrusted(hits)
        PROVE  \A e \in Range(hits) : Sound(e)
    BY <2>2 DEF HitsInScope, HitsTrusted, Sound
  <2>3. CASE UNCHANGED refs
    BY <1>2, <2>3 DEF ReadsAreSound
  <2>4. ASSUME NEW c \in Calls, NEW hits \in HitLists,
               HitsInScope(hits), HitsTrusted(hits),
               refs' = [refs EXCEPT ![c] = Range(hits)]
        PROVE  ReadsAreSound'
    <3>1. \A d \in Calls : refs'[d] = IF d = c THEN Range(hits) ELSE refs[d]
      BY <1>2, <2>4 DEF TypeOK
    <3> QED BY <1>2, <2>2, <2>4, <3>1 DEF ReadsAreSound
  <2> QED BY <2>1, <2>3, <2>4
<1> QED BY <1>1, <1>2, TypeCorrect, PTL DEF Spec

(* Only the chunks of a sound read that are admitted reach a reply. *)
LEMMA ReplyChanges ==
    ASSUME TypeOK, [Next]_vars
    PROVE  \/ UNCHANGED reply
           \/ \E c \in Calls, r \in Reply :
                /\ reply' = [reply EXCEPT ![c] = r]
                /\ r.items \subseteq refs[c] \cap session.evidenceById
<1>1. \A why : ErrorReply(why).items = {}
  BY DEF ErrorReply
<1>2. ValueReply.items = {}
  BY DEF ValueReply, NoReply
<1>3. \A items, new : EvidenceReply(items, new).items = items
  BY DEF EvidenceReply
<1>4. \/ UNCHANGED reply
      \/ \E c \in Calls :
          \/ \E why : Answer(c, ErrorReply(why))
          \/ Answer(c, ValueReply)
          \/ Answer(c, EvidenceReply(refs[c] \cap session.evidenceById,
                                     fresh[c]))
  <2>1. ASSUME NEW c \in Calls, Settle(c)
        PROVE  \/ UNCHANGED reply
               \/ \E why : Answer(c, ErrorReply(why))
               \/ Answer(c, ValueReply)
    <3>1. CASE ReadReturns(c)
      BY <3>1 DEF ReadReturns
    <3>2. CASE DateReturns(c)
      BY <3>2 DEF DateReturns
    <3>3. CASE CheckReturns(c)
      BY <3>3 DEF CheckReturns
    <3>4. CASE ReadUnavailable(c) \/ ReadTimesOut(c)
      BY <3>4 DEF ReadUnavailable, ReadTimesOut, RetryOrFail
    <3>5. CASE ReadBreaks(c)
      BY <3>5 DEF ReadBreaks
    <3> QED BY <2>1, <3>1, <3>2, <3>3, <3>4, <3>5 DEF Settle
  <2>2. ASSUME NEW c \in Calls, Step(c), ~ Settle(c)
        PROVE  \/ UNCHANGED reply
               \/ \E why : Answer(c, ErrorReply(why))
               \/ Answer(c, EvidenceReply(refs[c] \cap session.evidenceById,
                                          fresh[c]))
    BY <2>2 DEF Step, RefuseExpired, Receive, RefuseUnauthorized, Authorize, GiveUp,
            Dispatch, CancelCall, callVars, Admit, ReturnEvidence
  <2> QED BY <2>1, <2>2 DEF Next, Tick, Quiescent, vars, callVars
<1>5. reply' \in [Calls -> Reply] /\ reply \in [Calls -> Reply]
  BY TypeStep DEF TypeOK
<1>6. ASSUME NEW c \in Calls, NEW r, Answer(c, r)
      PROVE  r \in Reply /\ reply' = [reply EXCEPT ![c] = r]
  BY <1>5, <1>6 DEF Answer
<1>7. ASSUME NEW c \in Calls, NEW r, Answer(c, r),
             r.items \subseteq refs[c] \cap session.evidenceById
      PROVE  \E d \in Calls, q \in Reply :
                /\ reply' = [reply EXCEPT ![d] = q]
                /\ q.items \subseteq refs[d] \cap session.evidenceById
  BY <1>6, <1>7
<1>8. ASSUME NEW c \in Calls, NEW why, Answer(c, ErrorReply(why))
      PROVE  ErrorReply(why).items \subseteq refs[c] \cap session.evidenceById
  BY <1>1
<1>9. ValueReply.items \subseteq {}
  BY <1>2
<1>10. \A c \in Calls :
         EvidenceReply(refs[c] \cap session.evidenceById, fresh[c]).items
           \subseteq refs[c] \cap session.evidenceById
  BY <1>3
<1> QED BY <1>4, <1>7, <1>8, <1>9, <1>10

(* Whatever text a client is given is admitted, granted and genuine. *)
THEOREM RepliesAreCitable == Spec => []RepliesQuoteAdmittedEvidence
<1>1. Init => RepliesQuoteAdmittedEvidence
  BY DEF Init, NoReply, RepliesQuoteAdmittedEvidence
<1>2. ASSUME TypeOK, ReadsAreSound, RepliesQuoteAdmittedEvidence, [Next]_vars
      PROVE  RepliesQuoteAdmittedEvidence'
  <2>1. session.evidenceById \subseteq session'.evidenceById
    BY <1>2, SessionChanges, DispatchSpends, AdmitAdds
  <2>2. CASE UNCHANGED reply
    BY <1>2, <2>1, <2>2 DEF RepliesQuoteAdmittedEvidence
  <2>3. ASSUME NEW c \in Calls, NEW r \in Reply,
               reply' = [reply EXCEPT ![c] = r],
               r.items \subseteq refs[c] \cap session.evidenceById
        PROVE  RepliesQuoteAdmittedEvidence'
    <3>1. \A e \in r.items : DocOf[e] \in Granted /\ e \notin Forged
      BY <1>2, <2>3 DEF ReadsAreSound, Sound
    <3>2. \A d \in Calls : reply'[d] = IF d = c THEN r ELSE reply[d]
      BY <1>2, <2>3 DEF TypeOK
    <3> QED BY <1>2, <2>1, <2>3, <3>1, <3>2 DEF RepliesQuoteAdmittedEvidence
  <2> QED BY <1>2, <2>2, <2>3, ReplyChanges
<1> QED BY <1>1, <1>2, TypeCorrect, SoundReads, PTL DEF Spec

-------------------------------------------------------------------------------
(* The ids a call admitted were in no call's hands before. *)
THEOREM ChunksAreNewOnce == Spec => []EachChunkIsNewOnce
<1>1. Init => EachChunkIsNewOnce
  BY DEF Init, NewSession, EachChunkIsNewOnce
<1>2. ASSUME TypeOK, EachChunkIsNewOnce, [Next]_vars
      PROVE  EachChunkIsNewOnce'
  <2>1. CASE UNCHANGED <<session, fresh>>
    BY <1>2, <2>1 DEF EachChunkIsNewOnce
  <2>2. ASSUME NEW c \in Calls, Dispatch(c)
        PROVE  EachChunkIsNewOnce'
    BY <1>2, <2>2, DispatchSpends DEF EachChunkIsNewOnce
  <2>3. ASSUME NEW c \in Calls, Admit(c)
        PROVE  EachChunkIsNewOnce'
    <3> DEFINE e == Head(pending[c])
    <3>1. CASE ~ Admissible(session, e)
      BY <1>2, <2>3, <3>1 DEF Admit, Admitted, EachChunkIsNewOnce, TypeOK
    <3>2. CASE Admissible(session, e)
      <4>1. e \notin session.evidenceById
        BY <3>2 DEF Admissible
      <4>2. session'.evidenceById = session.evidenceById \cup {e}
        BY <1>2, <2>3, <3>2 DEF Admit, Admitted, TypeOK, Session
      <4>3. fresh' = [fresh EXCEPT ![c] = fresh[c] \cup {e}]
        BY <2>3, <3>2 DEF Admit
      <4>4. \A d \in Calls : fresh'[d] = IF d = c THEN fresh[c] \cup {e}
                                          ELSE fresh[d]
        BY <1>2, <4>3 DEF TypeOK
      <4>5. \A d \in Calls : e \notin fresh[d]
        BY <1>2, <4>1 DEF EachChunkIsNewOnce
      <4> HIDE DEF e
      <4>6. \A x, y \in Calls : x # y => fresh'[x] \cap fresh'[y] = {}
        BY <1>2, <4>4, <4>5 DEF EachChunkIsNewOnce
      <4>7. ASSUME NEW x
            PROVE  (\E d \in Calls : x \in fresh'[d])
                     <=> (\E d \in Calls : x \in fresh[d]) \/ x = e
        BY <4>4
      <4>8. \A x : x \in UNION {fresh[d] : d \in Calls}
                    <=> \E d \in Calls : x \in fresh[d]
        OBVIOUS
      <4>9. \A x : x \in UNION {fresh'[d] : d \in Calls}
                    <=> \E d \in Calls : x \in fresh'[d]
        OBVIOUS
      <4>10. session'.evidenceById = UNION {fresh'[d] : d \in Calls}
        BY <1>2, <4>2, <4>7, <4>8, <4>9 DEF EachChunkIsNewOnce
      <4> QED BY <4>6, <4>10 DEF EachChunkIsNewOnce
    <3> QED BY <3>1, <3>2
  <2> QED BY <1>2, <2>1, <2>2, <2>3, SessionChanges
<1> QED BY <1>1, <1>2, TypeCorrect, PTL DEF Spec

(* Appending a new element keeps a sequence free of repetitions. *)
LEMMA InjectiveAppend ==
    ASSUME NEW S, NEW h \in Seq(S), NEW e \in S, IsInjective(h),
           e \notin Range(h)
    PROVE  IsInjective(Append(h, e))
<1>1. /\ DOMAIN Append(h, e) = 1 .. Len(h) + 1
      /\ Append(h, e)[Len(h) + 1] = e
      /\ DOMAIN h = 1 .. Len(h)
      /\ \A i \in 1 .. Len(h) : Append(h, e)[i] = h[i]
      /\ Len(h) \in Nat
  OBVIOUS
<1>2. \A i \in 1 .. Len(h) : h[i] # e
  BY <1>1 DEF Range
<1>3. \A i, j \in 1 .. Len(h) : h[i] = h[j] => i = j
  BY <1>1 DEF IsInjective
<1>4. \A i \in 1 .. Len(h) + 1 : i \in 1 .. Len(h) \/ i = Len(h) + 1
  BY <1>1
<1>5. \A i, j \in 1 .. Len(h) + 1 :
         Append(h, e)[i] = Append(h, e)[j] => i = j
  BY <1>1, <1>2, <1>3, <1>4
<1> QED BY <1>1, <1>5 DEF IsInjective

(* The containers of the session never disagree. *)
THEOREM ContainersAgree == Spec => []StoresAgree
<1>1. Init => StoresAgree
  BY DEF Init, NewSession, StoresAgree, Range, IsInjective
<1>2. ASSUME TypeOK, StoresAgree, [Next]_vars
      PROVE  StoresAgree'
  <2>1. CASE UNCHANGED <<session, fresh>>
    BY <1>2, <2>1 DEF StoresAgree
  <2>2. ASSUME NEW c \in Calls, Dispatch(c)
        PROVE  StoresAgree'
    <3>1. session'.evidence = session.evidence
          /\ session'.evidenceById = session.evidenceById
      BY <1>2, <2>2, DispatchSpends
    <3> QED BY <1>2, <3>1 DEF StoresAgree
  <2>3. ASSUME NEW c \in Calls, Admit(c)
        PROVE  StoresAgree'
    <3> DEFINE e == Head(pending[c])
    <3>1. e \in Evidence /\ session' = Admitted(session, e)
          /\ session \in Session
      BY <1>2, <2>3, AdmitAdds DEF TypeOK
    <3>2. CASE ~ Admissible(session, e)
      BY <1>2, <3>1, <3>2 DEF Admitted, StoresAgree
    <3>3. CASE Admissible(session, e)
      <4> HIDE DEF e
      <4>1. session'.evidenceById = session.evidenceById \cup {e}
            /\ session'.evidence = Append(session.evidence, e)
        BY <3>1, <3>3 DEF Admitted, Session
      <4>2. session.evidence \in Seq(Evidence)
        BY <3>1 DEF Session
      <4>3. e \notin Range(session.evidence)
        BY <1>2, <3>3 DEF Admissible, StoresAgree
      <4> QED BY <1>2, <3>1, <4>1, <4>2, <4>3, RangeWithAppend, InjectiveAppend
              DEF StoresAgree
    <3> QED BY <3>2, <3>3
  <2> QED BY <1>2, <2>1, <2>2, <2>3, SessionChanges
<1> QED BY <1>1, <1>2, TypeCorrect, PTL DEF Spec

--------------------------------------------------------------------------------
(* Whatever the calls that overlap with it, a reply quotes only what can be  *)
(* cited, and says of a chunk that it is new if no other reply does.         *)
THEOREM RepliesExact == Spec => []RepliesAreExact
<1>1. RepliesQuoteAdmittedEvidence /\ EachChunkIsNewOnce => RepliesAreExact
  BY DEF RepliesAreExact
<1> QED BY <1>1, RepliesAreCitable, ChunksAreNewOnce, PTL

-------------------------------------------------------------------------------
(* Where a call is says how many of its attempts were dispatched. *)
DispatchesFit ==
    \A c \in Calls :
        /\ pc[c] \in {"idle", "authorize"} => dispatched[c] = 0 /\ attempt[c] = 0
        /\ pc[c] = "reserve" => dispatched[c] = attempt[c]
        /\ pc[c] = "await" => dispatched[c] = attempt[c] + 1
        /\ dispatched[c] <= 2

(* What one call does leaves the places of the others as they are. *)
LEMMA DispatchesFitStep ==
    ASSUME TypeOK, DispatchesFit, [Next]_vars
    PROVE  DispatchesFit'
<1> USE DEF callVars
<1>1. CASE UNCHANGED vars \/ Tick \/ Quiescent
  BY <1>1 DEF DispatchesFit, vars, Tick, Quiescent
<1>2. ASSUME NEW c \in Calls, Step(c) PROVE DispatchesFit'
  <2>1. /\ pc \in [Calls -> CallStates] /\ attempt \in [Calls -> {0, 1}]
        /\ dispatched \in [Calls -> Nat]
    BY DEF TypeOK
  <2>2. ASSUME NEW d \in Calls, d # c
        PROVE  pc'[d] = pc[d] /\ attempt'[d] = attempt[d] /\ dispatched'[d] = dispatched[d]
    BY <1>2, <2>1, <2>2 DEF Step, Settle, RefuseExpired, Receive, RefuseUnauthorized,
       Authorize, GiveUp, Dispatch, ReadReturns, DateReturns, CheckReturns,
       ReadUnavailable, ReadTimesOut, RetryOrFail, ReadBreaks, CancelCall, Admit,
       ReturnEvidence, Answer
  <2> DEFINE Fits == /\ pc'[c] \in {"idle", "authorize"} => dispatched'[c] = 0 /\ attempt'[c] = 0
                     /\ pc'[c] = "reserve" => dispatched'[c] = attempt'[c]
                     /\ pc'[c] = "await" => dispatched'[c] = attempt'[c] + 1
                     /\ dispatched'[c] <= 2
  <2> SUFFICES Fits
    BY <2>2 DEF DispatchesFit
  <2>3. /\ pc[c] \in {"idle", "authorize"} => dispatched[c] = 0 /\ attempt[c] = 0
        /\ pc[c] = "reserve" => dispatched[c] = attempt[c]
        /\ pc[c] = "await" => dispatched[c] = attempt[c] + 1
        /\ dispatched[c] <= 2 /\ dispatched[c] \in Nat /\ attempt[c] \in {0, 1}
    BY <2>1 DEF DispatchesFit
  <2>10. CASE Receive(c)
    BY <2>1, <2>3, <2>10 DEF Receive
  <2>4. CASE RefuseExpired(c) \/ RefuseUnauthorized(c) \/ GiveUp(c) \/ ReadReturns(c)
             \/ DateReturns(c) \/ CheckReturns(c) \/ ReadBreaks(c) \/ CancelCall(c)
             \/ Admit(c) \/ ReturnEvidence(c)
    <3>1. UNCHANGED <<attempt, dispatched>>
      BY <2>4 DEF RefuseExpired, RefuseUnauthorized, GiveUp, ReadReturns, DateReturns,
         CheckReturns, ReadBreaks, CancelCall, Admit, ReturnEvidence
    <3>2. pc'[c] \in {"done", "cancelled", "admit"}
      BY <2>1, <2>4 DEF RefuseExpired, RefuseUnauthorized, GiveUp, ReadReturns,
         DateReturns, CheckReturns, ReadBreaks, CancelCall, Admit, ReturnEvidence,
         Answer
    <3> QED BY <2>3, <3>1, <3>2
  <2>5. CASE Authorize(c)
    BY <2>1, <2>3, <2>5 DEF Authorize
  <2>6. CASE Dispatch(c)
    BY <2>1, <2>3, <2>6 DEF Dispatch
  <2>7. CASE ReadUnavailable(c) \/ ReadTimesOut(c)
    <3>1. PICK code : pc[c] = "await" /\ RetryOrFail(c, code)
      BY <2>7 DEF ReadUnavailable, ReadTimesOut
    <3>2. CASE attempt[c] < Attempts - 1
      BY <2>1, <2>3, <3>1, <3>2 DEF RetryOrFail
    <3>3. CASE ~ (attempt[c] < Attempts - 1)
      BY <2>1, <2>3, <3>1, <3>3 DEF RetryOrFail, Answer
    <3> QED BY <3>2, <3>3
  <2> QED BY <1>2, <2>4, <2>5, <2>6, <2>7, <2>10 DEF Step, Settle
<1> QED BY <1>1, <1>2 DEF Next

(* The counters of the session are those of its dispatches: only a dispatch *)
(* changes either, and the request of a call is settled before the first.   *)
LEMMA PaidStep ==
    ASSUME TypeOK, DispatchesFit, EveryDispatchIsPaid, DispatchesFit', [Next]_vars
    PROVE  EveryDispatchIsPaid'
<1> DEFINE Searches == {c \in Calls : IsSearch(request[c])}
           Retried == {c \in Calls : dispatched[c] > 1}
<1>1. /\ session \in Session /\ dispatched \in [Calls -> Nat]
      /\ request \in [Calls -> Requests] /\ attempt \in [Calls -> {0, 1}]
      /\ IsFiniteSet(Calls)
  BY McpAssumption DEF TypeOK
<1>2. /\ session.toolCalls = Total(dispatched, Calls)
      /\ session.searchesUsed = Total(dispatched, Searches)
      /\ session.retries = Cardinality(Retried)
  BY <1>1 DEF EveryDispatchIsPaid, SumFunction, Total
<1>3. Searches \in SUBSET Calls /\ IsFiniteSet(Searches) /\ IsFiniteSet(Retried)
  BY <1>1, FS_Subset
<1>4. /\ \A c \in Calls : dispatched[c] \in Nat
      /\ \A c \in Searches : dispatched[c] \in Nat
      /\ DOMAIN dispatched = Calls
  BY <1>1
<1>5. ASSUME NEW t, dispatched' \in [Calls -> Nat],
             session'.toolCalls = Total(dispatched', Calls),
             session'.searchesUsed = Total(dispatched', Searches'),
             session'.retries = Cardinality(Retried')
      PROVE  EveryDispatchIsPaid'
  BY <1>5 DEF EveryDispatchIsPaid, DispatchesFit, SumFunction, Total
<1>6. CASE dispatched' = dispatched /\ request' = request
           /\ session'.toolCalls = session.toolCalls
           /\ session'.searchesUsed = session.searchesUsed
           /\ session'.retries = session.retries
  BY <1>1, <1>2, <1>5, <1>6
<1>7. ASSUME NEW c \in Calls, Authorize(c) PROVE EveryDispatchIsPaid'
  <2>1. /\ UNCHANGED <<session, dispatched>> /\ dispatched[c] = 0
        /\ \A d \in Calls : d # c => request'[d] = request[d]
    BY <1>1, <1>7 DEF Authorize, DispatchesFit
  <2>2. Searches' \ {c} = Searches \ {c} /\ Searches' \subseteq Calls
    BY <2>1
  <2>3. IsFiniteSet(Searches') /\ \A d \in Searches' : dispatched[d] \in Nat
    BY <1>1, <2>2, FS_Subset
  <2> HIDE DEF Searches
  <2>4. /\ Total(dispatched, Searches \ {c}) = Total(dispatched, Searches)
        /\ Total(dispatched, Searches' \ {c}) = Total(dispatched, Searches')
    BY <1>3, <1>4, <2>1, <2>3, TotalWithout
  <2> QED BY <1>1, <1>2, <1>5, <2>1, <2>2, <2>4
<1>8. ASSUME NEW c \in Calls, Dispatch(c) PROVE EveryDispatchIsPaid'
  <2> DEFINE n == dispatched[c] + 1
  <2>1. /\ session' = Reserved(session, request[c], attempt[c])
        /\ dispatched' = [dispatched EXCEPT ![c] = n]
        /\ request' = request /\ dispatched[c] = attempt[c]
    BY <1>8 DEF Dispatch, DispatchesFit
  <2>2. /\ session'.toolCalls = session.toolCalls + 1
        /\ session'.searchesUsed = session.searchesUsed
                                     + (IF IsSearch(request[c]) THEN 1 ELSE 0)
        /\ session'.retries = session.retries + (IF attempt[c] > 0 THEN 1 ELSE 0)
    BY <1>1, <2>1 DEF Reserved, Session
  <2>3. /\ dispatched' \in [Calls -> Nat] /\ dispatched'[c] = dispatched[c] + 1
        /\ \A d \in Calls \ {c} : dispatched'[d] = dispatched[d]
    BY <1>1, <2>1
  <2>4. dispatched' \in [Calls -> Nat]
    BY <2>3
  <2> HIDE DEF n, Searches
  <2>5. Total(dispatched', Calls) = Total(dispatched, Calls) + 1
    BY <1>1, <1>4, <2>3, TotalRaise
  <2>6. Total(dispatched', Searches) =
          IF c \in Searches THEN Total(dispatched, Searches) + 1
          ELSE Total(dispatched, Searches)
    BY <1>3, <1>4, <2>3, TotalRaise DEF Searches
  <2>7. Searches' = Searches /\ (c \in Searches <=> IsSearch(request[c]))
    BY <2>1 DEF Searches
  <2>8. Cardinality(Retried') = Cardinality(Retried) + (IF attempt[c] > 0 THEN 1 ELSE 0)
    <3>1. CASE attempt[c] > 0
      <4>1. attempt[c] = 1 /\ c \notin Retried /\ dispatched'[c] = 2
        BY <1>1, <2>1, <3>1 DEF n
      <4>2. Retried' = Retried \cup {c}
        BY <1>1, <2>1, <4>1
      <4> HIDE DEF Retried
      <4> QED BY <1>3, <3>1, <4>1, <4>2, FS_AddElement
    <3>2. CASE ~ (attempt[c] > 0)
      <4>1. dispatched[c] = 0 /\ dispatched'[c] = 1
        BY <1>1, <2>1, <3>2 DEF n
      <4>2. Retried' = Retried
        BY <1>1, <2>1, <4>1
      <4>3. Cardinality(Retried) \in Nat
        BY <1>3, FS_CardinalityType
      <4> HIDE DEF Retried
      <4> QED BY <3>2, <4>2, <4>3
    <3> QED BY <3>1, <3>2
  <2>9. Total(dispatched, Searches) \in Nat
    BY <1>3, <1>4, TotalType
  <2> HIDE DEF Retried
  <2>10. session'.searchesUsed = Total(dispatched', Searches')
    BY <1>2, <2>2, <2>6, <2>7, <2>9
  <2> QED BY <1>2, <1>5, <2>2, <2>4, <2>5, <2>8, <2>10
<1>9. ASSUME NEW c \in Calls, Admit(c) PROVE EveryDispatchIsPaid'
  <2>1. UNCHANGED <<dispatched, request>>
    BY <1>9 DEF Admit
  <2>2. session'.retries = session.retries
    BY <1>1, <1>9 DEF Admit, Admitted, Session
  <2> QED BY <1>6, <1>9, <2>1, <2>2, AdmitAdds
<1>10. \/ UNCHANGED <<session, dispatched, request>>
       \/ \E c \in Calls : Authorize(c) \/ Dispatch(c) \/ Admit(c)
  BY DEF Next, Step, Settle, vars, callVars, Tick, Quiescent, RefuseExpired,
     Receive, RefuseUnauthorized, GiveUp, ReadReturns, DateReturns, CheckReturns,
     ReadUnavailable, ReadTimesOut, RetryOrFail, ReadBreaks, CancelCall,
     ReturnEvidence
<1> QED BY <1>6, <1>7, <1>8, <1>9, <1>10

(* Whatever overlaps, fails, is retried or cancelled: the session stays      *)
(* within its limits, its characters included, and has paid for exactly the  *)
(* attempts that were dispatched, none of them more than twice.              *)
THEOREM CapacityKept == Spec => []CapacityHolds
<1>1. Init => DispatchesFit /\ EveryDispatchIsPaid
  <2> SUFFICES ASSUME Init PROVE DispatchesFit /\ EveryDispatchIsPaid
    OBVIOUS
  <2>1. /\ dispatched = [c \in Calls |-> 0] /\ DOMAIN dispatched = Calls
        /\ session.toolCalls = 0 /\ session.searchesUsed = 0 /\ session.retries = 0
    BY DEF Init, NewSession
  <2>2. IsFiniteSet(Calls)
    BY McpAssumption
  <2>3. ASSUME NEW S \in SUBSET Calls PROVE SumFunctionOnSet(dispatched, S) = 0
    <3>1. IsFiniteSet(S) /\ \A x \in S : dispatched[x] = 0
      BY <2>1, <2>2, FS_Subset
    <3> QED BY <3>1, TotalNothing DEF Total
  <2>4. SumFunction(dispatched) = 0
    BY <2>1, <2>3 DEF SumFunction
  <2>5. {c \in Calls : dispatched[c] > 1} = {}
    BY <2>1
  <2>6. SumFunctionOnSet(dispatched, {c \in Calls : IsSearch(request[c])}) = 0
    BY <2>3
  <2>7. DispatchesFit
    BY DEF Init, DispatchesFit
  <2>8. \A c \in Calls : dispatched[c] <= 2
    BY <2>1
  <2> QED BY <2>1, <2>4, <2>5, <2>6, <2>7, <2>8, FS_EmptySet DEF EveryDispatchIsPaid
<1>2. WithinLimits(session) => LimitsHold
  BY DEF WithinLimits, LimitsHold
<1> QED BY <1>1, <1>2, TypeCorrect, CountsWithinLimits, DispatchesFitStep, PaidStep, PTL
        DEF Spec, CapacityHolds

===============================================================================
