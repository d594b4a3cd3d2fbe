------------------------------ MODULE McpSession ------------------------------
(***************************************************************************)
(* One MCP server process: several tool calls run concurrently on a single *)
(* ToolSession.  ContractToolServer.call checks the session lifetime and   *)
(* the granted scope, then ToolExecutor.execute reserves capacity, awaits  *)
(* the read with the call's deadline, retries once and admits the hits one *)
(* by one.                                                                 *)
(*                                                                         *)
(* An action is one section of code under session.lock, or one stretch     *)
(* between two awaits.  The event loop interleaves calls only at the       *)
(* await; the lock promises the finer interleaving checked here, which     *)
(* includes the event loop's.  tool_results and calculations, which the    *)
(* server records and never reads, are left out.                           *)
(***************************************************************************)
EXTENDS ToolPolicy

CONSTANTS
    Calls,          \* tool calls clients make, in any order and overlapping
    Requests,       \* the requests they choose from
    MaxHits,        \* bound on the hits of one read (top_k, at most 5 or 10)
    CallTimeout,    \* call_timeout_seconds, in ticks
    SessionEnd,     \* end of the session lifetime; beyond MaxNow when None
    MaxDelay,       \* bound on the ticks before a call is authorized
    MaxNow          \* bound on the clock

ASSUME McpAssumption ==
    /\ IsFiniteSet(Calls)       \* one process serves so many
    /\ Requests \subseteq Request
    /\ Requests # {}
    /\ MaxHits \in Nat
    /\ CallTimeout \in Nat \ {0}
    /\ SessionEnd \in Nat
    /\ MaxDelay \in Nat
    /\ MaxNow \in Nat
    /\ ReservedToolCalls = 0    \* MCP holds nothing back for a final gate

VARIABLES
    session,    \* the process's ToolSession
    now,        \* monotonic()
    pc,         \* where each call is
    request,    \* its validated payload, once authorized
    received,   \* when its remaining lifetime was read
    deadline,   \* its deadline_at
    attempt,    \* index of the attempt in the retry loop
    lastError,  \* error code of the previous attempt
    snapshot,   \* evidence ids copied when the attempt was dispatched
    refs,       \* result.evidence_refs of the answered read
    pending,    \* hits still to be admitted
    fresh,      \* ids this call admitted
    reply,      \* what the client receives
    authorized, \* history: when its deadline was computed
    dispatched  \* history: attempts of this call that reached the registry

callVars == <<request, received, deadline, authorized, attempt, lastError,
              snapshot, refs, pending, fresh, reply>>
vars == <<session, now, pc, callVars, dispatched>>

CallStates == {"idle", "authorize", "reserve", "await", "admit", "done",
               "cancelled"}

ReadErrors == {"read_timeout", "read_unavailable"}
Codes == {"none", "session_expired", "deadline_exhausted", "tool_unavailable",
          "unhandled_exception", "tool_scope_violation", "unknown_evidence",
          "unsupported_convention", "date_out_of_range"}
            \cup AuthorizeErrors \cup Refusals \cup ReadErrors

Reply == [kind: {"none", "error", "value", "evidence"}, code: Codes,
          items: SUBSET Evidence, fresh: SUBSET Evidence]

NoReply == [kind |-> "none", code |-> "none", items |-> {}, fresh |-> {}]

ErrorReply(why) ==
    [kind |-> "error", code |-> why, items |-> {}, fresh |-> {}]
ValueReply == [NoReply EXCEPT !.kind = "value"]
EvidenceReply(items, new) ==
    [kind |-> "evidence", code |-> "none", items |-> items, fresh |-> new]

HitLists == {h \in BoundedSeq(Evidence, MaxHits) : IsInjective(h)}

NoRequest == CHOOSE r \in Requests : TRUE

Init ==
    /\ session = NewSession
    /\ now = 0
    /\ pc = [c \in Calls |-> "idle"]
    /\ request = [c \in Calls |-> NoRequest]
    /\ received = [c \in Calls |-> 0]
    /\ deadline = [c \in Calls |-> 0]
    /\ authorized = [c \in Calls |-> 0]
    /\ attempt = [c \in Calls |-> 0]
    /\ lastError = [c \in Calls |-> "none"]
    /\ snapshot = [c \in Calls |-> {}]
    /\ refs = [c \in Calls |-> {}]
    /\ pending = [c \in Calls |-> <<>>]
    /\ fresh = [c \in Calls |-> {}]
    /\ reply = [c \in Calls |-> NoReply]
    /\ dispatched = [c \in Calls |-> 0]

-------------------------------------------------------------------------------
(* The call ends with this answer. *)
Answer(c, r) ==
    /\ pc' = [pc EXCEPT ![c] = "done"]
    /\ reply' = [reply EXCEPT ![c] = r]

SessionExpired == now >= SessionEnd

(* remaining_lifetime is read once, before the call is authorized. *)
RefuseExpired(c) ==
    /\ pc[c] = "idle"
    /\ SessionExpired
    /\ Answer(c, ErrorReply("session_expired"))
    /\ UNCHANGED <<session, now, request, received, deadline, authorized,
                   attempt, lastError, snapshot, refs, pending, fresh,
                   dispatched>>

Receive(c) ==
    /\ pc[c] = "idle"
    /\ ~ SessionExpired
    /\ received' = [received EXCEPT ![c] = now]
    /\ pc' = [pc EXCEPT ![c] = "authorize"]
    /\ UNCHANGED <<session, now, request, deadline, authorized, attempt,
                   lastError, snapshot, refs, pending, fresh, reply,
                   dispatched>>

RefuseUnauthorized(c) ==
    /\ pc[c] = "authorize"
    /\ \E r \in Requests :
        /\ AuthorizeError(session, r) # "none"
        /\ Answer(c, ErrorReply(AuthorizeError(session, r)))
    /\ UNCHANGED <<session, now, request, received, deadline, authorized,
                   attempt, lastError, snapshot, refs, pending, fresh,
                   dispatched>>

Remaining(c) == SessionEnd - received[c]

\* Mutation: the call timeout alone, not the remaining lifetime.
TimeoutIgnoringLifetime(c) == CallTimeout

(* remaining is None or positive, and as it was when the call came in. *)
Timeout(c) == IF CallTimeout < Remaining(c) THEN CallTimeout ELSE Remaining(c)

(* The timeout runs from a later reading of the clock. *)
Authorize(c) ==
    /\ pc[c] = "authorize"
    /\ \E r \in Requests :
        /\ AuthorizeError(session, r) = "none"
        /\ request' = [request EXCEPT ![c] = r]
    /\ deadline' = [deadline EXCEPT ![c] = now + Timeout(c)]
    /\ authorized' = [authorized EXCEPT ![c] = now]
    /\ pc' = [pc EXCEPT ![c] = "reserve"]
    /\ UNCHANGED <<session, now, received, attempt, lastError, snapshot, refs,
                   pending, fresh, reply, dispatched>>

(* A stop before dispatch reports the previous attempt's error if it has one. *)
StopCode(c, reason) == IF lastError[c] # "none" THEN lastError[c] ELSE reason

GiveUp(c) ==
    /\ pc[c] = "reserve"
    /\ \/ /\ now >= deadline[c]
          /\ Answer(c, ErrorReply(StopCode(c, "deadline_exhausted")))
       \/ /\ now < deadline[c]
          /\ Refusal(session, request[c]) # "none"
          /\ Answer(c, ErrorReply(StopCode(c, Refusal(session, request[c]))))
    /\ UNCHANGED <<session, now, request, received, deadline, authorized,
                   attempt, lastError, snapshot, refs, pending, fresh,
                   dispatched>>

Dispatch(c) ==
    /\ pc[c] = "reserve"
    /\ now < deadline[c]
    /\ Refusal(session, request[c]) = "none"
    /\ session' = Reserved(session, request[c], attempt[c])
    /\ snapshot' = [snapshot EXCEPT ![c] = session.evidenceById]
    /\ dispatched' = [dispatched EXCEPT ![c] = @ + 1]
    /\ pc' = [pc EXCEPT ![c] = "await"]
    /\ UNCHANGED <<now, request, received, deadline, authorized, attempt,
                   lastError, refs, pending, fresh, reply>>

-------------------------------------------------------------------------------
(* What the awaited registry call comes back with. *)
ReadReturns(c) ==
    /\ pc[c] = "await"
    /\ request[c].tool \in Lookups \cup {"document_search"}
    /\ \E hits \in HitLists :
        /\ IsSearch(request[c]) \/ LookupHits(request[c], hits)
        /\ IF HitsInScope(hits) /\ HitsTrusted(hits)
           THEN /\ refs' = [refs EXCEPT ![c] = Range(hits)]
                /\ pending' = [pending EXCEPT ![c] = hits]
                /\ pc' = [pc EXCEPT ![c] = "admit"]
                /\ UNCHANGED reply
           ELSE /\ Answer(c, ErrorReply("tool_scope_violation"))
                /\ UNCHANGED <<refs, pending>>
    /\ UNCHANGED <<session, now, request, received, deadline, authorized,
                   attempt, lastError, snapshot, fresh, dispatched>>

DateReturns(c) ==
    /\ pc[c] = "await"
    /\ request[c].tool = "calculate_date"
    /\ \E r \in {ValueReply} \cup
                {ErrorReply(e) : e \in {"unsupported_convention",
                                        "date_out_of_range"}} : Answer(c, r)
    /\ UNCHANGED <<session, now, request, received, deadline, authorized,
                   attempt, lastError, snapshot, refs, pending, fresh,
                   dispatched>>

CheckReturns(c) ==
    /\ pc[c] = "await"
    /\ request[c].tool = "verify_citation"
    /\ Answer(c, IF request[c].cites \subseteq snapshot[c]
                 THEN ValueReply ELSE ErrorReply("unknown_evidence"))
    /\ UNCHANGED <<session, now, request, received, deadline, authorized,
                   attempt, lastError, snapshot, refs, pending, fresh,
                   dispatched>>

(* A retryable failure is tried once more, if the loop has an attempt left. *)
RetryOrFail(c, code) ==
    /\ lastError' = [lastError EXCEPT ![c] = code]
    /\ IF attempt[c] < Attempts - 1
       THEN /\ attempt' = [attempt EXCEPT ![c] = @ + 1]
            /\ pc' = [pc EXCEPT ![c] = "reserve"]
            /\ UNCHANGED reply
       ELSE /\ Answer(c, ErrorReply(code))
            /\ UNCHANGED attempt
    /\ UNCHANGED <<session, now, request, received, deadline, authorized,
                   snapshot, refs, pending, fresh, dispatched>>

ReadUnavailable(c) ==
    /\ pc[c] = "await"
    /\ Suspends(request[c])
    /\ RetryOrFail(c, "read_unavailable")

\* Mutation: the retry is awaited without a timeout.
ReadTimesOutOnce(c) ==
    /\ pc[c] = "await"
    /\ Suspends(request[c])
    /\ now >= deadline[c]
    /\ attempt[c] = 0
    /\ RetryOrFail(c, "read_timeout")

ReadTimesOut(c) ==
    /\ pc[c] = "await"
    /\ Suspends(request[c])
    /\ now >= deadline[c]
    /\ RetryOrFail(c, "read_timeout")

(* RuntimeError is a failed tool; any other exception leaves the executor. *)
ReadBreaks(c) ==
    /\ pc[c] = "await"
    /\ Suspends(request[c])
    /\ \E code \in {"tool_unavailable", "unhandled_exception"} :
          Answer(c, ErrorReply(code))
    /\ UNCHANGED <<session, now, request, received, deadline, authorized,
                   attempt, lastError, snapshot, refs, pending, fresh,
                   dispatched>>

(* The client cancels: the reservation made before the await stays spent. *)
CancelCall(c) ==
    /\ pc[c] = "await"
    /\ Suspends(request[c])
    /\ pc' = [pc EXCEPT ![c] = "cancelled"]
    /\ UNCHANGED <<session, now, callVars, dispatched>>

-------------------------------------------------------------------------------
Admit(c) ==
    /\ pc[c] = "admit"
    /\ pending[c] # <<>>
    /\ LET e == Head(pending[c]) IN
        /\ session' = Admitted(session, e)
        /\ fresh' = [fresh EXCEPT ![c] =
                        IF Admissible(session, e) THEN @ \cup {e} ELSE @]
    /\ pending' = [pending EXCEPT ![c] = Tail(@)]
    /\ UNCHANGED <<now, pc, request, received, deadline, authorized, attempt,
                   lastError, snapshot, refs, reply, dispatched>>

\* Mutation: every hit's text is returned, admitted or not.
ReturnEveryHit(c) ==
    /\ pc[c] = "admit"
    /\ pending[c] = <<>>
    /\ Answer(c, EvidenceReply(refs[c], fresh[c]))
    /\ UNCHANGED <<session, now, request, received, deadline, authorized,
                   attempt, lastError, snapshot, refs, pending, fresh,
                   dispatched>>

(* evidence_call: only admitted text is returned, the rest is withheld. *)
ReturnEvidence(c) ==
    /\ pc[c] = "admit"
    /\ pending[c] = <<>>
    /\ Answer(c, EvidenceReply(refs[c] \cap session.evidenceById, fresh[c]))
    /\ UNCHANGED <<session, now, request, received, deadline, authorized,
                   attempt, lastError, snapshot, refs, pending, fresh,
                   dispatched>>

Tick ==
    /\ now < MaxNow
    /\ \A c \in Calls : pc[c] = "authorize" => now < received[c] + MaxDelay
    /\ now' = now + 1
    /\ UNCHANGED <<session, pc, callVars, dispatched>>

(* The server stays up when every call of the model has been answered. *)
Quiescent ==
    /\ \A c \in Calls : pc[c] \in {"done", "cancelled"}
    /\ UNCHANGED vars

Settle(c) ==
    \/ ReadReturns(c) \/ DateReturns(c) \/ CheckReturns(c)
    \/ ReadUnavailable(c) \/ ReadTimesOut(c) \/ ReadBreaks(c)

Step(c) ==
    \/ RefuseExpired(c) \/ Receive(c) \/ RefuseUnauthorized(c) \/ Authorize(c)
    \/ GiveUp(c) \/ Dispatch(c) \/ Settle(c) \/ CancelCall(c)
    \/ Admit(c) \/ ReturnEvidence(c)

Next == Tick \/ Quiescent \/ \E c \in Calls : Step(c)

Spec == Init /\ [][Next]_vars

(***************************************************************************)
(* The event loop runs a ready call, the clock advances, and wait_for ends *)
(* a read at its deadline.  A read itself may never come back, and nobody  *)
(* has to call or cancel.                                                  *)
(***************************************************************************)
CallFairness(c) ==
    /\ WF_vars(Authorize(c) \/ RefuseUnauthorized(c))
    /\ WF_vars(GiveUp(c))
    /\ WF_vars(Dispatch(c))
    /\ WF_vars(DateReturns(c))
    /\ WF_vars(CheckReturns(c))
    /\ WF_vars(pc[c] = "await" /\ ~ Suspends(request[c]) /\ ReadReturns(c))
    /\ WF_vars(ReadTimesOut(c))
    /\ WF_vars(Admit(c))
    /\ WF_vars(ReturnEvidence(c))

FairSpec == Spec /\ WF_vars(Tick) /\ \A c \in Calls : CallFairness(c)

-------------------------------------------------------------------------------
TypeOK ==
    /\ session \in Session
    /\ now \in Nat
    /\ pc \in [Calls -> CallStates]
    /\ request \in [Calls -> Requests]
    /\ received \in [Calls -> Nat]
    /\ deadline \in [Calls -> Int]
    /\ authorized \in [Calls -> Nat]
    /\ attempt \in [Calls -> {0, 1}]
    /\ lastError \in [Calls -> {"none"} \cup ReadErrors]
    /\ snapshot \in [Calls -> SUBSET Evidence]
    /\ refs \in [Calls -> SUBSET Evidence]
    /\ pending \in [Calls -> Seq(Evidence)]
    /\ fresh \in [Calls -> SUBSET Evidence]
    /\ dispatched \in [Calls -> Nat]
    /\ reply \in [Calls -> Reply]

(***************************************************************************)
(* However calls overlap, the session never spends more than its limits    *)
(* (test_concurrent_calls_cannot_overspend and                             *)
(* test_concurrent_admission_respects_evidence_limit try one schedule).    *)
(***************************************************************************)
LimitsHold ==
    /\ session.toolCalls <= MaxToolCalls
    /\ session.searchesUsed <= MaxSearches
    /\ Cardinality(session.evidenceById) <= MaxEvidenceItems
    /\ EvidenceChars(session) <= MaxEvidenceChars

(***************************************************************************)
(* "Each dispatched attempt consumes capacity, including failures and      *)
(* retries": the counters are exactly what was dispatched, so no attempt   *)
(* is free, none is paid twice and a cancelled or failed one is not        *)
(* refunded.  No call is dispatched more than twice.                       *)
(***************************************************************************)
EveryDispatchIsPaid ==
    /\ session.toolCalls = SumFunction(dispatched)
    /\ session.searchesUsed =
          SumFunctionOnSet(dispatched, {c \in Calls : IsSearch(request[c])})
    /\ session.retries = Cardinality({c \in Calls : dispatched[c] > 1})
    /\ \A c \in Calls : dispatched[c] <= 2

(***************************************************************************)
(* The capacity of a session is paid exactly and never exceeded, however   *)
(* its calls overlap, fail, are retried or cancelled.                      *)
(***************************************************************************)
CapacityHolds == LimitsHold /\ EveryDispatchIsPaid

(***************************************************************************)
(* evidence_by_id, retrieved and evidence are three containers filled in   *)
(* one critical section; they hold the same chunks, each once.             *)
(***************************************************************************)
StoresAgree ==
    /\ Range(session.evidence) = session.evidenceById
    /\ IsInjective(session.evidence)

(***************************************************************************)
(* The server returns text only of chunks it has admitted, all granted and *)
(* equal to the store's copy, so whatever a client quotes can be cited.    *)
(***************************************************************************)
RepliesQuoteAdmittedEvidence ==
    \A c \in Calls :
        /\ reply[c].items \subseteq session.evidenceById
        /\ \A e \in reply[c].items : DocOf[e] \in Granted /\ e \notin Forged

(***************************************************************************)
(* newly_admitted is true for one reply per chunk: two overlapping calls   *)
(* that retrieve the same chunk never both claim it, and every admitted    *)
(* chunk is claimed by the call that admitted it.                          *)
(***************************************************************************)
EachChunkIsNewOnce ==
    /\ \A c, d \in Calls : c # d => fresh[c] \cap fresh[d] = {}
    /\ session.evidenceById = UNION {fresh[c] : c \in Calls}

(***************************************************************************)
(* What overlapping replies say of evidence is exact: the text in them is  *)
(* citable, and each chunk is new in one of them.                          *)
(***************************************************************************)
RepliesAreExact == RepliesQuoteAdmittedEvidence /\ EachChunkIsNewOnce

(***************************************************************************)
(* Capacity is never handed back and admitted evidence never dropped: a    *)
(* client told its budget is exhausted is not served later, and evidence   *)
(* ids it was given stay valid.                                            *)
(***************************************************************************)
NothingIsRefunded ==
    [][/\ session'.toolCalls >= session.toolCalls
       /\ session'.searchesUsed >= session.searchesUsed
       /\ session.evidenceById \subseteq session'.evidenceById]_vars

(***************************************************************************)
(* "A call is bounded by the smaller of its timeout and remaining session  *)
(* lifetime": an attempt, a retry too, is dispatched only for a call that  *)
(* came in before the session's end, within the timeout of the call, and   *)
(* not after that end, except by less than passed between the two readings *)
(* of the clock: remaining is read when the call comes in, and counts from *)
(* its authorization.                                                      *)
(***************************************************************************)
DispatchesAreBounded ==
    [][\A c \in Calls : dispatched'[c] # dispatched[c] =>
         /\ received[c] < SessionEnd
         /\ now < authorized[c] + CallTimeout
         /\ now < SessionEnd + (authorized[c] - received[c])]_vars

(***************************************************************************)
(* A call the server has accepted is answered even if its read hangs: the  *)
(* lock is not held over the await and wait_for ends it at the deadline.   *)
(***************************************************************************)
EveryCallIsAnswered ==
    \A c \in Calls : pc[c] = "authorize" ~> pc[c] \in {"done", "cancelled"}

===============================================================================
