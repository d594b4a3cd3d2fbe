------------------------------ MODULE ToolPolicy ------------------------------
(***************************************************************************)
(* The tool policy shared by every caller of ToolExecutor: what a request  *)
(* must satisfy before capacity is reserved, what a dispatched attempt     *)
(* costs, which hits a session admits, and how often a read is tried.      *)
(*                                                                         *)
(* These are operators on the value of a session; the modules that extend  *)
(* this one (McpSession, V2Graph) decide when each is applied and who else *)
(* may run in between.  A chunk is one element of Evidence: its evidence   *)
(* id is a digest of the chunk, so chunk and id are the same thing here.   *)
(***************************************************************************)
EXTENDS Integers, Sequences, FiniteSets, SequencesExt

CONSTANTS
    Docs,               \* documents of the loaded index
    Granted,            \* session.allowed: the documents granted at start
    Evidence,           \* chunks a retriever may return
    DocOf,              \* the document of each chunk
    Forged,             \* chunks that differ from the store's copy
    Size,               \* len(chunk.text)
    Queries,            \* texts a search may ask for
    MaxToolCalls, MaxSearches, MaxRetries,
    MaxEvidenceItems, MaxEvidenceChars,
    ReservedToolCalls   \* held back for the caller's own gate

ASSUME ScopeAssumption ==
    /\ Granted \subseteq Docs
    /\ DocOf \in [Evidence -> Docs]
    /\ Forged \subseteq Evidence
    /\ Size \in [Evidence -> Nat]

ASSUME LimitAssumption ==
    /\ MaxToolCalls \in Nat
    /\ MaxSearches \in Nat
    /\ MaxRetries \in Int
    /\ MaxEvidenceItems \in Nat
    /\ MaxEvidenceChars \in Nat
    /\ ReservedToolCalls \in Nat

Lookups == {"retrieve_clause", "extract_definition"}
Tools == Lookups \cup {"document_search", "calculate_date", "verify_citation"}

(***************************************************************************)
(* A tool request as Pydantic and the registry see it.  docs are the       *)
(* documents it names (for a search the narrowed doc_ids), current says    *)
(* that its version id is the granted snapshot, cites are the evidence ids *)
(* it names (rule_evidence_ids of a date, evidence_ids of a check) and     *)
(* wellFormed that its arguments pass the schema.                          *)
(***************************************************************************)
RequestOf(names) ==
    [tool: names, docs: SUBSET Docs, current: BOOLEAN,
     cites: SUBSET Evidence, query: Queries, wellFormed: BOOLEAN]

Request == RequestOf(Tools)

Session ==
    [toolCalls: Nat, searchesUsed: Nat, retries: Nat,
     evidenceById: SUBSET Evidence, evidence: Seq(Evidence)]

NewSession ==
    [toolCalls |-> 0, searchesUsed |-> 0, retries |-> 0,
     evidenceById |-> {}, evidence |-> <<>>]

IsSearch(r) == r.tool = "document_search"

\* Only a search leaves the event loop (asyncio.to_thread); the other tools
\* read the in-memory store and cannot time out, fail or be cancelled midway.
Suspends(r) == IsSearch(r)

(* Why a request is refused before capacity is reserved, and when it is. *)
AuthorizeErrors == {"invalid_arguments", "document_not_allowed",
                    "version_not_allowed", "missing_governing_evidence"}
Refusals == {"tool_budget_exhausted", "search_budget_exhausted"}

(***************************************************************************)
(* ToolExecutor.authorize: the reason a request is refused before any      *)
(* capacity is reserved, or "none".                                        *)
(***************************************************************************)
AuthorizeError(s, r) ==
    CASE ~ r.wellFormed -> "invalid_arguments"
      [] r.tool \in Lookups \cup {"document_search"}
            /\ ~ r.docs \subseteq Granted -> "document_not_allowed"
      [] r.tool \in Lookups /\ ~ r.current -> "version_not_allowed"
      [] r.tool = "calculate_date"
            /\ (r.cites = {} \/ ~ r.cites \subseteq s.evidenceById)
               -> "missing_governing_evidence"
      [] OTHER -> "none"

(***************************************************************************)
(* ToolExecutor._reserve: why an attempt is refused, or what it consumes.  *)
(***************************************************************************)
Refusal(s, r) ==
    CASE s.toolCalls >= MaxToolCalls - ReservedToolCalls
             -> "tool_budget_exhausted"
      [] IsSearch(r) /\ s.searchesUsed >= MaxSearches
             -> "search_budget_exhausted"
      [] OTHER -> "none"

\* Mutation: a retry rides on the first attempt's reservation.
ReservedFreeRetry(s, r, attempt) ==
    IF attempt > 0 THEN [s EXCEPT !.retries = @ + 1]
    ELSE [s EXCEPT !.toolCalls = @ + 1,
                   !.searchesUsed = IF IsSearch(r) THEN @ + 1 ELSE @]

Reserved(s, r, attempt) ==
    [s EXCEPT !.toolCalls = @ + 1,
              !.retries = IF attempt > 0 THEN @ + 1 ELSE @,
              !.searchesUsed = IF IsSearch(r) THEN @ + 1 ELSE @]

\* min(1, max(0, max_retries)) + 1
Attempts == IF MaxRetries > 0 THEN 2 ELSE 1

(***************************************************************************)
(* ToolExecutor._admit: which hit enters the session.                      *)
(***************************************************************************)
EvidenceChars(s) ==
    SumFunction([i \in DOMAIN s.evidence |-> Size[s.evidence[i]]])

Admissible(s, e) ==
    /\ e \notin s.evidenceById
    /\ Cardinality(s.evidenceById) < MaxEvidenceItems
    /\ EvidenceChars(s) + Size[e] <= MaxEvidenceChars

Admitted(s, e) ==
    IF Admissible(s, e)
    THEN [s EXCEPT !.evidenceById = @ \cup {e}, !.evidence = Append(@, e)]
    ELSE s

(***************************************************************************)
(* ToolRegistry.execute, after the read: hits outside the grant or unlike  *)
(* the store's copy reject the whole call.                                 *)
(***************************************************************************)
HitsInScope(hits) == \A e \in Range(hits) : DocOf[e] \in Granted
HitsTrusted(hits) == Range(hits) \cap Forged = {}

\* What a lookup can return is read from the store itself.
LookupHits(r, hits) ==
    \A e \in Range(hits) : DocOf[e] \in r.docs /\ e \notin Forged

===============================================================================
