\* Two overlapping calls of every kind, a session that ends at tick 1, and reads
\* that may never return.
SPECIFICATION FairSpec
CONSTANTS
    c1 = c1  c2 = c2  e1 = e1  e2 = e2  e3 = e3  e4 = e4  e5 = e5
    granted = granted  foreign = foreign
    Docs <- MCDocs
    Granted <- MCGranted
    Evidence <- MCEvidence
    DocOf <- MCDocOf
    Size <- MCSize
    Forged <- MCForged
    Queries <- MCQueries
    Calls = {c1, c2}
    Requests <- MixedRequests
    MaxToolCalls = 3  MaxSearches = 2  MaxRetries = 1
    MaxEvidenceItems = 2  MaxEvidenceChars = 3
    ReservedToolCalls = 0
    MaxHits = 2  CallTimeout = 2  SessionEnd = 1
    MaxDelay = 1  MaxNow = 2
INVARIANTS CapacityHolds RepliesAreExact
PROPERTIES DispatchesAreBounded EveryCallIsAnswered
