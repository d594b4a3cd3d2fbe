\* Four messages, a queue of two and four observed states: the queue is full
\* when a run ends, and a scope is asked for twice.
SPECIFICATION FairSpec
CONSTANTS
    search = search  draft = draft
    Labels = {search, draft}
    ManyDocuments = TRUE
    MaxClarifications = 2
    Capacity = 2
    MaxMessages = 4
    MaxObserved = 4
INVARIANTS OneRunPerTask OutcomeFollowsRun ProgressPrecedesOutcome
PROPERTIES EveryExecutionSettles
CHECK_DEADLOCK FALSE
