\* The same task; a cancellation while the progress is flushed.
SPECIFICATION Spec
CONSTANTS
    search = search  draft = draft
    Labels = {search, draft}
    ManyDocuments = TRUE
    MaxClarifications = 2
    Capacity = 2
    MaxMessages = 4
    MaxObserved = 4
INVARIANTS CanceledIsFinal
CHECK_DEADLOCK FALSE
