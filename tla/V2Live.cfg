\* The offline planner and a live planner and writer under tight budgets, which may never answer.
SPECIFICATION FairSpec
CONSTANTS
    e1 = e1  e2 = e2  e3 = e3  granted = granted  foreign = foreign
    Docs <- MCDocs
    Granted <- MCGranted
    Evidence <- MCEvidence
    DocOf <- MCDocOf
    Size <- MCSize
    Forged <- MCForged
    Queries <- MCQueries
    FirstQuery = "q1"  SecondQuery = "q2"
    Referencing <- MCReferencing
    AsksDefinition = TRUE
    Clients = {"stub", "live"}
    Actions <- MCActions
    Drafts <- MCDrafts
    MaxToolCalls = 4  MaxSearches = 2  MaxRetries = 1
    MaxEvidenceItems = 1  MaxEvidenceChars = 2
    ReservedToolCalls = 1
    MaxHits = 2  MaxModelCalls = 4  MaxRepairAttempts = 1
INVARIANTS BudgetsHold GateIsReachable JournalCoversDispatches
    LostCallsShow
PROPERTIES KeepsContract RunTerminates
