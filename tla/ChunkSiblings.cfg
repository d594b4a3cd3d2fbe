CONSTANTS
  None = None
  Sources = {s1, s2}
  MaxEditions = 2
  MaxIngests = 2
  MaxBuilds = 2
  Cases = {t1}
  Opinions <- SomeOpinions
  Judged = {"v2"}
  MaxReports = 3
  MaxEdits = 1
  MaxRounds = 1
  Runs = {r1, r2}
  Agents = {a1, a2}
  Scripts = {x1}
  MaxTraces = 3
  Suites <- SomeSuites
  Schedules = {0, 1, 2}
  LiveTasks = 1
  IndexedArms = {"rrf_hybrid", "dense"}
  DefaultArm = "rrf_hybrid"
  MaxIndexes = 3
  MaxServerStarts = 1
  Searches <- SomeSearches
  Rankings <- SomeRankings
  Decisions <- SomeDecisions
  Ablations <- SomeAblations
  Checks <- SomeChecks
  Journals <- SomeJournals
  MaxHeadingChars = 4
  MaxChars = 6
  MinChars = 2
  RrfK = 1
  DepthFactor = 2
  OverFetch = 2
  MinFetch = 1
  RerankDepth = 2
  t1 = t1  t2 = t2  t3 = t3
  Tasks <- ThreeTasks
  Settings = {agreed, changed}
  Cli = TRUE
  AttemptCap = 4
  MaxCalls = 2
  MaxStarts = 3
  c1 = c1  c2 = c2  c3 = c3  c4 = c4
  Calls = {c1, c2, c3, c4}
  Estimate <- FourCalls
  Usages <- SomeUsages
  MaxAttempts = 3
  MaxInputPerCall = 3  MaxOutputPerCall = 2
  MaxTotalInput = 5  MaxTotalOutput = 6  MaxCost = 32
  InputPrice = 1  OutputPrice = 5
  OlderLedgers <- SomeOlderLedgers
  MaxInterrupts = 2
  Chunks <- MCChunks
  LocationOf <- MCLocationOf
  Size <- MCSize
  TermsIn <- MCTermsIn
  Referents <- MCReferents
  Subsections <- MCSubsections
  Questions <- MCQuestions
  Citations <- MCCitations
  Locatable = {"pageA", "pageB", "docB", "foreign"}
  Permitted = {"pageA", "pageB", "docB", "ghost"}
  Grounds <- MCGrounds
  Drafts <- MCDrafts
  JudgeDecisions <- MCDecisions
  Budgets <- MCBudgets
  Gates = {TRUE, FALSE}
INIT StartOfAll
NEXT NextOfAll
INVARIANT SiblingsStayApart
