\* Is a citation that passes always one of evidence the writer was shown?
SPECIFICATION ResearchSpec
CONSTANTS
    Chunks <- MCChunks
    LocationOf <- MCLocationOf
    Size <- MCSize
    TermsIn <- MCTermsIn
    Referents <- MCReferents
    Subsections <- MCSubsections
    Questions <- MCQuestions
    Citations <- MCCitations
    Locatable = {"pageA", "pageB", "docB", "foreign"}
    Permitted = {"pageA", "pageB", "docB", "ghost"}
    Grounds <- MCGrounds
    Drafts <- MCDrafts
    JudgeDecisions <- MCDecisions
    Budgets <- MCBudgets
    Gates = {TRUE, FALSE}
INVARIANT CitationsWereShown
