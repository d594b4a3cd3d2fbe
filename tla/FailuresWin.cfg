\* Can a correction make a failed run a win?
SPECIFICATION Spec
CONSTANTS
    None = None
    Tasks = {t1, t2}
    Opinions <- TwoOpinions
    Judged = {}
    MaxReports = 2
    MaxEdits = 0
    MaxRounds = 2
INVARIANT FailuresDoNotWin
CHECK_DEADLOCK FALSE
