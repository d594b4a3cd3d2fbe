\* Processes start while the run writes or after it died, also at one time.
SPECIFICATION FairSpec
CONSTANTS
    s1 = s1  s2 = s2
    Starters = {s1, s2}
    MaxLines = 3
INVARIANTS JournalIsOneHistory RunsEndWhole
PROPERTIES StreamEnds
CHECK_DEADLOCK FALSE
