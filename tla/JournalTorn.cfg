\* A process that died while writing a line.
SPECIFICATION Spec
CONSTANTS
    s1 = s1  s2 = s2
    Starters = {s1, s2}
    MaxLines = 3
SYMMETRY Symmetry
INVARIANTS StartupMarksDeadRuns
CHECK_DEADLOCK FALSE
