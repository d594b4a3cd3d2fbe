\* Two processes that start at one time and find one run dead.
SPECIFICATION Spec
CONSTANTS
    s1 = s1  s2 = s2
    Starters = {s1, s2}
    MaxLines = 3
SYMMETRY Symmetry
INVARIANTS OneTerminalEvent
CHECK_DEADLOCK FALSE
