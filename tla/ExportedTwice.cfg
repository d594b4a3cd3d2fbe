\* Is a run exported at most once by two agents and a script?
SPECIFICATION Spec
CONSTANTS
    None = None
    Runs = {r1, r2}
    Agents = {a1, a2}
    Scripts = {x1}
    MaxTraces = 3
INVARIANT ExportedAtMostOnce
CHECK_DEADLOCK FALSE
