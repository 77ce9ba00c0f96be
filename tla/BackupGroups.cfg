CONSTANTS
    Volume = {a, b}
    Group = {g1, g2}
    Job = {j1, j2}
    Thread = {t1, t2}
    MaxAsked = 6
    None = None
    Gone = Gone
SPECIFICATION Spec
SYMMETRY Symmetry
INVARIANTS NothingIsLeftBehind GroupIsAsAsked OneJobPerGroup GroupIsCovered PolicyRunsDaily
CHECK_DEADLOCK FALSE
