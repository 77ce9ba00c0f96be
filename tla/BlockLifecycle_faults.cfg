SPECIFICATION Spec
CONSTANTS
    Version = {v1, v2}
    Idx = {i1}
    Content = {c1}
    Dt = 1
    CommitWindow = 1
    MaxClock = 1
    UseBase = TRUE
    Cleaner = {"clean"}
    Fault = {"backup", "crash", "override"}
    NoUid = NoUid
    Unset = Unset
    Unread = Unread
    Sparse = Sparse
    Never = Never
SYMMETRY VersionSymmetry
INVARIANTS
    ValidIsComplete
CHECK_DEADLOCK FALSE
