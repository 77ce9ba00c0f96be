SPECIFICATION FairSpec
CONSTANTS
    Version = {v1, v2}
    Idx = {i1}
    Content = {c1}
    Dt = 1
    CommitWindow = 1
    MaxClock = 2
    UseBase = FALSE
    Cleaner = {"cleanup", "clean"}
    Fault = {"rm"}
    NoUid = NoUid
    Unset = Unset
    Unread = Unread
    Sparse = Sparse
    Never = Never
INVARIANTS
    DanglingOnlyIfRash
    MetadataGoesWithVersion
PROPERTY CleanupTerminates
CHECK_DEADLOCK FALSE
