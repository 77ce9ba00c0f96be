CONSTANTS
    Process = {p1, p2}
    Name = {n1, n2}
    Fault = {"override", "crash", "unlock"}
    Nobody = Nobody
SPECIFICATION LockFairSpec
INVARIANTS ExclusiveUnlessOverridden
PROPERTIES ReleasesOwnUnlessOverridden Released
CHECK_DEADLOCK FALSE
