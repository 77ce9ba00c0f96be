CONSTANTS
    Version = {v1, v2}
    Last = 0
    Damage = {"rotten", "badmeta", "missing"}
    Fault = {"backup", "io", "key"}
    NoUid = NoUid
    Unset = Unset
SYMMETRY Symmetry
SPECIFICATION Spec
INVARIANTS ValidUnlessEmpty
CHECK_DEADLOCK FALSE
