CONSTANTS
    Version = {v1, v2}
    Last = 1
    Damage = {"rotten"}
    Fault = {}
    NoUid = NoUid
    Unset = Unset
SYMMETRY Symmetry
SPECIFICATION Spec
INVARIANTS RestoreHonest OnlyDamagedFlagged
CHECK_DEADLOCK FALSE
