CONSTANTS
    User = {u}
    Node = {n1}
    Version = {v1, v2}
    Request = {r1, r2}
    MaxSize = 2
    OldSizes = {1}
    Permit = 2
    MaxWrite = 1
    MaxAsked = 3
    NoRow = NoRow
    NoUser = NoUser
    NoNode = NoNode
SPECIFICATION Spec
INVARIANTS VolumeMatchesRow UseIsKnown OvercommitIsKnown IncompleteIsPending
SYMMETRY Symmetry
PROPERTIES QuotaIsKept
CHECK_DEADLOCK FALSE
