CONSTANTS
    ann = ann
    bob = bob
    cyd = cyd
    Name = {ann, bob, cyd}
    Miq = {1, 2, 3}
    Profile <- MCProfile
    Scene <- MCScene
    Worker = {w1, w2}
    Thread = {t1, t2}
    LoginLife = 1
    RefreshLife = 1
    PageSize = 2
    None = None
SPECIFICATION Spec
SYMMETRY Symmetry
INVARIANTS AnsweredIsDone LockedOut PagesAreWhole OthersNeedRank
PROPERTIES MissesFollowRefusals
CHECK_DEADLOCK FALSE
