CONSTANTS
    Proc = {p1, p2}
    Nobody = Nobody
SPECIFICATION LockSpec
INVARIANT MutualExclusion
CHECK_DEADLOCK FALSE
