CONSTANTS
    Proc = {p1, p2}
    Nobody = Nobody
    MaxRuns = 3
SPECIFICATION Spec
INVARIANT TypeOK
INVARIANT OverlapNeedsRobbery
INVARIANT PackIsWhole
INVARIANT LossNeedsStranding
PROPERTY FailureKeepsPack
PROPERTY LockIsReturned
CHECK_DEADLOCK FALSE
