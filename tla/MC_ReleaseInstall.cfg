CONSTANTS
    MaxRuns = 4
SPECIFICATION Spec
INVARIANT TypeOK
INVARIANT ReportIsTrue
INVARIANT NothingDamagedIsReachable
PROPERTY ImplementsAtomicInstall
CHECK_DEADLOCK FALSE
