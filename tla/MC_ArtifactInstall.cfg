CONSTANTS
    MaxRuns = 3
SPECIFICATION Spec
INVARIANT UnchangedMeansUnchanged
CHECK_DEADLOCK FALSE
