CONSTANTS
    Thread = {t1, t2, t3}
    Failure = {io}
    OK = OK
    NoMessage = NoMessage
    MaxItems = 1
SPECIFICATION Spec
INVARIANT TypeOK
INVARIANT EngineUsedWhileLive
INVARIANT ExceptionTellsItsOwnFailure
INVARIANT ListsFreedExactlyOnce
PROPERTY CloseFrees
