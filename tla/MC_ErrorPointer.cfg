CONSTANTS
    Thread = {t1, t2}
    Failure = {io, invalid}
    OK = OK
    NoMessage = NoMessage
SPECIFICATION Spec
INVARIANT ValidUntilNextFailure
