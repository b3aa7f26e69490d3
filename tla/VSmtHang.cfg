SPECIFICATION Spec
CONSTANTS
    NumContexts = 2
    Thread = {t1, t2}
    Enough = 1
    Limit = 2
    MaxSurplus = 3
    NoThread = NoThread
    NoContext = NoContext
INVARIANTS SomeoneIsReleased
CHECK_DEADLOCK FALSE
