CONSTANTS
    f1 = f1
    f2 = f2
    Thread = {t1, t2, t3}
    NoThread = NoThread
    Main = t1
    Mutex = {m1}
    Cond = {c1}
    Barrier = {b1}
    BarrierCount = 2
    Futex = {f1, f2}
    MaxTime = 2
    Profiles <- MCProfiles
SPECIFICATION FairSpec
INVARIANTS NobodyForgotten NoMissedWake DeadlockIsReal
CHECK_DEADLOCK FALSE
PROPERTIES MutexIsFifo TimeoutsHappen
