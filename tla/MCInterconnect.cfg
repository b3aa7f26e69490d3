SPECIFICATION PartsSpec
CONSTANTS
    Config <- MCConfigs
    Broadcast = Broadcast
    MaxPackets = 3
    t1 = t1
    t2 = t2
    t3 = t3
    Thread = {t1, t2, t3}
    Workload <- Races
    NoThread = NoThread
    NumContexts = 2
    SmtThread = {s1, s2}
    Enough = 1
    Limit = 1
    MaxSurplus = 2
    NoContext = NoContext
INVARIANTS DeliveredOnceInOrder  HostObjectsAreSafe GroupBarrierIsSound
PROPERTIES EveryCallReturns GroupGoesOn
\* Programs of calls, and the packets of an instance, come to an end.
CHECK_DEADLOCK FALSE
