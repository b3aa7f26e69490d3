\* All that threads do, on three cores.
CONSTANTS
    NumCores = 3
    NumHostCores = 1
    Interval = 1
    MaxStep = 1
    RescheduleCost = 0
    MaxTime = 2
    MaxBarrier = 4
    Env = {"spawn", "wait", "sleep", "syscall", "disable"}
SPECIFICATION Spec
INVARIANTS
    TypeOK
    AssertionsHold
    NoLostWakeup
\* A simulated program ends.
CHECK_DEADLOCK FALSE
