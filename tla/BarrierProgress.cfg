\* Three cores that sleep and synchronize on locks.
CONSTANTS
    NumCores = 3
    NumHostCores = 1
    Interval = 2
    MaxStep = 2
    RescheduleCost = 1
    MaxTime = 3
    MaxBarrier = 9
    Env = {"wait", "sleep"}
SPECIFICATION FairSpec
INVARIANTS
    SkewBounded
PROPERTIES
    BarrierProgresses
\* A simulated program ends.
CHECK_DEADLOCK FALSE
