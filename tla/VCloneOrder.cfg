\* Two threads that are created one right after the other.
SPECIFICATION Spec
CONSTANTS
    Config <- RacingConfig
    MaxApps = 1
    MaxThreads = 3
INVARIANTS TidWordMeansAlive
CHECK_DEADLOCK FALSE
