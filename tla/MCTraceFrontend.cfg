SPECIFICATION FairSpec
CONSTANTS
    Config <- MCConfig
    MaxApps = 2
    MaxThreads = 3
INVARIANTS
    ChannelsAreFaithful
    TidWordMeansAlive
PROPERTIES
    SimulationEnds
CHECK_DEADLOCK FALSE
