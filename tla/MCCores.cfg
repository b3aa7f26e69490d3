SPECIFICATION CoreSpec
CONSTANTS
  Config <- MCConfigs
  Register = {"r"}
  Menu <- MCMenu
  Filler <- MCFiller
  Never = 1000
  MaxCycle = 60
  FixedPointOne = 4
  CoreConfig <- MCCoreConfig
  Instruction <- MCInstruction
  PseudoInstruction <- MCPseudoInstruction
  QueueSize = 2
  BranchConfig <- MCBranchConfig
  FeedConfig <- MCFeedConfig
  BlockSize = 4
  NoThread = NoThread
  NoCore = NoCore
  SchedulerConfig <- MCSchedulerConfig
  Tick = 4
INVARIANTS ExecutionRespectsOrder SkipsOnlyIdleCycles IntervalModelIsSound LoopIsLearnt FeedIsComplete PlacementIsConsistent NoStarvation
PROPERTIES IdleCoresAreUsed AffinityHonoured
CHECK_DEADLOCK FALSE
