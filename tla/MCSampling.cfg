SPECIFICATION FairSpec
CONSTANTS
  Core = {0, 1}
  Setting <- MCSetting
  Cost = {1, 3}
  MaxTime = 20
  MaxRegions = 1
  Never = Never
INVARIANTS SamplingIsSound
PROPERTIES FastForwardEnds
CHECK_DEADLOCK FALSE
