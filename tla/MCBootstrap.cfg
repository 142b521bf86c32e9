SPECIFICATION BootSpec
CONSTANTS
  i1 = i1
  i2 = i2
  i3 = i3
  Instance = {i1, i2, i3}
  MaxCrash = 2
  MaxEdit = 2
INVARIANT UpMeansInitialised
INVARIANT TornOnlyByCrash
PROPERTY InstancesComeUp
CHECK_DEADLOCK FALSE
