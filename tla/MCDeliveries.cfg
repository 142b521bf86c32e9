CONSTANTS
  Audited = {a1}
  Notices = {n1}
  Devices = {1, 2}
  Limit = 1
  Attempts <- MCAttempts
  MaxStalled = 1
  MaxCrashes = 1
SPECIFICATION Spec
INVARIANTS LogTellsTheOutcome DeviceInOneBatch
PROPERTY NotificationGetsThrough
CHECK_DEADLOCK FALSE
