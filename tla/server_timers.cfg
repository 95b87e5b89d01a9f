\* The durations keep the order of the real ones: PollingInterval <
\* PullInterval <= ReconfigDelay < RepeatAfter < TTL.
SPECIFICATION ServerSpec
CONSTANTS
  NoMetric = NoMetric
  NaN = NaN
  NoOwner = NoOwner
  UintRange = 16
  TTL = 5
  RepeatAfter = 3
  ReconfigDelay = 2
  PollingInterval = 1
  PullInterval = 2
  Texts = {Text}
  Epsilon = 0
  Rack = {1}
  DC = {}
  Device = {1}
  Topologies <- MaybeADevice
  AssetOps = {"update", "garbled"}
  Garbled = {"garbled"}
  LostReads <- Reliable
  WriteFailures <- Reliable
  MetricQuantities = {"realpower.default"}
  MetricValues = {0, 1}
  MetricAges = {0, 1, 2}
  MetricTtl = 2
  ClockSteps = {}
  MaxNow = 9
  MaxInbox = 1
INVARIANTS
  PollsKeepComing
  OldMeasurementsGo
  ReloadsInTime
PROPERTIES
  IsReloadTimer
