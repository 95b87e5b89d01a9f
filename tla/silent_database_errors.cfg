\* The durations keep the order of the real ones: PollingInterval <
\* ReconfigDelay < RepeatAfter < TTL.
SPECIFICATION Spec
CONSTANTS
  NoMetric = NoMetric
  NaN = NaN
  NoOwner = NoOwner
  UintRange = 100
  TTL = 4
  RepeatAfter = 3
  ReconfigDelay = 2
  PollingInterval = 1
  Epsilon = 1
  Rack = {1}
  DC = {}
  Device = {1, 2}
  Topologies <- OneDevice
  AssetOps = {}
  Garbled = {}
  LostReads <- AnyReadLost
  WriteFailures <- Reliable
  MetricQuantities = {"realpower.default"}
  MetricValues = {}
  MetricAges = {0}
  MetricTtl = 2
  ClockSteps = {}
  MaxNow = 3
  MaxInbox = 0
INVARIANTS
  NoLostReconfiguration
