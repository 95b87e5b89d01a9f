\* The durations keep the order of the real ones: PollingInterval <=
\* ReconfigDelay < RepeatAfter < TTL.
SPECIFICATION Spec
CONSTANTS
  NoMetric = NoMetric
  NaN = NaN
  NoOwner = NoOwner
  UintRange = 100
  TTL = 3
  RepeatAfter = 2
  ReconfigDelay = 1
  PollingInterval = 1
  Epsilon = 1
  Rack = {1}
  DC = {}
  Device = {1}
  Topologies <- OneDevice
  AssetOps = {}
  Garbled = {}
  LostReads <- Reliable
  WriteFailures <- AnyWriteFailure
  MetricQuantities = {"realpower.default"}
  MetricValues = {0, 2}
  MetricAges = {0, 1}
  MetricTtl = 2
  ClockSteps = {2}
  MaxNow = 5
  MaxInbox = 0
INVARIANTS
  TypeOK NoLostUpdate TotalsTrack
PROPERTIES
  PollRefreshes StaleTotalsExpire
