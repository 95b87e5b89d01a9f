\* The durations keep the order of the real ones: PollingInterval <
\* PullInterval <= ReconfigDelay < RepeatAfter < TTL.  The topology stays.  The clock
\* stops at MaxNow, where both threads sleep and no device has more to say.
SPECIFICATION ServerSpec
CONSTANTS
  NoMetric = NoMetric
  NaN = NaN
  NoOwner = NoOwner
  UintRange = 16
  TTL = 5
  RepeatAfter = 3
  ReconfigDelay = 2
  PollingInterval = 1
  PullInterval = 2
  Texts = {}
  Epsilon = 1
  Rack = {1}
  DC = {}
  Device = {1, 2}
  Topologies <- TwoDevices
  AssetOps = {}
  Garbled = {}
  LostReads <- Reliable
  WriteFailures <- Reliable
  MetricQuantities = {"realpower.default"}
  MetricValues = {0, 1}
  MetricAges = {0, 1, 2}
  MetricTtl = 2
  ClockSteps = {}
  MaxNow = 9
  MaxInbox = 0
INVARIANTS
  
  NoLostUpdate
  HeldBackOneSecond
  TotalsTrack
  FreshInSHM
  ShownInSHM
  TotalInSHMAddsUp
CHECK_DEADLOCK FALSE
