\* The durations keep the order of the real ones: PollingInterval <
\* ReconfigDelay < RepeatAfter < TTL.
SPECIFICATION Spec
CONSTANTS
  NoMetric = NoMetric
  NaN = NaN
  NoOwner = NoOwner
  UintRange = 100
  TTL = 4
  RepeatAfter = 3
  ReconfigDelay = 2
  PollingInterval = 1
  Epsilon = 1
  Rack = {}
  DC = {11}
  Device = {1, 2}
  Topologies <- CenterDevices
  AssetOps = {}
  Garbled = {}
  LostReads <- Reliable
  WriteFailures <- Reliable
  MetricQuantities = {"realpower.output.L1",
    "realpower.output.L2", "realpower.output.L3"}
  MetricValues = {1}
  MetricAges = {1}
  MetricTtl = 1
  ClockSteps = {}
  MaxNow = 2
  MaxInbox = 0
PROPERTIES
  PollRecomputesAll UpperPhasesMatch
