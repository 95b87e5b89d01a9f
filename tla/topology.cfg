\* The durations keep the order of the real ones: PollingInterval <
\* ReconfigDelay < RepeatAfter < TTL.
SPECIFICATION Spec
CONSTANTS
  NoMetric = NoMetric
  NaN = NaN
  NoOwner = NoOwner
  UintRange = 100
  TTL = 5
  RepeatAfter = 4
  ReconfigDelay = 2
  PollingInterval = 1
  Epsilon = 1
  Rack = {1, 2}
  DC = {11}
  Device = {1}
  Topologies <- MovingDevice
  AssetOps = {"retire", "inventory"}
  Garbled = {}
  LostReads <- Reliable
  WriteFailures <- Reliable
  MetricQuantities = {"realpower.default"}
  MetricValues = {1}
  MetricAges = {0}
  MetricTtl = 1
  ClockSteps = {}
  MaxNow = 4
  MaxInbox = 2
INVARIANTS
  KnownTotalsAreFed ReverseMapsAgree NoLostReconfiguration
PROPERTIES
  ReloadIsSoon ReloadIsKept
