------------------------------ MODULE MetricList ------------------------------
(***************************************************************************)
(* MetricInfo and MetricList (src/src/metricinfo.h, metriclist.cc): one    *)
(* power metric, and a list of the latest metric per topic.                *)
(*                                                                         *)
(* A topic is <quantity>@<asset>.  Every list of the program holds the     *)
(* metrics of one asset only (a power device, or the rack or data center   *)
(* itself), so a list is a function from the quantity to the metric or to  *)
(* NoMetric, and the asset's name is left to the owner of the list.  The   *)
(* unit string is left out: every metric the program stores has one.       *)
(***************************************************************************)
EXTENDS Integers

CONSTANTS
  NoMetric,     \* the topic is not in the list
  NaN,          \* std::nan: an absent value, or a metric whose text is "nan"
  UintRange     \* the number of values of uint64_t

ASSUME UintRangeAssumption == UintRange \in Nat \ {0}

MetricInfo(value, timestamp, ttl) ==
  [value |-> value, timestamp |-> timestamp, ttl |-> ttl]

\* Mutant: the difference is signed.
SignedSub(a, b) == a - b

\* a - b on uint64_t: a metric dated after a clock that was set back gives a
\* huge age, not a negative one.
USub(a, b) == (a - b) % UintRange

EmptyList(Quantity) == [q \in Quantity |-> NoMetric]

\* Mutant: as std::map::insert has it, a metric that is there is kept.
InsertMetricInfo(list, quantity, m) ==
  IF list[quantity] = NoMetric THEN [list EXCEPT ![quantity] = m] ELSE list

AddMetricInfo(list, quantity, m) == [list EXCEPT ![quantity] = m]

\* The value under a topic; NaN when there is none.
ValueOf(m) == IF m = NoMetric THEN NaN ELSE m.value

Old(m, now) == m # NoMetric /\ USub(now, m.timestamp) > m.ttl

RemoveOld(m, now) == IF Old(m, now) THEN NoMetric ELSE m

RemoveOldMetrics(list, now) == [q \in DOMAIN list |-> RemoveOld(list[q], now)]

=============================================================================
