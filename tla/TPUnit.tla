-------------------------------- MODULE TPUnit --------------------------------
(***************************************************************************)
(* TPUnit (src/src/tp_unit.h, tp_unit.cc): one rack or data center, the    *)
(* measurements of its power devices and the totals computed from them.    *)
(*                                                                         *)
(* The measurements, _powerdevices, are a function from the unit's devices *)
(* to metric lists.  What _lastValue, _changed, _changetimestamp and       *)
(* _advertisedtimestamp hold for one quantity is one record, a "slot";     *)
(* every operation of the class touches the slot of one quantity, and      *)
(* dropOldMetricInfos each slot by itself.  A timestamp that is not in its *)
(* map is 0, which is what timestamp() returns; the wall clock is never 0. *)
(***************************************************************************)
EXTENDS MetricList, Functions

CONSTANTS
  TTL,          \* lifetime of a published total, 360 s
  RepeatAfter,  \* TPOWER_MEASUREMENT_REPEAT_AFTER, 300 s
  Epsilon       \* the largest difference of two totals that is no change

ASSUME UnitAssumption ==
  /\ TTL \in Nat \ {0}
  /\ RepeatAfter \in Nat \ {0}
  /\ Epsilon \in Nat
  /\ RepeatAfter < TTL
  /\ TTL < UintRange

Phase == 1 .. 3

Default   == "realpower.default"
Input(p)  == <<"realpower.input.L1", "realpower.input.L2",
               "realpower.input.L3">>[p]
Output(p) == <<"realpower.output.L1", "realpower.output.L2",
               "realpower.output.L3">>[p]
Outputs   == {Output(p) : p \in Phase}

\* What the constructor leaves in the four maps.
NewSlot == [lastValue |-> NoMetric, changed |-> FALSE,
            changetimestamp |-> 0, advertisedtimestamp |-> 0]

-----------------------------------------------------------------------------
(* The measurements of a unit, and the three ways to total them.  A method *)
(* that throws is a total of NaN.                                          *)

\* The devices are numbered in the order std::map iterates over their names.
FirstDevice(measures) ==
  CHOOSE d \in DOMAIN measures : \A e \in DOMAIN measures : d <= e

GetMetricValue(measures, d, quantity) == ValueOf(measures[d][quantity])

Measured(measures, d, quantity) == GetMetricValue(measures, d, quantity) # NaN

SetMeasurement(measures, d, quantity, m) ==
  [measures EXCEPT ![d] = AddMetricInfo(@, quantity, m)]

\* A sum that is missing as soon as one of the terms is.
SumOrNaN(f) ==
  IF \E i \in DOMAIN f : f[i] = NaN THEN NaN ELSE SumFunction(f)

SimpleSummarize(measures, quantity) ==
  SumOrNaN([d \in DOMAIN measures |-> GetMetricValue(measures, d, quantity)])

\* A device without realpower.default counts with the sum of its three output
\* phases.
RealpowerDefault(measures) ==
  SumOrNaN([d \in DOMAIN measures |->
              IF Measured(measures, d, Default)
              THEN GetMetricValue(measures, d, Default)
              ELSE SumOrNaN([p \in Phase |->
                               GetMetricValue(measures, d, Output(p))])])

\* The number of phases the first device is taken to have.
PhasesOf(measures, d) ==
  CASE Measured(measures, d, Output(3)) -> 3
    [] ~ Measured(measures, d, Output(3)) /\ Measured(measures, d, Output(2)) -> 2
    [] OTHER -> 1

\* Mutant: a third phase is no mismatch for two.
MixedPhaseOfOneOrThree(measures, d, n) ==
  CASE n = 1 -> Measured(measures, d, Output(2))
    [] n = 2 -> FALSE
    [] OTHER -> ~ Measured(measures, d, Output(3))

\* What makes a later device a mismatch for a unit of n phases.
MixedPhase(measures, d, n) ==
  CASE n = 1 -> Measured(measures, d, Output(2))
    [] n = 2 -> Measured(measures, d, Output(3))
    [] OTHER -> ~ Measured(measures, d, Output(3))

RealpowerOutput(measures, quantity) ==
  LET first == FirstDevice(measures)
      mixed == \E d \in DOMAIN measures \ {first} :
                 MixedPhase(measures, d, PhasesOf(measures, first))
  IN  IF mixed THEN NaN ELSE SimpleSummarize(measures, quantity)

Total(measures, quantity) ==
  CASE quantity = Default    -> RealpowerDefault(measures)
    [] quantity \in Outputs  -> RealpowerOutput(measures, quantity)
    [] OTHER                 -> SimpleSummarize(measures, quantity)

-----------------------------------------------------------------------------
(* The slot of one quantity.                                               *)

\* Mutant: only measurements are purged, totals never.
DropNoTotal(slot, now) == slot

DropOld(slot, now) ==
  [lastValue           |-> RemoveOld(slot.lastValue, now),
   changed             |-> slot.changed,
   changetimestamp     |-> slot.changetimestamp,
   advertisedtimestamp |-> slot.advertisedtimestamp]

\* Mutant: the absolute value is missing.
DiffersDown(a, b) == a - b > Epsilon

Differs(a, b) == a - b > Epsilon \/ b - a > Epsilon

\* Mutants: the change is not marked; a total dated before the last one is
\* taken for an old one.
SetTotalUnmarked(slot, m) ==
  IF ValueOf(slot.lastValue) = NaN \/ Differs(slot.lastValue.value, m.value)
  THEN [lastValue           |-> m,
        changed             |-> slot.changed,
        changetimestamp     |-> m.timestamp,
        advertisedtimestamp |-> slot.advertisedtimestamp]
  ELSE slot

SetTotalInOrder(slot, m) ==
  IF \/ ValueOf(slot.lastValue) = NaN
     \/ /\ Differs(slot.lastValue.value, m.value)
        /\ m.timestamp >= slot.lastValue.timestamp
  THEN [lastValue           |-> m,
        changed             |-> TRUE,
        changetimestamp     |-> m.timestamp,
        advertisedtimestamp |-> slot.advertisedtimestamp]
  ELSE slot

\* set(): a total that did not move is not stored, and keeps its old date.
SetTotal(slot, m) ==
  IF ValueOf(slot.lastValue) = NaN \/ Differs(slot.lastValue.value, m.value)
  THEN [lastValue           |-> m,
        changed             |-> TRUE,
        changetimestamp     |-> m.timestamp,
        advertisedtimestamp |-> slot.advertisedtimestamp]
  ELSE slot

\* calculate(quantity): nothing is stored when the total cannot be computed.
Calculate(slot, measures, quantity, now) ==
  LET total == Total(measures, quantity)
  IN  IF total = NaN THEN slot
      ELSE SetTotal(slot, MetricInfo(total, now, TTL))

QuantityIsKnown(slot) == ValueOf(slot.lastValue) # NaN

\* Mutants: a total that moves again waits for its repeat interval; there is no
\* schedule.
AdvertiseRarely(slot, now) ==
  /\ QuantityIsKnown(slot)
  /\ USub(now, slot.advertisedtimestamp) >= RepeatAfter
  /\ slot.changed \/ USub(now, slot.changetimestamp) > RepeatAfter

AdvertiseOnChange(slot, now) ==
  /\ QuantityIsKnown(slot)
  /\ slot.advertisedtimestamp # now
  /\ slot.changed

Advertise(slot, now) ==
  /\ QuantityIsKnown(slot)
  /\ slot.advertisedtimestamp # now
  /\ slot.changed \/ USub(now, slot.changetimestamp) > RepeatAfter

Advertised(slot, now) ==
  [lastValue           |-> slot.lastValue,
   changed             |-> FALSE,
   changetimestamp     |-> now,
   advertisedtimestamp |-> now]

TimeToAdvertisement(slot, now) ==
  LET dt == USub(now, slot.changetimestamp)
  IN  CASE slot.changetimestamp = 0 \/ ~ QuantityIsKnown(slot) -> RepeatAfter
        [] slot.changetimestamp # 0 /\ QuantityIsKnown(slot) /\ dt > RepeatAfter -> 0
        [] OTHER -> RepeatAfter - dt

=============================================================================
