--------------------------- MODULE TotalPowerProofs ---------------------------
(***************************************************************************)
(* Theorems about TotalPowerConfiguration, for any number of racks, data   *)
(* centers and devices, any topologies, metrics and faults, and any values *)
(* of the durations that keep the assumptions.                             *)
(***************************************************************************)
EXTENDS TotalPowerProperties, FiniteSums

-----------------------------------------------------------------------------
(* Numbers.                                                                *)

\* Every finite set of naturals that is not empty has a greatest element.
HasGreatest(T) == \E x \in T : \A y \in T : y <= x

LEMMA GreatestNatural ==
  ASSUME NEW T \in SUBSET Nat, IsFiniteSet(T), T # {}
  PROVE  HasGreatest(T)
<1> DEFINE Bad == {S \in SUBSET Nat : IsFiniteSet(S) /\ S # {} /\ ~ HasGreatest(S)}
           Sizes == {Cardinality(S) : S \in Bad}
<1> SUFFICES ASSUME Bad # {} PROVE FALSE
  OBVIOUS
<1>1. Sizes \in SUBSET Nat /\ Sizes # {}
  <2>1. \A S \in Bad : Cardinality(S) \in Nat
    BY FS_CardinalityType
  <2> QED
    BY <2>1
<1>2. PICK S \in Bad : \A R \in Bad : Cardinality(S) <= Cardinality(R)
  <2> HIDE DEF Sizes
  <2>1. PICK n \in Sizes : \A m \in Sizes : n <= m
    BY <1>1, LeastNatural, Zenon
  <2> QED
    BY <2>1 DEF Sizes
<1>3. PICK x \in S : TRUE
  OBVIOUS
<1>4. /\ IsFiniteSet(S \ {x})
      /\ Cardinality(S \ {x}) = Cardinality(S) - 1
      /\ Cardinality(S) \in Nat
  BY <1>3, FS_RemoveElement, FS_CardinalityType
<1>5. S \ {x} \notin Bad
  <2> HIDE DEF Bad
  <2> QED
    BY <1>2, <1>4
<1>6. CASE S \ {x} = {}
  BY <1>3, <1>6 DEF HasGreatest
<1>7. CASE S \ {x} # {}
  <2>1. PICK y \in S \ {x} : \A z \in S \ {x} : z <= y
    BY <1>4, <1>5, <1>7 DEF HasGreatest
  <2>2. x \in Nat /\ y \in Nat /\ \A z \in S : z \in Nat
    BY <1>3, <2>1
  <2>3. CASE x <= y
    BY <2>1, <2>2, <2>3 DEF HasGreatest
  <2>4. CASE y <= x
    BY <1>3, <2>1, <2>2, <2>4 DEF HasGreatest
  <2> QED
    BY <2>2, <2>3, <2>4
<1> QED
  BY <1>6, <1>7

-----------------------------------------------------------------------------
(* The slot of one quantity.                                               *)

\* Every operation of a TPUnit on a total leaves a well formed one.
LEMMA NewSlotType == IsSlot(NewSlot)
BY DEF IsSlot, NewSlot, IsMetric, MetricInfo

LEMMA CalculateType ==
  ASSUME NEW slot, IsSlot(slot), NEW measures, NEW q, NEW t \in Nat
  PROVE  IsSlot(Calculate(slot, measures, q, t))
BY UnitAssumption DEF Calculate, SetTotal, IsSlot, IsMetric, MetricInfo

LEMMA DropOldType ==
  ASSUME NEW slot, IsSlot(slot), NEW t \in Nat
  PROVE  IsSlot(DropOld(slot, t))
BY DEF DropOld, RemoveOld, IsSlot

LEMMA AfterSendType ==
  ASSUME NEW s, NEW slot, IsSlot(slot), NEW failed, now \in Nat
  PROVE  IsSlot(AfterSend(s, slot, failed))
BY DEF AfterSend, Advertised, IsSlot

-----------------------------------------------------------------------------
(* The poll interval.                                                      *)

\* The time to the next advertisement lies between 0 and RepeatAfter.
LEMMA TimeToAdvertisementBound ==
  ASSUME NEW slot, IsSlot(slot), NEW t \in Nat
  PROVE  TimeToAdvertisement(slot, t) \in 0 .. RepeatAfter
<1>1. USub(t, slot.changetimestamp) \in Nat
  BY UintRangeAssumption DEF USub, IsSlot
<1> QED
  BY <1>1, UnitAssumption DEF TimeToAdvertisement, IsSlot

Slots(slots) == \A s \in Slot : IsSlot(slots[s])

\* The poll interval is the least of the waits, and at least one second.
LEMMA GetPollIntervalLeast ==
  ASSUME NEW slots, Slots(slots), NEW pending \in Nat, now \in Nat
  PROVE  /\ GetPollInterval(slots, pending) \in Waits(slots, pending)
         /\ \A t \in Waits(slots, pending) : GetPollInterval(slots, pending) <= t
         /\ Waits(slots, pending) \subseteq Nat \ {0}
<1> DEFINE W == Waits(slots, pending)
           Ads == {TimeToAdvertisement(slots[s], now) : s \in Slot}
<1>1. Ads \subseteq Nat
  BY TimeToAdvertisementBound, UnitAssumption DEF Slots
<1>2. W \subseteq Nat \ {0}
  <2> SUFFICES ASSUME NEW w \in W PROVE w \in Nat \ {0}
    OBVIOUS
  <2>1. \/ w = RepeatAfter
        \/ w \in Ads /\ w > 0
        \/ w = IF pending - now + 1 <= 0 THEN 1 ELSE pending - now + 1
    BY Zenon DEF Waits
  <2> HIDE DEF Ads, W
  <2>2. CASE w = RepeatAfter
    BY <2>2, UnitAssumption
  <2>3. CASE w \in Ads /\ w > 0
    BY <1>1, <2>3
  <2>4. CASE w = IF pending - now + 1 <= 0 THEN 1 ELSE pending - now + 1
    BY <2>4
  <2> QED
    BY <2>1, <2>2, <2>3, <2>4
<1>3. RepeatAfter \in W
  BY DEF Waits
<1>4. \E t \in W : \A u \in W : t <= u
  <2> HIDE DEF W
  <2> QED
    BY <1>2, <1>3, LeastNatural
<1> QED
  BY <1>2, <1>4 DEF GetPollInterval

\* A reload that is pending is waited for, to the second after it.
LEMMA GetPollIntervalPending ==
  ASSUME NEW slots, Slots(slots), NEW pending \in Nat \ {0}, now \in Nat
  PROVE  GetPollInterval(slots, pending) <=
           IF pending <= now THEN 1 ELSE pending - now + 1
<1> DEFINE wait == IF pending - now + 1 <= 0 THEN 1 ELSE pending - now + 1
<1>1. wait \in Waits(slots, pending)
  BY DEF Waits
<1>2. wait <= IF pending <= now THEN 1 ELSE pending - now + 1
  OBVIOUS
<1>3. wait \in Nat /\ GetPollInterval(slots, pending) \in Nat
  BY <1>1, GetPollIntervalLeast
<1>4. GetPollInterval(slots, pending) <= wait
  BY <1>1, GetPollIntervalLeast
<1> HIDE DEF wait
<1> QED
  BY <1>2, <1>3, <1>4

-----------------------------------------------------------------------------
(* The types.                                                              *)

LEMMA UnitType ==
  ASSUME NEW devices \in SUBSET Device
  PROVE  IsUnit(Unit(devices))
BY DEF Unit, IsUnit, EmptyList, IsMetric

\* A function of functions is given by its values.
LEMMA UnitShape ==
  ASSUME NEW f, f = [d \in DOMAIN f |-> f[d]],
         \A d \in DOMAIN f : f[d] = [q \in Quantity |-> f[d][q]]
  PROVE  f = [d \in DOMAIN f |-> [q \in Quantity |-> f[d][q]]]
OBVIOUS

LEMMA SetMeasurementType ==
  ASSUME NEW measures, IsUnit(measures), NEW d, NEW q,
         NEW m, IsMetric(m, MetricValues)
  PROVE  IsUnit(SetMeasurement(measures, d, q, m))
<1> DEFINE new == SetMeasurement(measures, d, q, m)
<1>1. DOMAIN new = DOMAIN measures
  BY DEF SetMeasurement
<1>2. \A e \in DOMAIN measures :
         new[e] = [r \in Quantity |-> IF e = d /\ r = q THEN m ELSE measures[e][r]]
  BY DEF SetMeasurement, AddMetricInfo, IsUnit
<1>3. new = [e \in DOMAIN measures |-> new[e]]
  BY DEF SetMeasurement, IsUnit
<1> HIDE DEF new
<1>4. \A e \in DOMAIN new, r \in Quantity : IsMetric(new[e][r], MetricValues)
  BY <1>1, <1>2 DEF IsUnit
<1>5. \A e \in DOMAIN new : new[e] = [r \in Quantity |-> new[e][r]]
  BY <1>1, <1>2
<1> QED
  BY <1>1, <1>3, <1>4, <1>5, UnitShape DEF IsUnit, new

LEMMA PurgedType ==
  ASSUME NEW o \in Owner, IsUnit(powerdevices[o])
  PROVE  IsUnit(Purged(o))
<1> DEFINE old == powerdevices[o]
           new == Purged(o)
<1>1. DOMAIN new = DOMAIN old /\ new = [d \in DOMAIN new |-> new[d]]
  BY DEF Purged
<1>2. \A d \in DOMAIN new : DOMAIN old[d] = Quantity
  BY <1>1 DEF IsUnit
<1>3. \A d \in DOMAIN new : new[d] = [q \in Quantity |-> RemoveOld(old[d][q], now)]
  BY <1>1, <1>2 DEF Purged, RemoveOldMetrics
<1>4. \A d \in DOMAIN new, q \in Quantity : IsMetric(new[d][q], MetricValues)
  <2>1. \A d \in DOMAIN new, q \in Quantity :
           new[d][q] \in {NoMetric, old[d][q]}
    BY <1>3 DEF RemoveOld
  <2>2. IsMetric(NoMetric, MetricValues)
    BY DEF IsMetric
  <2>3. \A d \in DOMAIN new, q \in Quantity : IsMetric(old[d][q], MetricValues)
    BY <1>1 DEF IsUnit
  <2> HIDE DEF new, old
  <2> QED
    BY <2>1, <2>2, <2>3
<1>5. \A d \in DOMAIN new : new[d] = [q \in Quantity |-> new[d][q]]
  BY <1>3
<1> QED
  BY <1>1, <1>4, <1>5, UnitShape DEF IsUnit

LEMMA SendMeasurementsType ==
  ASSUME Slots(total), now \in Nat, NEW failed,
         NEW fresh, \A s \in Slot : s \in DOMAIN fresh => IsSlot(fresh[s]),
         SendMeasurements(fresh, failed)
  PROVE  /\ total' = [s \in Slot |-> total'[s]]
         /\ Slots(total')
         /\ published' = [s \in Slot |-> published'[s]]
<1>1. \A s \in Slot : s \in DOMAIN fresh => IsSlot(AfterSend(s, fresh[s], failed))
  BY AfterSendType
<1> QED
  BY <1>1 DEF SendMeasurements, Slots

\* The reverse map sends a device to a unit that has it.
LEMMA ReverseMapOwner ==
  ASSUME NEW read, NEW owners \in SUBSET Owner, NEW d \in Device
  PROVE  LET o == ReverseMap(read, owners)[d]
         IN  IF \E e \in owners : d \in read[e]
             THEN o \in owners /\ d \in read[o]
             ELSE o = NoOwner
<1> DEFINE mine == {o \in owners : d \in read[o]}
<1>1. CASE mine = {}
  BY <1>1 DEF ReverseMap
<1>2. CASE mine # {}
  <2>1. mine \in SUBSET Nat /\ IsFiniteSet(mine)
    <3>1. IsFiniteSet(Owner)
      BY ConfigurationAssumption, FS_Union DEF Owner
    <3>2. mine \in SUBSET Owner
      OBVIOUS
    <3> QED
      BY <3>1, <3>2, FS_Subset, ConfigurationAssumption DEF Owner
  <2> HIDE DEF mine
  <2>2. HasGreatest(mine)
    BY <1>2, <2>1, GreatestNatural
  <2>3. LastOwner(mine) \in mine
    BY <2>2 DEF HasGreatest, LastOwner
  <2>4. ReverseMap(read, owners)[d] = LastOwner(mine)
    BY <1>2 DEF ReverseMap, mine
  <2> QED
    BY <2>3, <2>4 DEF mine
<1> QED
  BY <1>1, <1>2

LEMMA ReverseMapType ==
  ASSUME NEW read, NEW owners \in SUBSET Owner
  PROVE  ReverseMap(read, owners) \in [Device -> owners \cup {NoOwner}]
<1>1. \A d \in Device : ReverseMap(read, owners)[d] \in owners \cup {NoOwner}
  BY ReverseMapOwner
<1>2. ReverseMap(read, owners) = [d \in Device |-> ReverseMap(read, owners)[d]]
  BY DEF ReverseMap
<1> QED
  BY <1>1, <1>2

LEMMA ReadType ==
  ASSUME NEW lost, NEW read \in Reads(lost)
  PROVE  \A o \in Owner : read[o] \in SUBSET Device
BY DEF Reads

LEMMA TypeInit == Init => TypeOK
<1> SUFFICES ASSUME Init PROVE TypeOK
  OBVIOUS
<1>1. \A o \in Owner : IsUnit(Unit({}))
  BY UnitType
<1> QED
  BY <1>1, NewSlotType, ConfigurationAssumption
  DEF Init, TypeOK, Phases, NoOwners, NoTotals

\* What configure() leaves, at the end of which the poll interval is set.
LEMMA ReturnType ==
  ASSUME TypeOK, Slots(total'), NEW pending \in Nat, Return(pending)
  PROVE  phase' \in Phases /\ reconfigPending' \in Nat /\ timeout' \in Nat \ {0}
<1>1. GetPollInterval(total', pending) \in Nat \ {0}
  BY GetPollIntervalLeast DEF TypeOK
<1> QED
  BY <1>1 DEF Return, TypeOK, Phases

LEMMA ClearedType ==
  ASSUME total' = NoTotals
  PROVE  total' = [s \in Slot |-> total'[s]] /\ Slots(total')
BY NewSlotType DEF NoTotals, Slots

LEMMA TypeStep == TypeOK /\ [Next]_vars => TypeOK'
<1> SUFFICES ASSUME TypeOK, [Next]_vars PROVE TypeOK'
  OBVIOUS
<1> USE DEF memory, environment
<1>0. Slots(total) /\ now \in Nat
  BY DEF TypeOK, Slots
<1>1. CASE Start
  BY <1>1 DEF Start, TypeOK, Phases
<1>2. ASSUME NEW lost \in LostReads, NEW read \in Reads(lost),
              ConfigureRacks(read)
      PROVE  TypeOK'
  <2>1. \A o \in Owner : IsUnit(powerdevices'[o])
    BY <1>2, ReadType, UnitType DEF ConfigureRacks
  <2>2. affectedRacks' \in [Device -> Rack \cup {NoOwner}]
    BY <1>2, ReverseMapType DEF ConfigureRacks, Owner
  <2>3. affectedDCs' \in [Device -> DC \cup {NoOwner}]
    BY <1>2 DEF ConfigureRacks, NoOwners
  <2>4. total' = [s \in Slot |-> total'[s]] /\ Slots(total')
    BY <1>2, ClearedType DEF ConfigureRacks
  <2>5. phase' \in Phases
    BY <1>2 DEF ConfigureRacks, Phases
  <2> QED
    BY <1>2, <2>1, <2>2, <2>3, <2>4, <2>5 DEF ConfigureRacks, TypeOK, Slots
<1>3. ASSUME NEW lost \in LostReads, NEW read \in Reads(lost),
              ConfigureDCs(read)
      PROVE  TypeOK'
  <2>1. \A o \in Owner : IsUnit(powerdevices'[o])
    BY <1>3, ReadType, UnitType DEF ConfigureDCs, TypeOK
  <2>2. affectedDCs' \in [Device -> DC \cup {NoOwner}]
    BY <1>3, ReverseMapType DEF ConfigureDCs, Owner
  <2>3. phase' \in Phases /\ reconfigPending' \in Nat /\ timeout' \in Nat \ {0}
    BY <1>0, <1>3, ReturnType DEF ConfigureDCs
  <2> QED
    BY <1>3, <2>1, <2>2, <2>3 DEF ConfigureDCs, TypeOK
<1>4. CASE ConfigureThrows
  <2>1. /\ powerdevices' = [o \in Owner |-> powerdevices'[o]]
        /\ \A o \in Owner : IsUnit(powerdevices'[o])
    BY <1>4, UnitType DEF ConfigureThrows, TypeOK
  <2>2. total' = [s \in Slot |-> total'[s]] /\ Slots(total')
    BY <1>0, <1>4, ClearedType DEF ConfigureThrows, TypeOK
  <2>3. /\ affectedRacks' \in [Device -> Rack \cup {NoOwner}]
        /\ affectedDCs' \in [Device -> DC \cup {NoOwner}]
    BY <1>4 DEF ConfigureThrows, TypeOK, NoOwners
  <2>4. now + ReconfigDelay \in Nat
    BY <1>0, ConfigurationAssumption
  <2>5. phase' \in Phases /\ reconfigPending' \in Nat /\ timeout' \in Nat \ {0}
    BY <1>4, <2>2, <2>4, ReturnType DEF ConfigureThrows
  <2> QED
    BY <1>4, <2>1, <2>2, <2>3, <2>5 DEF ConfigureThrows, TypeOK, Slots
<1>5. CASE ReceiveMetric
  <2>1. PICK d \in Device, q \in MetricQuantities, v \in MetricValues,
             age \in MetricAges, failed \in WriteFailures :
          /\ now - age >= 0
          /\ ProcessMetric(d, q, MetricInfo(v, now - age, MetricTtl), failed)
    BY <1>5 DEF ReceiveMetric
  <2> DEFINE m == MetricInfo(v, now - age, MetricTtl)
             fed == Fed(d, q)
             fresh == [s \in Refreshed(fed, q) |->
                         Calculate(total[s], powerdevices'[s[1]], s[2], now)]
  <2>2. IsMetric(m, MetricValues)
    BY <1>0, <2>1, ConfigurationAssumption DEF IsMetric, MetricInfo
  <2>3. /\ powerdevices' = [o \in Owner |-> powerdevices'[o]]
        /\ \A o \in Owner : IsUnit(powerdevices'[o])
    <3>1. \A o \in Owner : IsUnit(SetMeasurement(powerdevices[o], d, q, m))
      BY <2>2, SetMeasurementType DEF TypeOK
    <3> HIDE DEF m
    <3> QED
      BY <2>1, <3>1 DEF ProcessMetric, TypeOK, m
  <2>4. \A s \in Slot : s \in DOMAIN fresh => IsSlot(fresh[s])
    BY <1>0, CalculateType DEF Slots
  <2>5. SendMeasurements(fresh, failed)
    BY <2>1 DEF ProcessMetric, Refreshed, Slot
  <2>6. /\ total' = [s \in Slot |-> total'[s]]
        /\ Slots(total')
        /\ published' = [s \in Slot |-> published'[s]]
    <3> HIDE DEF fresh
    <3> QED
      BY <1>0, <2>4, <2>5, SendMeasurementsType
  <2> QED
    BY <2>1, <2>3, <2>6 DEF ProcessMetric, TypeOK, Slots
<1>6. CASE SetPollInterval
  BY <1>0, <1>6, GetPollIntervalLeast DEF SetPollInterval, TypeOK
<1>7. CASE ProcessAsset
  <2>1. Schedule \in Nat
    BY <1>0, ConfigurationAssumption DEF Schedule, TypeOK
  <2>2. GetPollInterval(total, Schedule) \in Nat \ {0}
    BY <1>0, <2>1, GetPollIntervalLeast
  <2>3. inbox' \in Seq(AssetOps)
    BY <1>7 DEF ProcessAsset, TypeOK
  <2> QED
    BY <1>7, <2>1, <2>2, <2>3 DEF ProcessAsset, TypeOK
<1>8. ASSUME NEW failed \in WriteFailures, OnPoll(failed)
      PROVE  TypeOK'
  <2> DEFINE fresh == [s \in {s \in Slot : HasUnit(s[1])} |-> Polled(s)]
  <2>1. /\ powerdevices' = [o \in Owner |-> powerdevices'[o]]
        /\ \A o \in Owner : IsUnit(powerdevices'[o])
    BY <1>8, PurgedType DEF OnPoll, TypeOK
  <2>2. \A s \in Slot : s \in DOMAIN fresh => IsSlot(fresh[s])
    BY <1>0, DropOldType, CalculateType DEF Slots, Polled
  <2>3. /\ total' = [s \in Slot |-> total'[s]]
        /\ Slots(total')
        /\ published' = [s \in Slot |-> published'[s]]
    <3>1. SendMeasurements(fresh, failed)
      BY <1>8 DEF OnPoll
    <3> HIDE DEF fresh
    <3> QED
      BY <1>0, <2>2, <3>1, SendMeasurementsType
  <2>4. timeout' \in Nat \ {0}
    <3>1. GetPollInterval(total', reconfigPending) \in Nat \ {0}
      BY <1>0, <2>3, GetPollIntervalLeast DEF TypeOK
    <3> QED
      BY <1>8, <3>1 DEF OnPoll, TypeOK
  <2>5. phase' \in Phases
    BY <1>8 DEF OnPoll, Phases
  <2> QED
    BY <1>8, <2>1, <2>3, <2>4, <2>5 DEF OnPoll, TypeOK, Slots
<1>9. CASE Crash
  BY <1>9, UnitType, NewSlotType, ConfigurationAssumption
  DEF Crash, TypeOK, Phases, NoOwners, NoTotals
<1>10. ASSUME NEW topology \in Topologies, NEW op \in AssetOps,
              DBChange(topology, op)
       PROVE  TypeOK'
  <2>1. inbox' \in Seq(AssetOps)
    <3>1. inbox \in Seq(AssetOps)
      BY DEF TypeOK
    <3>2. Append(inbox, op) \in Seq(AssetOps)
      BY <3>1
    <3> QED
      BY <1>10, <3>1, <3>2 DEF DBChange, Deliver
  <2>2. db' \in Topologies
    BY <1>10 DEF DBChange
  <2>3. torn' \subseteq Owner
    BY <1>10 DEF DBChange, TypeOK
  <2> QED
    BY <1>10, <2>1, <2>2, <2>3 DEF DBChange, TypeOK
<1>11. ASSUME NEW op \in AssetOps, OtherAsset(op)
       PROVE  TypeOK'
  <2>1. inbox' \in Seq(AssetOps)
    <3>1. inbox \in Seq(AssetOps)
      BY DEF TypeOK
    <3>2. Append(inbox, op) \in Seq(AssetOps)
      BY <3>1
    <3> QED
      BY <1>11, <3>1, <3>2 DEF OtherAsset, Deliver
  <2> QED
    BY <1>11, <2>1 DEF OtherAsset, TypeOK
<1>12. CASE Tick
  BY <1>12 DEF Tick, TypeOK
<1>13. ASSUME NEW k \in ClockSteps, SetClockBack(k)
       PROVE  TypeOK'
  BY <1>13, ConfigurationAssumption DEF SetClockBack, TypeOK
<1>14. CASE UNCHANGED vars
  BY <1>14 DEF vars, TypeOK
<1> QED
  BY <1>1, <1>2, <1>3, <1>4, <1>5, <1>6, <1>7, <1>8, <1>9, <1>10, <1>11,
     <1>12, <1>13, <1>14 DEF Next, Configure

\* The variables keep their types in every behaviour: in particular the
\* server is never told to sleep for no time at all.
THEOREM TypeCorrect == Spec => []TypeOK
BY TypeInit, TypeStep, PTL DEF Spec

-----------------------------------------------------------------------------
(* Publishing.                                                             *)

\* What NoLostUpdate says of one slot, shown as pub.
InStep(slot, pub) ==
  QuantityIsKnown(slot) /\ ~ slot.changed => pub.value = slot.lastValue.value

\* A total that is recomputed is either left as it was or marked as changed, a
\* purge at most forgets it, and what is sent is shown.
LEMMA CalculateInStep ==
  ASSUME NEW slot, NEW pub, InStep(slot, pub), NEW measures, NEW q, NEW t
  PROVE  InStep(Calculate(slot, measures, q, t), pub)
BY DEF InStep, Calculate, SetTotal

LEMMA DropOldInStep ==
  ASSUME NEW slot, NEW pub, InStep(slot, pub), NEW t
  PROVE  InStep(DropOld(slot, t), pub)
BY DEF InStep, DropOld, RemoveOld, QuantityIsKnown, ValueOf

LEMMA SendInStep ==
  ASSUME NEW s, NEW slot, InStep(slot, published[s]), NEW failed
  PROVE  InStep(AfterSend(s, slot, failed), Shown(s, slot, failed))
BY DEF InStep, AfterSend, Shown, Advertised, Published

LEMMA NewSlotInStep == \A pub : InStep(NewSlot, pub)
BY DEF InStep, NewSlot, QuantityIsKnown, ValueOf

LEMMA NoLostUpdateSlots == NoLostUpdate <=> \A s \in Slot : InStep(total[s], published[s])
BY DEF NoLostUpdate, InStep

LEMMA SendMeasurementsInStep ==
  ASSUME NoLostUpdate, NEW failed, NEW fresh, SendMeasurements(fresh, failed),
         \A s \in Slot : s \in DOMAIN fresh => InStep(fresh[s], published[s])
  PROVE  NoLostUpdate'
<1>1. \A s \in Slot : InStep(total'[s], published'[s])
  BY SendInStep, NoLostUpdateSlots DEF SendMeasurements
<1> QED
  BY <1>1 DEF NoLostUpdate, InStep

LEMMA ClearedInStep ==
  ASSUME total' = NoTotals
  PROVE  NoLostUpdate'
BY DEF NoLostUpdate, NoTotals, NewSlot, QuantityIsKnown, ValueOf

LEMMA NoLostUpdateStep == NoLostUpdate /\ [Next]_vars => NoLostUpdate'
<1> SUFFICES ASSUME NoLostUpdate, [Next]_vars PROVE NoLostUpdate'
  OBVIOUS
<1> USE DEF memory, environment
<1>1. CASE ReceiveMetric
  <2>1. PICK d \in Device, q \in MetricQuantities, v \in MetricValues,
             age \in MetricAges, failed \in WriteFailures :
          ProcessMetric(d, q, MetricInfo(v, now - age, MetricTtl), failed)
    BY <1>1 DEF ReceiveMetric
  <2> DEFINE fresh == [s \in Refreshed(Fed(d, q), q) |->
                         Calculate(total[s], powerdevices'[s[1]], s[2], now)]
  <2>2. SendMeasurements(fresh, failed)
    BY <2>1 DEF ProcessMetric, Refreshed, Slot
  <2>3. \A s \in Slot : s \in DOMAIN fresh => InStep(fresh[s], published[s])
    BY CalculateInStep, NoLostUpdateSlots
  <2> HIDE DEF fresh
  <2> QED
    BY <2>2, <2>3, SendMeasurementsInStep
<1>2. ASSUME NEW failed \in WriteFailures, OnPoll(failed)
      PROVE  NoLostUpdate'
  <2> DEFINE fresh == [s \in {s \in Slot : HasUnit(s[1])} |-> Polled(s)]
  <2>1. SendMeasurements(fresh, failed)
    BY <1>2 DEF OnPoll
  <2>2. \A s \in Slot : s \in DOMAIN fresh => InStep(fresh[s], published[s])
    BY CalculateInStep, DropOldInStep, NoLostUpdateSlots DEF Polled
  <2> HIDE DEF fresh
  <2> QED
    BY <2>1, <2>2, SendMeasurementsInStep
<1>3. ASSUME NEW lost \in LostReads, NEW read \in Reads(lost),
              ConfigureRacks(read)
      PROVE  NoLostUpdate'
  BY <1>3, ClearedInStep DEF ConfigureRacks
<1>4. CASE ConfigureThrows
  <2>1. CASE total' = NoTotals
    BY <2>1, ClearedInStep
  <2>2. CASE UNCHANGED total
    BY <1>4, <2>2 DEF ConfigureThrows, NoLostUpdate
  <2> QED
    BY <1>4, <2>1, <2>2 DEF ConfigureThrows
<1>5. CASE Crash
  BY <1>5, ClearedInStep DEF Crash
<1>6. ASSUME UNCHANGED <<total, published>>
      PROVE  NoLostUpdate'
  BY <1>6 DEF NoLostUpdate
<1>7. CASE Start
  BY <1>6, <1>7 DEF Start
<1>8. ASSUME NEW lost \in LostReads, NEW read \in Reads(lost),
              ConfigureDCs(read)
      PROVE  NoLostUpdate'
  BY <1>6, <1>8 DEF ConfigureDCs
<1>9. CASE SetPollInterval \/ ProcessAsset \/ Tick \/ UNCHANGED vars
  BY <1>6, <1>9 DEF SetPollInterval, ProcessAsset, Tick, vars
<1>10. ASSUME NEW topology \in Topologies, NEW op \in AssetOps,
              DBChange(topology, op)
       PROVE  NoLostUpdate'
  BY <1>6, <1>10 DEF DBChange
<1>11. ASSUME NEW op \in AssetOps, OtherAsset(op)
       PROVE  NoLostUpdate'
  BY <1>6, <1>11 DEF OtherAsset
<1>12. ASSUME NEW k \in ClockSteps, SetClockBack(k)
       PROVE  NoLostUpdate'
  BY <1>6, <1>12 DEF SetClockBack
<1> QED
  BY <1>1, <1>2, <1>3, <1>4, <1>5, <1>7, <1>8, <1>9, <1>10, <1>11, <1>12
  DEF Next, Configure

\* In every behaviour, whatever writes fail and whatever the clock does, a
\* total that is not marked as changed is the one in the SHM.
THEOREM NoLostUpdateHolds == Spec => []NoLostUpdate
<1>1. Init => NoLostUpdate
  BY NewSlotInStep, NoLostUpdateSlots DEF Init, NoTotals
<1> QED
  BY <1>1, NoLostUpdateStep, PTL DEF Spec

-----------------------------------------------------------------------------
(* What is held back.                                                      *)

\* What HeldBackOneSecond says of one slot.
HeldBack(slot) ==
  QuantityIsKnown(slot) /\ slot.changed =>
    slot.changetimestamp = slot.advertisedtimestamp

\* A total that is recomputed is held back, or was changed at this moment.
LEMMA CalculateHeldBack ==
  ASSUME NEW slot, HeldBack(slot), NEW measures, NEW q, NEW t
  PROVE  LET new == Calculate(slot, measures, q, t)
         IN  HeldBack(new) \/ new.changetimestamp = t
BY DEF HeldBack, Calculate, SetTotal, MetricInfo

\* Sending it leaves it changed only when it was sent in this very second.
LEMMA SendHeldBack ==
  ASSUME NEW s, NEW slot, HeldBack(slot) \/ slot.changetimestamp = now
  PROVE  HeldBack(AfterSend(s, slot, {}))
BY DEF HeldBack, AfterSend, Sends, Advertise, Advertised

LEMMA DropOldHeldBack ==
  ASSUME NEW slot, HeldBack(slot), NEW t
  PROVE  HeldBack(DropOld(slot, t))
BY DEF HeldBack, DropOld, RemoveOld, QuantityIsKnown, ValueOf

LEMMA HeldBackSlots == HeldBackOneSecond <=> \A s \in Slot : HeldBack(total[s])
BY DEF HeldBackOneSecond, HeldBack

LEMMA SendMeasurementsHeldBack ==
  ASSUME HeldBackOneSecond, NEW fresh, SendMeasurements(fresh, {}),
         \A s \in Slot : s \in DOMAIN fresh =>
           HeldBack(fresh[s]) \/ fresh[s].changetimestamp = now
  PROVE  HeldBackOneSecond'
<1>1. \A s \in Slot : HeldBack(total'[s])
  BY SendHeldBack, HeldBackSlots DEF SendMeasurements
<1> QED
  BY <1>1 DEF HeldBackOneSecond, HeldBack

LEMMA HeldBackStep ==
  ASSUME WriteFailures = {{}}
  PROVE  HeldBackOneSecond /\ [Next]_vars => HeldBackOneSecond'
<1> SUFFICES ASSUME HeldBackOneSecond, [Next]_vars PROVE HeldBackOneSecond'
  OBVIOUS
<1> USE DEF memory, environment
<1>1. CASE ReceiveMetric
  <2>1. PICK d \in Device, q \in MetricQuantities, v \in MetricValues,
             age \in MetricAges :
          ProcessMetric(d, q, MetricInfo(v, now - age, MetricTtl), {})
    BY <1>1 DEF ReceiveMetric
  <2> DEFINE fresh == [s \in Refreshed(Fed(d, q), q) |->
                         Calculate(total[s], powerdevices'[s[1]], s[2], now)]
  <2>2. SendMeasurements(fresh, {})
    BY <2>1 DEF ProcessMetric, Refreshed, Slot
  <2>3. \A s \in Slot : s \in DOMAIN fresh =>
           HeldBack(fresh[s]) \/ fresh[s].changetimestamp = now
    BY CalculateHeldBack, HeldBackSlots
  <2> HIDE DEF fresh
  <2> QED
    BY <2>2, <2>3, SendMeasurementsHeldBack
<1>2. CASE OnPoll({})
  <2> DEFINE fresh == [s \in {s \in Slot : HasUnit(s[1])} |-> Polled(s)]
  <2>1. SendMeasurements(fresh, {})
    BY <1>2 DEF OnPoll
  <2>2. \A s \in Slot : s \in DOMAIN fresh =>
           HeldBack(fresh[s]) \/ fresh[s].changetimestamp = now
    BY CalculateHeldBack, DropOldHeldBack, HeldBackSlots DEF Polled
  <2> HIDE DEF fresh
  <2> QED
    BY <2>1, <2>2, SendMeasurementsHeldBack
<1>3. ASSUME total' = NoTotals
      PROVE  HeldBackOneSecond'
  BY <1>3 DEF HeldBackOneSecond, NoTotals, NewSlot, QuantityIsKnown, ValueOf
<1>4. ASSUME UNCHANGED total
      PROVE  HeldBackOneSecond'
  BY <1>4 DEF HeldBackOneSecond
<1>5. Next /\ ~ ReceiveMetric /\ ~ OnPoll({}) => total' = NoTotals \/ UNCHANGED total
  BY DEF Next, Configure, Start, ConfigureRacks, ConfigureDCs, ConfigureThrows,
         SetPollInterval, ProcessAsset, Crash, DBChange, OtherAsset, Tick,
         SetClockBack
<1>6. CASE UNCHANGED vars
  BY <1>4, <1>6 DEF vars
<1> QED
  BY <1>1, <1>2, <1>3, <1>4, <1>5, <1>6

\* When no write fails, the only total that a behaviour ever leaves unsent is
\* one that moved twice within the second of its last sending.
THEOREM HeldBackHolds ==
  ASSUME WriteFailures = {{}}
  PROVE  Spec => []HeldBackOneSecond
<1>1. Init => HeldBackOneSecond
  BY DEF Init, HeldBackOneSecond, NoTotals, NewSlot, QuantityIsKnown, ValueOf
<1> QED
  BY <1>1, HeldBackStep, PTL DEF Spec

=============================================================================
