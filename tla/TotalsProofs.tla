----------------------------- MODULE TotalsProofs -----------------------------
(***************************************************************************)
(* Theorems about what a total is worth: that it is the sum of the         *)
(* measurements it was made of, how old its copy in the SHM can get, and   *)
(* when it is forgotten.                                                   *)
(***************************************************************************)
EXTENDS TotalPowerProofs

Value == Int \cup {NaN}

-----------------------------------------------------------------------------
(* Totals.                                                                 *)

LEMMA SumOrNaNType ==
  ASSUME NEW S, IsFiniteSet(S), NEW f \in [S -> Value]
  PROVE  SumOrNaN(f) \in Value
<1>1. CASE \E i \in DOMAIN f : f[i] = NaN
  BY <1>1 DEF SumOrNaN, Value
<1>2. CASE \A i \in DOMAIN f : f[i] # NaN
  <2>1. f \in [S -> Int]
    BY <1>2 DEF Value
  <2>2. SumFunction(f) \in Int
    BY <2>1, SumType
  <2> QED
    BY <1>2, <2>2 DEF SumOrNaN, Value
<1> QED
  BY <1>1, <1>2

LEMMA MeasuredType ==
  ASSUME NEW measures, IsUnit(measures), NEW d \in DOMAIN measures, NEW q \in Quantity
  PROVE  GetMetricValue(measures, d, q) \in Value
<1>1. IsMetric(measures[d][q], MetricValues)
  BY DEF IsUnit
<1> QED
  BY <1>1, ConfigurationAssumption DEF GetMetricValue, ValueOf, IsMetric, Value

LEMMA PhaseIsFinite == IsFiniteSet(Phase)
<1>1. \A a, b \in Int : IsFiniteSet(a .. b)
  BY FS_Interval
<1>2. 1 \in Int /\ 3 \in Int
  OBVIOUS
<1>3. IsFiniteSet(1 .. 3)
  BY <1>1, <1>2, Zenon
<1> QED
  BY <1>3 DEF Phase

LEMMA TotalType ==
  ASSUME NEW measures, IsUnit(measures), NEW q \in Quantity
  PROVE  Total(measures, q) \in Value
<1>1. IsFiniteSet(DOMAIN measures)
  BY ConfigurationAssumption, FS_Subset DEF IsUnit
<1>2. SimpleSummarize(measures, q) \in Value
  <2> DEFINE f == [d \in DOMAIN measures |-> GetMetricValue(measures, d, q)]
  <2>1. f \in [DOMAIN measures -> Value]
    BY MeasuredType
  <2> HIDE DEF f
  <2>3. SumOrNaN(f) \in Value
    BY <1>1, <2>1, SumOrNaNType
  <2> QED
    BY <2>3 DEF SimpleSummarize, f
<1>3. RealpowerDefault(measures) \in Value
  <2>1. ASSUME NEW d \in DOMAIN measures
        PROVE  SumOrNaN([p \in Phase |-> GetMetricValue(measures, d, Output(p))]) \in Value
    <3> DEFINE f == [p \in Phase |-> GetMetricValue(measures, d, Output(p))]
    <3>1. IsFiniteSet(Phase)
      BY PhaseIsFinite
    <3>2. \A p \in Phase : Output(p) \in Quantity
      BY DEF Quantity, DCQuantities, Outputs
    <3>3. f \in [Phase -> Value]
      BY <2>1, <3>2, MeasuredType
    <3> HIDE DEF f
    <3>5. SumOrNaN(f) \in Value
      BY <3>1, <3>3, SumOrNaNType
    <3> QED
      BY <3>5 DEF f
  <2> DEFINE f == [d \in DOMAIN measures |->
                     IF Measured(measures, d, Default)
                     THEN GetMetricValue(measures, d, Default)
                     ELSE SumOrNaN([p \in Phase |->
                                      GetMetricValue(measures, d, Output(p))])]
  <2>2. \A d \in DOMAIN measures : GetMetricValue(measures, d, Default) \in Value
    BY MeasuredType DEF Quantity, DCQuantities
  <2>3. f \in [DOMAIN measures -> Value]
    BY <2>1, <2>2
  <2> HIDE DEF f
  <2>5. SumOrNaN(f) \in Value
    BY <1>1, <2>3, SumOrNaNType
  <2> QED
    BY <2>5 DEF RealpowerDefault, f
<1> QED
  BY <1>2, <1>3 DEF Total, RealpowerOutput, Value

\* A unit with a device and without measurements has no total.
LEMMA TotalOfNothing ==
  ASSUME NEW devices, devices # {}, NEW q \in Quantity
  PROVE  Total(Unit(devices), q) = NaN
<1> DEFINE measures == Unit(devices)
<1>1. PICK d \in devices : TRUE
  OBVIOUS
<1>2. DOMAIN measures = devices /\ \A e \in devices, r \in Quantity : measures[e][r] = NoMetric
  BY DEF Unit, EmptyList
<1> HIDE DEF measures
<1>3. \A r \in Quantity : GetMetricValue(measures, d, r) = NaN
  BY <1>2 DEF GetMetricValue, ValueOf
<1>4. SimpleSummarize(measures, q) = NaN
  BY <1>2, <1>3 DEF SimpleSummarize, SumOrNaN
<1>5. RealpowerDefault(measures) = NaN
  <2>1. Default \in Quantity /\ \A p \in Phase : Output(p) \in Quantity
    BY DEF Quantity, DCQuantities, Outputs
  <2>2. ~ Measured(measures, d, Default)
    BY <1>3, <2>1 DEF Measured
  <2>3. SumOrNaN([p \in Phase |-> GetMetricValue(measures, d, Output(p))]) = NaN
    <3>1. 1 \in Phase
      BY DEF Phase
    <3> QED
      BY <1>3, <2>1, <3>1 DEF SumOrNaN
  <2> QED
    BY <1>2, <2>2, <2>3 DEF RealpowerDefault, SumOrNaN
<1> QED
  BY <1>4, <1>5 DEF Total, RealpowerOutput, measures

-----------------------------------------------------------------------------
(* What a calculated total is worth.                                       *)

\* The value of a known total is a number.
IsNumber(slot) == QuantityIsKnown(slot) => slot.lastValue.value \in Int

IsWorth(slot, sum) ==
  sum # NaN =>
    /\ QuantityIsKnown(slot)
    /\ sum - slot.lastValue.value \in -Epsilon .. Epsilon

LEMMA CalculateWorth ==
  ASSUME NEW slot, IsNumber(slot), NEW measures, NEW q, NEW t \in Nat,
         Total(measures, q) \in Value
  PROVE  LET new == Calculate(slot, measures, q, t)
         IN  IsNumber(new) /\ IsWorth(new, Total(measures, q))
<1> DEFINE sum == Total(measures, q)
           new == Calculate(slot, measures, q, t)
<1>0. Epsilon \in Nat /\ TTL \in Nat
  BY UnitAssumption
<1>1. CASE sum = NaN
  BY <1>1 DEF Calculate, IsWorth
<1>2. CASE sum # NaN
  <2>1. sum \in Int
    BY <1>2 DEF Value
  <2> HIDE DEF sum
  <2>2. MetricInfo(sum, t, TTL) # NoMetric
    BY <1>0, <2>1, NoMetricAssumption DEF MetricInfo
  <2>3. new = SetTotal(slot, MetricInfo(sum, t, TTL))
    BY <1>2 DEF Calculate, sum
  <2> HIDE DEF new
  <2>4. CASE ValueOf(slot.lastValue) = NaN \/ Differs(slot.lastValue.value, sum)
    <3>1. new.lastValue = MetricInfo(sum, t, TTL) /\ new.lastValue.value = sum
      BY <2>3, <2>4 DEF SetTotal, MetricInfo
    <3>2. QuantityIsKnown(new)
      BY <1>2, <2>2, <3>1 DEF QuantityIsKnown, ValueOf
    <3> QED
      BY <1>0, <2>1, <3>1, <3>2 DEF IsNumber, IsWorth, sum, new
  <2>5. CASE ~ (ValueOf(slot.lastValue) = NaN \/ Differs(slot.lastValue.value, sum))
    <3>1. new = slot /\ QuantityIsKnown(slot) /\ slot.lastValue.value \in Int
      BY <2>3, <2>5 DEF SetTotal, MetricInfo, QuantityIsKnown, IsNumber
    <3>2. sum - slot.lastValue.value \in -Epsilon .. Epsilon
      BY <1>0, <2>1, <2>5, <3>1 DEF Differs
    <3> QED
      BY <3>1, <3>2 DEF IsNumber, IsWorth, sum, new
  <2> QED
    BY <2>4, <2>5
<1> QED
  BY <1>1, <1>2 DEF Calculate, IsNumber, IsWorth

LEMMA WorthTracks ==
  \A s \in Slot :
    Tracks(s) <=> (HasUnit(s[1]) => IsWorth(total[s], Total(powerdevices[s[1]], s[2])))
BY DEF Tracks, IsWorth

LEMMA SendKeepsWorth ==
  ASSUME NEW s, NEW slot, NEW failed
  PROVE  /\ IsNumber(slot) => IsNumber(AfterSend(s, slot, failed))
         /\ \A sum : IsWorth(slot, sum) => IsWorth(AfterSend(s, slot, failed), sum)
BY DEF IsNumber, IsWorth, AfterSend, Advertised, QuantityIsKnown

LEMMA DropOldIsNumber ==
  ASSUME NEW slot, IsNumber(slot), NEW t
  PROVE  IsNumber(DropOld(slot, t))
BY DEF IsNumber, DropOld, RemoveOld, QuantityIsKnown, ValueOf

AllNumbers == \A s \in Slot : IsNumber(total[s])

\* A metric of another quantity does not touch the measurements that the total
\* of an input phase is made of.
LEMMA InputsAlone ==
  ASSUME NEW measures, NEW d, NEW q, NEW m, NEW p \in Phase, q # Input(p),
         IsUnit(measures)
  PROVE  Total(SetMeasurement(measures, d, q, m), Input(p)) = Total(measures, Input(p))
<1> DEFINE new == SetMeasurement(measures, d, q, m)
<1>1. Input(p) \notin Outputs /\ Input(p) # Default /\ Input(p) \in Quantity
  BY DEF Phase, Input, Outputs, Output, Default, Quantity, DCQuantities
<1>2. /\ DOMAIN new = DOMAIN measures
      /\ \A e \in DOMAIN measures : new[e][Input(p)] = measures[e][Input(p)]
  BY <1>1 DEF SetMeasurement, AddMetricInfo, IsUnit
<1> HIDE DEF new
<1>3. SimpleSummarize(new, Input(p)) = SimpleSummarize(measures, Input(p))
  BY <1>2 DEF SimpleSummarize, GetMetricValue
<1> QED
  BY <1>1, <1>3 DEF Total, new

\* The totals that a metric of the quantity q feeds, and all others that track.
LEMMA MetricTracks ==
  ASSUME TypeOK, TypeOK', AllNumbers, TotalsTrack, ReceiveMetric
  PROVE  AllNumbers' /\ TotalsTrack'
<1>1. PICK d \in Device, q \in MetricQuantities, v \in MetricValues,
           age \in MetricAges, failed \in WriteFailures :
        ProcessMetric(d, q, MetricInfo(v, now - age, MetricTtl), failed)
  BY DEF ReceiveMetric
<1> DEFINE m == MetricInfo(v, now - age, MetricTtl)
           fresh == [s \in Refreshed(Fed(d, q), q) |->
                       Calculate(total[s], powerdevices'[s[1]], s[2], now)]
<1>2. SendMeasurements(fresh, failed)
  BY <1>1 DEF ProcessMetric, Refreshed, Slot
<1>3. \A o \in Owner : powerdevices'[o] =
        IF o \in Fed(d, q) THEN SetMeasurement(powerdevices[o], d, q, m)
                           ELSE powerdevices[o]
  BY <1>1 DEF ProcessMetric
<1>4. now \in Nat /\ \A o \in Owner : IsUnit(powerdevices[o]) /\ IsUnit(powerdevices'[o])
  BY DEF TypeOK
<1>5. ASSUME NEW s \in Slot, s \in Refreshed(Fed(d, q), q)
      PROVE  IsNumber(total'[s]) /\ IsWorth(total'[s], Total(powerdevices'[s[1]], s[2]))
  <2>1. Total(powerdevices'[s[1]], s[2]) \in Value
    BY <1>4, TotalType DEF Slot
  <2>2. fresh[s] = Calculate(total[s], powerdevices'[s[1]], s[2], now)
    BY <1>5
  <2>3. IsNumber(fresh[s]) /\ IsWorth(fresh[s], Total(powerdevices'[s[1]], s[2]))
    BY <1>4, <2>1, <2>2, CalculateWorth DEF AllNumbers
  <2>4. total'[s] = AfterSend(s, fresh[s], failed)
    BY <1>2, <1>5 DEF SendMeasurements
  <2> HIDE DEF fresh
  <2> QED
    BY <2>3, <2>4, SendKeepsWorth
<1>6. ASSUME NEW s \in Slot, s \notin Refreshed(Fed(d, q), q)
      PROVE  total'[s] = total[s]
  BY <1>2, <1>6 DEF SendMeasurements
<1>7. ASSUME NEW s \in Slot, s \notin Refreshed(Fed(d, q), q),
             s[1] \in Rack \/ s[2] \in {Input(p) : p \in Phase}
      PROVE  Total(powerdevices'[s[1]], s[2]) = Total(powerdevices[s[1]], s[2])
  <2>1. s[1] \in Owner
    BY DEF Slot
  <2>2. CASE s[1] \notin Fed(d, q)
    BY <1>3, <2>1, <2>2
  <2>3. CASE s[1] \in Fed(d, q)
    <3>1. s[2] # q
      BY <1>7, <2>3 DEF Refreshed
    <3>2. s[1] \notin Rack
      BY <2>3, <3>1 DEF Fed, Slot, QuantitiesOf, RackQuantities
    <3>3. PICK p \in Phase : s[2] = Input(p)
      BY <1>7, <3>2
    <3>4. powerdevices'[s[1]] = SetMeasurement(powerdevices[s[1]], d, q, m)
      BY <1>3, <2>1, <2>3
    <3> HIDE DEF m
    <3> QED
      BY <1>4, <2>1, <3>1, <3>3, <3>4, InputsAlone
  <2> QED
    BY <2>2, <2>3
<1>8. \A o \in Owner : HasUnit(o)' <=> HasUnit(o)
  BY <1>3 DEF HasUnit, SetMeasurement
<1> HIDE DEF fresh
<1>9. AllNumbers'
  BY <1>5, <1>6 DEF AllNumbers, IsNumber, QuantityIsKnown
<1>10. ASSUME NEW s \in Slot, s[1] \in Rack \/ s[2] \in {Input(p) : p \in Phase}
       PROVE  Tracks(s)'
  <2>1. CASE s \in Refreshed(Fed(d, q), q)
    BY <1>5, <2>1 DEF Tracks, IsWorth
  <2>2. CASE s \notin Refreshed(Fed(d, q), q)
    BY <1>6, <1>7, <1>8, <1>10, <2>2 DEF Tracks, TotalsTrack, Slot
  <2> QED
    BY <2>1, <2>2
<1> QED
  BY <1>9, <1>10 DEF TotalsTrack

LEMMA PollTracks ==
  ASSUME TypeOK, TypeOK', AllNumbers, NEW failed, OnPoll(failed)
  PROVE  AllNumbers' /\ EveryTotalTracks'
<1> DEFINE fresh == [s \in {s \in Slot : HasUnit(s[1])} |-> Polled(s)]
<1>1. SendMeasurements(fresh, failed) /\ \A o \in Owner : powerdevices'[o] = Purged(o)
  BY DEF OnPoll
<1>2. now \in Nat /\ \A o \in Owner : IsUnit(powerdevices'[o])
  BY DEF TypeOK
<1>3. \A o \in Owner : HasUnit(o)' <=> HasUnit(o)
  BY <1>1 DEF HasUnit, Purged
<1>4. ASSUME NEW s \in Slot, HasUnit(s[1])
      PROVE  IsNumber(total'[s]) /\ IsWorth(total'[s], Total(powerdevices'[s[1]], s[2]))
  <2>1. powerdevices'[s[1]] = Purged(s[1]) /\ Total(powerdevices'[s[1]], s[2]) \in Value
    BY <1>1, <1>2, TotalType DEF Slot
  <2>2. fresh[s] = Calculate(DropOld(total[s], now), Purged(s[1]), s[2], now)
    BY <1>4 DEF Polled
  <2>3. IsNumber(DropOld(total[s], now))
    BY DropOldIsNumber DEF AllNumbers
  <2>4. IsNumber(fresh[s]) /\ IsWorth(fresh[s], Total(powerdevices'[s[1]], s[2]))
    BY <1>2, <2>1, <2>2, <2>3, CalculateWorth
  <2>5. total'[s] = AfterSend(s, fresh[s], failed)
    BY <1>1, <1>4 DEF SendMeasurements
  <2> HIDE DEF fresh
  <2> QED
    BY <2>4, <2>5, SendKeepsWorth
<1>5. ASSUME NEW s \in Slot, ~ HasUnit(s[1])
      PROVE  total'[s] = total[s]
  BY <1>1, <1>5 DEF SendMeasurements
<1> HIDE DEF fresh
<1>6. AllNumbers'
  BY <1>4, <1>5 DEF AllNumbers, IsNumber, QuantityIsKnown
<1>7. ASSUME NEW s \in Slot
      PROVE  Tracks(s)'
  BY <1>3, <1>4 DEF Tracks, IsWorth, Slot
<1> QED
  BY <1>6, <1>7 DEF EveryTotalTracks

\* A unit that was just read has no measurements to track.
LEMMA ReadTracks ==
  ASSUME AllNumbers, TotalsTrack,
         total' = total \/ total' = NoTotals,
         \A o \in Owner : \/ \E devices : powerdevices'[o] = Unit(devices)
                          \/ powerdevices'[o] = powerdevices[o] /\ total' = total
  PROVE  AllNumbers' /\ TotalsTrack'
<1>1. AllNumbers'
  BY DEF AllNumbers, IsNumber, NoTotals, NewSlot, QuantityIsKnown, ValueOf
<1>2. ASSUME NEW s \in Slot, s[1] \in Rack \/ s[2] \in {Input(p) : p \in Phase}
      PROVE  Tracks(s)'
  <2>1. s[1] \in Owner /\ s[2] \in Quantity
    BY DEF Slot
  <2>2. CASE \E devices : powerdevices'[s[1]] = Unit(devices)
    <3>1. PICK devices : powerdevices'[s[1]] = Unit(devices)
      BY <2>2
    <3>2. HasUnit(s[1])' => devices # {}
      BY <3>1 DEF HasUnit, Unit
    <3>3. HasUnit(s[1])' => Total(powerdevices'[s[1]], s[2]) = NaN
      BY <2>1, <3>1, <3>2, TotalOfNothing
    <3> QED
      BY <3>3 DEF Tracks
  <2>3. CASE powerdevices'[s[1]] = powerdevices[s[1]] /\ total' = total
    BY <1>2, <2>3 DEF TotalsTrack, Tracks, HasUnit
  <2> QED
    BY <2>1, <2>2, <2>3
<1> QED
  BY <1>1, <1>2 DEF TotalsTrack

LEMMA TracksStep ==
  ASSUME TypeOK, TypeOK', AllNumbers, TotalsTrack, [Next]_vars
  PROVE  AllNumbers' /\ TotalsTrack'
<1> USE DEF memory, environment
<1>1. CASE ReceiveMetric
  BY <1>1, MetricTracks
<1>2. ASSUME NEW failed \in WriteFailures, OnPoll(failed)
      PROVE  AllNumbers' /\ TotalsTrack'
  BY <1>2, PollTracks DEF EveryTotalTracks, TotalsTrack
<1>3. CASE \/ \E lost \in LostReads : Configure(lost)
           \/ ConfigureThrows \/ Crash
  <2>1. /\ total' = total \/ total' = NoTotals
        /\ \A o \in Owner : \/ \E devices : powerdevices'[o] = Unit(devices)
                            \/ powerdevices'[o] = powerdevices[o] /\ total' = total
    BY <1>3 DEF Configure, ConfigureRacks, ConfigureDCs, ConfigureThrows, Crash
  <2> QED
    BY <2>1, ReadTracks
<1>4. ASSUME UNCHANGED <<powerdevices, total>>
      PROVE  AllNumbers' /\ TotalsTrack'
  BY <1>4 DEF AllNumbers, IsNumber, QuantityIsKnown, TotalsTrack, Tracks, HasUnit
<1>5. Next /\ ~ ReceiveMetric /\ ~ (\E failed \in WriteFailures : OnPoll(failed))
        => \/ \E lost \in LostReads : Configure(lost)
           \/ ConfigureThrows \/ Crash
           \/ UNCHANGED <<powerdevices, total>>
  BY DEF Next, Start, SetPollInterval, ProcessAsset, DBChange, OtherAsset, Tick,
         SetClockBack
<1>6. CASE UNCHANGED vars
  BY <1>4, <1>6 DEF vars
<1> QED
  BY <1>1, <1>2, <1>3, <1>4, <1>5, <1>6

LEMMA TracksInit == Init => AllNumbers /\ TotalsTrack
<1> SUFFICES ASSUME Init PROVE AllNumbers /\ TotalsTrack
  OBVIOUS
<1>1. \A o \in Owner : ~ HasUnit(o)
  BY DEF Init, HasUnit, Unit
<1>2. TotalsTrack
  BY <1>1 DEF TotalsTrack, Tracks, Slot
<1>3. AllNumbers
  BY DEF Init, AllNumbers, IsNumber, NoTotals, NewSlot, QuantityIsKnown, ValueOf
<1> QED
  BY <1>2, <1>3

\* In every behaviour the total of a rack, and of an input phase of a data
\* center, is within Epsilon of the sum of the current measurements, whatever
\* metrics come in which order, and whatever is purged or reloaded.
THEOREM TotalsTrackHolds == Spec => []TotalsTrack
<1>1. TypeOK /\ TypeOK' /\ AllNumbers /\ TotalsTrack /\ [Next]_vars => AllNumbers' /\ TotalsTrack'
  BY TracksStep
<1> QED
  BY <1>1, TracksInit, TypeCorrect, PTL DEF Spec

\* A known total is a number, whatever is absent from the measurements it is
\* made of: no sum with a NaN in it is stored (calculate, SetTotal).
THEOREM TotalsAreNumbers == Spec => []AllNumbers
<1>1. TypeOK /\ TypeOK' /\ AllNumbers /\ TotalsTrack /\ [Next]_vars => AllNumbers' /\ TotalsTrack'
  BY TracksStep
<1> QED
  BY <1>1, TracksInit, TypeCorrect, PTL DEF Spec

\* After a poll every total is, though not every one was before.
THEOREM PollRecomputesAllHolds == Spec => PollRecomputesAll
<1>1. TypeOK /\ TypeOK' /\ AllNumbers /\ TotalsTrack /\ [Next]_vars => AllNumbers' /\ TotalsTrack'
  BY TracksStep
<1>2. TypeOK /\ TypeOK' /\ AllNumbers
        => [\A failed \in WriteFailures : OnPoll(failed) => EveryTotalTracks']_vars
  BY PollTracks
<1> QED
  BY <1>1, <1>2, TracksInit, TypeCorrect, PTL DEF Spec, PollRecomputesAll

-----------------------------------------------------------------------------
(* The phases of a data center's devices.                                  *)

LEMMA PhaseCountIs ==
  ASSUME NEW measures, NEW d,
         Measured(measures, d, Output(2)) \/ Measured(measures, d, Output(3))
  PROVE  PhaseCount(measures, d) = IF Measured(measures, d, Output(3)) THEN 3 ELSE 2
<1> DEFINE reported == {p \in Phase : Measured(measures, d, Output(p))}
           top      == IF 3 \in reported THEN 3 ELSE 2
<1>1. 2 \in reported \/ 3 \in reported
  BY DEF Phase
<1>2. reported \subseteq {1, 2, 3}
  BY DEF Phase
<1>3. 3 \in reported <=> Measured(measures, d, Output(3))
  BY DEF Phase
<1> HIDE DEF reported
<1>4. top \in reported \cup {0} /\ \A p \in reported : p <= top
  BY <1>1, <1>2
<1>5. \A n \in reported \cup {0} : (\A p \in reported : p <= n) => n = top
  BY <1>1, <1>2
<1>6. (CHOOSE n \in reported \cup {0} : \A p \in reported : p <= n) = top
  BY <1>4, <1>5
<1> QED
  BY <1>3, <1>6 DEF PhaseCount, reported

\* A total of the second or third phase is computed from devices that agree:
\* all report the phase, and none has another number of phases than the first.
LEMMA UpperTotal ==
  ASSUME NEW measures, DOMAIN measures \in SUBSET Nat,
         NEW q \in {Output(2), Output(3)}, Total(measures, q) # NaN
  PROVE  ~ PhasesDiffer(measures)
<1> DEFINE first == FirstDevice(measures)
<1>1. SUFFICES ASSUME DOMAIN measures # {} PROVE ~ PhasesDiffer(measures)
  BY DEF PhasesDiffer
<1>2. first \in DOMAIN measures
  BY <1>1, LeastNatural DEF FirstDevice
<1>3. Total(measures, q) = RealpowerOutput(measures, q)
  BY DEF Total, Outputs, Output, Phase, Default
<1>4. /\ \A d \in DOMAIN measures \ {first} :
           ~ MixedPhase(measures, d, PhasesOf(measures, first))
      /\ SimpleSummarize(measures, q) # NaN
  BY <1>3 DEF RealpowerOutput
<1>5. \A d \in DOMAIN measures : Measured(measures, d, q)
  BY <1>4 DEF SimpleSummarize, SumOrNaN, Measured
<1> DEFINE Third(d) == Measured(measures, d, Output(3))
<1>6. PhasesOf(measures, first) = IF Third(first) THEN 3 ELSE 2
  BY <1>2, <1>5 DEF PhasesOf
<1>7. \A d \in DOMAIN measures : Third(d) = Third(first)
  BY <1>4, <1>6 DEF MixedPhase, Measured
<1>8. \A d \in DOMAIN measures : PhaseCount(measures, d) = IF Third(d) THEN 3 ELSE 2
  BY <1>5, PhaseCountIs
<1> HIDE DEF first, Third
<1> QED
  BY <1>7, <1>8 DEF PhasesDiffer

LEMMA CalculateMoves ==
  ASSUME NEW s, NEW slot, NEW measures, NEW q, NEW t, NEW failed,
         AfterSend(s, Calculate(slot, measures, q, t), failed).lastValue # slot.lastValue
  PROVE  Total(measures, q) # NaN
<1> SUFFICES ASSUME Total(measures, q) = NaN PROVE FALSE
  OBVIOUS
<1> QED
  BY DEF Calculate, AfterSend, Advertised

\* A total gets a new value only when it can be computed.
LEMMA NewValueStep ==
  ASSUME [Next]_vars, NEW s \in Slot, QuantityIsKnown(total'[s]),
         total'[s].lastValue # total[s].lastValue
  PROVE  Total(powerdevices'[s[1]], s[2]) # NaN
<1> USE DEF memory, environment
<1>1. CASE ReceiveMetric
  <2>1. PICK d \in Device, q \in MetricQuantities, v \in MetricValues,
             age \in MetricAges, failed \in WriteFailures :
          ProcessMetric(d, q, MetricInfo(v, now - age, MetricTtl), failed)
    BY <1>1 DEF ReceiveMetric
  <2> DEFINE fresh == [r \in Refreshed(Fed(d, q), q) |->
                         Calculate(total[r], powerdevices'[r[1]], r[2], now)]
  <2>2. SendMeasurements(fresh, failed)
    BY <2>1 DEF ProcessMetric, Refreshed, Slot
  <2> QED
    BY <2>2, CalculateMoves DEF SendMeasurements
<1>2. ASSUME NEW failed \in WriteFailures, OnPoll(failed)
      PROVE  Total(powerdevices'[s[1]], s[2]) # NaN
  <2> DEFINE fresh == [r \in {r \in Slot : HasUnit(r[1])} |-> Polled(r)]
             slot  == DropOld(total[s], now)
  <2>1. SendMeasurements(fresh, failed) /\ powerdevices'[s[1]] = Purged(s[1])
    BY <1>2 DEF OnPoll, Slot
  <2>2. total'[s] = AfterSend(s, Calculate(slot, Purged(s[1]), s[2], now), failed)
    BY <2>1 DEF SendMeasurements, Polled
  <2>3. slot.lastValue \in {total[s].lastValue, NoMetric}
    BY DEF DropOld, RemoveOld
  <2>4. total'[s].lastValue # NoMetric
    BY DEF QuantityIsKnown, ValueOf
  <2> HIDE DEF slot
  <2> QED
    BY <2>1, <2>2, <2>3, <2>4, CalculateMoves
<1>3. CASE total' = NoTotals
  BY <1>3 DEF NoTotals, NewSlot, QuantityIsKnown, ValueOf
<1>4. Next /\ ~ ReceiveMetric /\ ~ (\E failed \in WriteFailures : OnPoll(failed))
        => total' = NoTotals \/ UNCHANGED total
  BY DEF Next, Configure, Start, ConfigureRacks, ConfigureDCs, ConfigureThrows,
         SetPollInterval, ProcessAsset, Crash, DBChange, OtherAsset, Tick,
         SetClockBack
<1> QED
  BY <1>1, <1>2, <1>3, <1>4 DEF vars

\* Whatever the order of metrics, polls and reloads: no total of the second or
\* third output phase gets a new value from devices that differ in their phases.
THEOREM UpperPhasesMatchHolds == Spec => UpperPhasesMatch
<1>1. TypeOK /\ TypeOK' /\ [Next]_vars => [
        \A s \in Slot :
          /\ s[2] \in {Output(2), Output(3)}
          /\ QuantityIsKnown(total'[s])
          /\ total'[s].lastValue # total[s].lastValue
          => ~ PhasesDiffer(powerdevices'[s[1]])]_vars
  <2> SUFFICES ASSUME TypeOK', [Next]_vars, NEW s \in Slot,
                      s[2] \in {Output(2), Output(3)},
                      QuantityIsKnown(total'[s]),
                      total'[s].lastValue # total[s].lastValue
               PROVE  ~ PhasesDiffer(powerdevices'[s[1]])
    OBVIOUS
  <2>1. Total(powerdevices'[s[1]], s[2]) # NaN
    BY NewValueStep
  <2>2. s[1] \in Owner /\ DOMAIN powerdevices'[s[1]] \in SUBSET Nat
    BY ConfigurationAssumption DEF TypeOK, IsUnit, Slot
  <2> QED
    BY <2>1, <2>2, UpperTotal
<1> QED
  BY <1>1, TypeCorrect, PTL DEF Spec, UpperPhasesMatch

-----------------------------------------------------------------------------
(* The age of a total, by the wall clock that can be set back.             *)

\* A known total expires after its TTL; the dates of one that is not marked as
\* changed are those of its copy in the SHM.  The clock stays within bounds.
IsDated(slot, pub) ==
  /\ slot.advertisedtimestamp <= MaxNow
  /\ slot.advertisedtimestamp # 0 => pub.time = slot.advertisedtimestamp
  /\ QuantityIsKnown(slot) =>
       /\ slot.lastValue.ttl = TTL
       /\ slot.lastValue.timestamp \in 0 .. MaxNow
       /\ ~ slot.changed => /\ slot.changetimestamp = slot.advertisedtimestamp
                            /\ slot.advertisedtimestamp # 0

DatesInv == now <= MaxNow /\ \A s \in Slot : IsDated(total[s], published[s])

LEMMA CalculateDated ==
  ASSUME NEW slot, NEW pub, IsDated(slot, pub), NEW measures, NEW q,
         now \in Nat, now <= MaxNow, MaxNow \in Nat,
         NEW dropped \in {slot, DropOld(slot, now)}
  PROVE  IsDated(Calculate(dropped, measures, q, now), pub)
<1>1. IsDated(dropped, pub)
  BY DEF IsDated, DropOld, RemoveOld, QuantityIsKnown, ValueOf
<1> QED
  BY <1>1 DEF IsDated, Calculate, SetTotal, MetricInfo

LEMMA SendDated ==
  ASSUME NEW s, NEW slot, IsDated(slot, published[s]), NEW failed, now \in Nat \ {0},
         now <= MaxNow
  PROVE  IsDated(AfterSend(s, slot, failed), Shown(s, slot, failed))
BY DEF IsDated, AfterSend, Shown, Advertised, Published, QuantityIsKnown

LEMMA SendMeasurementsDated ==
  ASSUME TypeOK, DatesInv, NEW fresh, NEW failed, SendMeasurements(fresh, failed),
         \A s \in Slot : s \in DOMAIN fresh => IsDated(fresh[s], published[s]),
         now' = now
  PROVE  DatesInv'
<1>1. \A s \in Slot : IsDated(total'[s], published'[s])
  BY SendDated DEF SendMeasurements, DatesInv, TypeOK
<1> QED
  BY <1>1 DEF DatesInv, IsDated

LEMMA DatesStep ==
  ASSUME TypeOK, DatesInv, [Next]_vars
  PROVE  DatesInv'
<1> USE DEF memory, environment
<1>0. /\ now \in Nat /\ now <= MaxNow /\ MaxNow \in Nat
      /\ \A s \in Slot : IsDated(total[s], published[s])
  BY ConfigurationAssumption DEF TypeOK, DatesInv
<1>1. CASE ReceiveMetric
  <2>1. PICK d \in Device, q \in MetricQuantities, v \in MetricValues,
             age \in MetricAges, failed \in WriteFailures :
          ProcessMetric(d, q, MetricInfo(v, now - age, MetricTtl), failed)
    BY <1>1 DEF ReceiveMetric
  <2> DEFINE fresh == [s \in Refreshed(Fed(d, q), q) |->
                         Calculate(total[s], powerdevices'[s[1]], s[2], now)]
  <2>2. SendMeasurements(fresh, failed) /\ now' = now
    BY <2>1 DEF ProcessMetric, Refreshed, Slot
  <2>3. \A s \in Slot : s \in DOMAIN fresh => IsDated(fresh[s], published[s])
    BY <1>0, CalculateDated
  <2> HIDE DEF fresh
  <2> QED
    BY <2>2, <2>3, SendMeasurementsDated
<1>2. ASSUME NEW failed \in WriteFailures, OnPoll(failed)
      PROVE  DatesInv'
  <2> DEFINE fresh == [s \in {s \in Slot : HasUnit(s[1])} |-> Polled(s)]
  <2>1. SendMeasurements(fresh, failed) /\ now' = now
    BY <1>2 DEF OnPoll
  <2>2. \A s \in Slot : s \in DOMAIN fresh => IsDated(fresh[s], published[s])
    BY <1>0, CalculateDated DEF Polled
  <2> HIDE DEF fresh
  <2> QED
    BY <2>1, <2>2, SendMeasurementsDated
<1>3. ASSUME total' = NoTotals, now' = now
      PROVE  DatesInv'
  BY <1>0, <1>3 DEF DatesInv, IsDated, NoTotals, NewSlot, QuantityIsKnown, ValueOf
<1>4. ASSUME UNCHANGED <<total, published>>, now' <= MaxNow
      PROVE  DatesInv'
  BY <1>4 DEF DatesInv, IsDated
<1>5. /\ Next /\ ~ ReceiveMetric /\ ~ (\E failed \in WriteFailures : OnPoll(failed))
      => \/ total' = NoTotals /\ now' = now
         \/ /\ UNCHANGED <<total, published>>
            /\ \/ now' = now
               \/ now' = now + 1 /\ now < MaxNow
               \/ \E k \in ClockSteps : now' = now - k
  BY DEF Next, Configure, Start, ConfigureRacks, ConfigureDCs, ConfigureThrows,
         SetPollInterval, ProcessAsset, Crash, DBChange, OtherAsset, Tick,
         SetClockBack
<1>6. ASSUME NEW k \in ClockSteps, now' = now - k
      PROVE  now' <= MaxNow
  <2>1. k \in Nat
    BY ConfigurationAssumption
  <2> QED
    BY <1>0, <1>6, <2>1
<1>7. CASE UNCHANGED vars
  BY <1>0, <1>4, <1>7 DEF vars
<1>8. now < MaxNow => now + 1 <= MaxNow
  BY <1>0
<1> QED
  BY <1>0, <1>1, <1>2, <1>3, <1>4, <1>5, <1>6, <1>7, <1>8

LEMMA DatesInit == MaxNow >= 1 /\ Init => DatesInv
BY ConfigurationAssumption
DEF Init, DatesInv, IsDated, NoTotals, NewSlot, QuantityIsKnown, ValueOf


\* The difference of two dates, as uint64_t: exact, or too large.
LEMMA USubDates ==
  ASSUME NEW n \in Nat, NEW a \in 0 .. n, NEW b \in 0 .. n, n < UintRange
  PROVE  /\ b <= a => USub(a, b) = a - b
         /\ a < b => USub(a, b) >= UintRange - n
<1>0. UintRange \in Nat \ {0}
  BY UintRangeAssumption
<1>1. ASSUME b <= a PROVE USub(a, b) = a - b
  BY <1>0, <1>1 DEF USub
<1>2. ASSUME a < b PROVE USub(a, b) >= UintRange - n
  <2>1. USub(a, b) = UintRange + (a - b)
    BY <1>0, <1>2 DEF USub
  <2> QED
    BY <1>0, <1>2, <2>1
<1> QED
  BY <1>1, <1>2

\* After a poll whose writes succeed the SHM shows every known total, sent
\* RepeatAfter ago at most: whatever failed before, whatever metrics came
\* between, and though the clock was set back and the process died.
THEOREM PollRefreshesHolds ==
  ASSUME MaxNow >= 1, MaxNow + RepeatAfter < UintRange
  PROVE  Spec => PollRefreshes
<1>0. MaxNow \in Nat /\ RepeatAfter \in Nat /\ UintRange \in Nat
  BY UnitAssumption, UintRangeAssumption, ConfigurationAssumption
<1>1. TypeOK /\ DatesInv /\ NoLostUpdate /\ OnPoll({}) =>
        \A s \in Slot :
          HasUnit(s[1]) /\ QuantityIsKnown(total'[s]) =>
            /\ now - published'[s].time \in 0 .. RepeatAfter
            /\ \/ published'[s].value = total'[s].lastValue.value
               \/ published'[s].time = now
  <2> SUFFICES ASSUME TypeOK, DatesInv, NoLostUpdate, OnPoll({}), NEW s \in Slot,
                      HasUnit(s[1]), QuantityIsKnown(total'[s])
               PROVE  /\ now - published'[s].time \in 0 .. RepeatAfter
                      /\ \/ published'[s].value = total'[s].lastValue.value
                         \/ published'[s].time = now
    OBVIOUS
  <2> DEFINE fresh == [r \in {r \in Slot : HasUnit(r[1])} |-> Polled(r)]
             slot == Polled(s)
  <2>0. now \in Nat \ {0} /\ now <= MaxNow /\ IsSlot(total[s])
    BY DEF TypeOK, DatesInv
  <2>1. SendMeasurements(fresh, {})
    BY DEF OnPoll
  <2>2. /\ total'[s] = AfterSend(s, slot, {})
        /\ published'[s] = Shown(s, slot, {})
    BY <2>1 DEF SendMeasurements
  <2>3. IsDated(slot, published[s])
    BY <1>0, <2>0, CalculateDated DEF Polled, DatesInv
  <2>4. InStep(slot, published[s])
    BY NoLostUpdateSlots, DropOldInStep, CalculateInStep DEF Polled
  <2>5. IsSlot(slot)
    BY <2>0, DropOldType, CalculateType DEF Polled
  <2> HIDE DEF fresh, slot
  <2>6. CASE Advertise(slot, now)
    <3>1. published'[s].time = now /\ published'[s].value = total'[s].lastValue.value
      BY <2>2, <2>6 DEF AfterSend, Shown, Sends, Advertised, Published
    <3> QED
      BY <1>0, <2>0, <3>1
  <2>7. CASE ~ Advertise(slot, now)
    <3>1. total'[s] = slot /\ published'[s] = published[s] /\ QuantityIsKnown(slot)
      BY <2>2, <2>7 DEF AfterSend, Shown, Sends
    <3>2. CASE slot.advertisedtimestamp = now
      BY <1>0, <2>0, <2>3, <3>1, <3>2 DEF IsDated
    <3>3. CASE slot.advertisedtimestamp # now
      <4>1. ~ slot.changed /\ ~ (USub(now, slot.changetimestamp) > RepeatAfter)
        BY <2>7, <3>1, <3>3 DEF Advertise
      <4>2. /\ slot.changetimestamp = published[s].time
            /\ published[s].time <= MaxNow /\ published[s].time \in Nat
        BY <2>3, <2>5, <3>1, <4>1 DEF IsDated, IsSlot
      <4>3. published[s].value = slot.lastValue.value
        BY <2>4, <3>1, <4>1 DEF InStep
      <4>4. /\ published[s].time <= now =>
                 USub(now, published[s].time) = now - published[s].time
            /\ now < published[s].time =>
                 USub(now, published[s].time) >= UintRange - MaxNow
        <5>1. now \in 0 .. MaxNow /\ published[s].time \in 0 .. MaxNow /\ MaxNow < UintRange
          BY <1>0, <2>0, <4>2
        <5> QED
          BY <1>0, <5>1, USubDates
      <4>5. USub(now, published[s].time) \in Int
        BY <1>0, <2>0, <4>2, UintRangeAssumption DEF USub
      <4>6. published[s].time <= now /\ now - published[s].time <= RepeatAfter
        BY <1>0, <2>0, <4>1, <4>2, <4>4, <4>5
      <4> QED
        BY <1>0, <2>0, <3>1, <4>2, <4>3, <4>6
    <3> QED
      BY <3>2, <3>3
  <2> QED
    BY <2>6, <2>7
<1>2. Spec => []DatesInv
  BY DatesInit, DatesStep, TypeCorrect, PTL DEF Spec
<1>3. TypeOK /\ DatesInv /\ NoLostUpdate =>
        [OnPoll({}) =>
           \A s \in Slot :
             HasUnit(s[1]) /\ QuantityIsKnown(total'[s]) =>
               /\ now - published'[s].time \in 0 .. RepeatAfter
               /\ \/ published'[s].value = total'[s].lastValue.value
                  \/ published'[s].time = now]_vars
  BY <1>1
<1> QED
  BY <1>2, <1>3, TypeCorrect, NoLostUpdateHolds, PTL DEF PollRefreshes

\* A total that cannot be computed any more is forgotten by the first poll
\* after its TTL, so nothing stale is sent then.
THEOREM StaleTotalsExpireHolds ==
  ASSUME MaxNow >= 1, MaxNow < UintRange
  PROVE  Spec => StaleTotalsExpire
<1>0. MaxNow \in Nat /\ TTL \in Nat /\ UintRange \in Nat
  BY UnitAssumption, UintRangeAssumption, ConfigurationAssumption
<1>1. TypeOK /\ DatesInv =>
        [\A failed \in WriteFailures :
           OnPoll(failed) =>
             \A s \in Slot :
               /\ HasUnit(s[1])
               /\ Total(powerdevices'[s[1]], s[2]) = NaN
               /\ QuantityIsKnown(total'[s])
               => now - total'[s].lastValue.timestamp <= TTL]_vars
  <2> SUFFICES ASSUME TypeOK, DatesInv, NEW failed \in WriteFailures, OnPoll(failed),
                      NEW s \in Slot, HasUnit(s[1]),
                      Total(powerdevices'[s[1]], s[2]) = NaN, QuantityIsKnown(total'[s])
               PROVE  now - total'[s].lastValue.timestamp <= TTL
    OBVIOUS
  <2> DEFINE fresh == [r \in {r \in Slot : HasUnit(r[1])} |-> Polled(r)]
  <2>1. SendMeasurements(fresh, failed) /\ powerdevices'[s[1]] = Purged(s[1])
    BY DEF OnPoll, Slot
  <2>2. fresh[s] = DropOld(total[s], now)
    BY <2>1 DEF Polled, Calculate
  <2>3. total'[s].lastValue = RemoveOld(total[s].lastValue, now)
    BY <2>1, <2>2 DEF SendMeasurements, AfterSend, Advertised, DropOld
  <2> HIDE DEF fresh
  <2>4. /\ total'[s].lastValue = total[s].lastValue /\ QuantityIsKnown(total[s])
        /\ total[s].lastValue # NoMetric /\ ~ Old(total[s].lastValue, now)
    BY <2>3 DEF RemoveOld, QuantityIsKnown, ValueOf
  <2> DEFINE at == total[s].lastValue.timestamp
  <2>5. at \in 0 .. MaxNow /\ total[s].lastValue.ttl = TTL /\ now \in 0 .. MaxNow
    BY <1>0, <2>4 DEF DatesInv, IsDated, TypeOK
  <2>6. ~ (USub(now, at) > TTL)
    BY <2>4, <2>5 DEF Old
  <2> HIDE DEF at
  <2>7. at <= now => USub(now, at) = now - at
    BY <1>0, <2>5, USubDates
  <2>8. now - at <= TTL
    BY <1>0, <2>5, <2>6, <2>7
  <2> QED
    BY <2>4, <2>8 DEF at
<1>2. Spec => []DatesInv
  BY DatesInit, DatesStep, TypeCorrect, PTL DEF Spec
<1> QED
  BY <1>1, <1>2, TypeCorrect, PTL DEF StaleTotalsExpire

=============================================================================
