---------------------------- MODULE TopologyProofs ----------------------------
(***************************************************************************)
(* Theorems about the reloading of the topology, for any number of owners  *)
(* and devices and any history of the database and of the asset messages.  *)
(***************************************************************************)
EXTENDS TotalPowerProofs

-----------------------------------------------------------------------------
(* Which steps change what is loaded.                                      *)

\* Measurements, purges and totals leave the devices of every unit alone.
LEMMA ReceiveMetricLoaded ==
  ASSUME TypeOK, ReceiveMetric
  PROVE  /\ \A o \in Owner : Loaded(o)' = Loaded(o)
         /\ UNCHANGED <<now, phase, affectedRacks, affectedDCs, reconfigPending,
                        timeout, db, inbox, torn>>
<1>1. PICK d \in Device, q \in MetricQuantities, v \in MetricValues,
           age \in MetricAges, failed \in WriteFailures :
        ProcessMetric(d, q, MetricInfo(v, now - age, MetricTtl), failed)
  BY DEF ReceiveMetric
<1> QED
  BY <1>1 DEF ProcessMetric, SetMeasurement, Loaded

LEMMA OnPollLoaded ==
  ASSUME NEW failed, OnPoll(failed)
  PROVE  /\ \A o \in Owner : Loaded(o)' = Loaded(o)
         /\ UNCHANGED <<now, affectedRacks, affectedDCs, reconfigPending, db, inbox,
                        torn>>
BY DEF OnPoll, Purged, Loaded

-----------------------------------------------------------------------------
(* No change of the database is forgotten.                                 *)

\* The strengthening: between the halves of configure() the racks just read
\* are current, or a message about them is unread; and so is one about every
\* owner that changes while configure() reads.
RacksAreCurrent ==
  phase \in {"bootDCs", "pollDCs"} /\ (\E o \in Rack : Loaded(o) # db[o]) =>
    ReloadIsComing

TornIsAnnounced ==
  torn # {} => phase \notin {"down", "idle"} /\ ReloadIsComing

ReloadInv == NoLostReconfiguration /\ RacksAreCurrent /\ TornIsAnnounced

LEMMA Messages ==
  ASSUME NEW q \in Seq(AssetOps), NEW op
  PROVE  /\ (\E i \in DOMAIN q : q[i] \in ReloadOps) =>
              \E i \in DOMAIN Append(q, op) : Append(q, op)[i] \in ReloadOps
         /\ op \in ReloadOps =>
              \E i \in DOMAIN Append(q, op) : Append(q, op)[i] \in ReloadOps
         /\ q # <<>> /\ Head(q) \notin ReloadOps /\ (\E i \in DOMAIN q : q[i] \in ReloadOps) =>
              \E i \in DOMAIN Tail(q) : Tail(q)[i] \in ReloadOps
<1>1. ASSUME NEW i \in DOMAIN q, q[i] \in ReloadOps
      PROVE  i \in DOMAIN Append(q, op) /\ Append(q, op)[i] = q[i]
  OBVIOUS
<1>2. /\ Len(q) + 1 \in DOMAIN Append(q, op)
      /\ Append(q, op)[Len(q) + 1] = op
  OBVIOUS
<1>3. ASSUME q # <<>>, Head(q) \notin ReloadOps,
             NEW i \in DOMAIN q, q[i] \in ReloadOps
      PROVE  i - 1 \in DOMAIN Tail(q) /\ Tail(q)[i - 1] = q[i]
  <2>1. i # 1
    BY <1>3
  <2> QED
    BY <1>3, <2>1
<1> QED
  BY <1>1, <1>2, <1>3

LEMMA ReloadStep ==
  ASSUME LostReads = {{}}, Garbled = {}
  PROVE  TypeOK /\ ReloadInv /\ [Next]_vars => ReloadInv'
<1> SUFFICES ASSUME TypeOK, ReloadInv, [Next]_vars PROVE ReloadInv'
  OBVIOUS
<1> USE DEF memory, environment
<1>1. ASSUME \A o \in Owner : Loaded(o)' = Loaded(o),
             UNCHANGED <<phase, reconfigPending, db, inbox, torn>>
      PROVE  ReloadInv'
  BY <1>1 DEF ReloadInv, NoLostReconfiguration, RacksAreCurrent, TornIsAnnounced, ReloadIsComing, Owner
<1>2. CASE Start
  BY <1>2 DEF Start, ReloadInv, NoLostReconfiguration, RacksAreCurrent, TornIsAnnounced
<1>3. ASSUME NEW read \in Reads({}), ConfigureRacks(read)
      PROVE  ReloadInv'
  <2>1. \A o \in Rack : Loaded(o)' = read[o]
    BY <1>3 DEF ConfigureRacks, Loaded, Unit, Owner
  <2>2. \A o \in Rack : read[o] # db[o] => ReloadIsComing
    BY DEF Reads, ReloadInv, TornIsAnnounced, Owner
  <2>3. /\ phase' \in {"bootDCs", "pollDCs"} /\ UNCHANGED <<db, inbox>>
        /\ torn' = {}
    BY <1>3 DEF ConfigureRacks
  <2>4. ReloadIsComing' = ReloadIsComing
    BY <2>3 DEF ReloadIsComing
  <2> QED
    BY <2>1, <2>2, <2>3, <2>4
    DEF ReloadInv, NoLostReconfiguration, RacksAreCurrent, TornIsAnnounced
<1>4. ASSUME NEW read \in Reads({}), ConfigureDCs(read)
      PROVE  ReloadInv'
  <2>1. \A o \in DC : Loaded(o)' = read[o]
    BY <1>4 DEF ConfigureDCs, Loaded, Unit, Owner
  <2>2. \A o \in DC : read[o] # db[o] => ReloadIsComing
    BY DEF Reads, ReloadInv, TornIsAnnounced, Owner
  <2>3. \A o \in Rack : Loaded(o)' = Loaded(o)
    BY <1>4, ConfigurationAssumption DEF ConfigureDCs, Loaded, Owner
  <2>4. /\ phase \in {"bootDCs", "pollDCs"} /\ phase' = "idle"
        /\ UNCHANGED <<db, inbox>> /\ torn' = {}
    BY <1>4 DEF ConfigureDCs, Return
  <2>5. ReloadIsComing' = ReloadIsComing
    BY <2>4 DEF ReloadIsComing
  <2> QED
    BY <2>1, <2>2, <2>3, <2>4, <2>5
    DEF ReloadInv, NoLostReconfiguration, RacksAreCurrent, TornIsAnnounced, Owner
<1>5. CASE ConfigureThrows
  <2>1. phase' = "idle" /\ reconfigPending' # 0 /\ torn' = {}
    BY <1>5, ConfigurationAssumption DEF ConfigureThrows, Return, TypeOK
  <2> QED
    BY <2>1 DEF ReloadInv, NoLostReconfiguration, RacksAreCurrent, TornIsAnnounced
<1>6. CASE ReceiveMetric
  BY <1>1, <1>6, ReceiveMetricLoaded
<1>7. CASE SetPollInterval
  BY <1>1, <1>7 DEF SetPollInterval, Loaded
<1>8. CASE ProcessAsset
  <2>1. /\ phase = "idle" /\ phase' = "idle" /\ db' = db
        /\ powerdevices' = powerdevices /\ torn' = {}
    BY <1>8 DEF ProcessAsset, ReloadInv, TornIsAnnounced
  <2>2. CASE Head(inbox) \in ReloadOps
    <3>1. reconfigPending' # 0
      BY <1>8, <2>2, ConfigurationAssumption DEF ProcessAsset, Schedule, TypeOK
    <3> QED
      BY <2>1, <3>1 DEF ReloadInv, NoLostReconfiguration, RacksAreCurrent, TornIsAnnounced
  <2>3. CASE Head(inbox) \notin ReloadOps
    <3>1. ReloadIsComing => ReloadIsComing'
      BY <1>8, <2>3, Messages DEF ProcessAsset, ReloadIsComing, TypeOK
    <3>2. reconfigPending' = reconfigPending
      BY <1>8, <2>3 DEF ProcessAsset
    <3> QED
      BY <2>1, <3>1, <3>2
      DEF ReloadInv, NoLostReconfiguration, RacksAreCurrent, TornIsAnnounced, Loaded
  <2> QED
    BY <2>2, <2>3
<1>9. ASSUME NEW failed \in WriteFailures, OnPoll(failed)
      PROVE  ReloadInv'
  <2>1. phase = "idle" /\ phase' \in {"idle", "pollRacks"}
    BY <1>9 DEF OnPoll
  <2> QED
    BY <1>9, <2>1, OnPollLoaded
    DEF ReloadInv, NoLostReconfiguration, RacksAreCurrent, TornIsAnnounced, ReloadIsComing
<1>10. CASE Crash
  BY <1>10 DEF Crash, ReloadInv, NoLostReconfiguration, RacksAreCurrent, TornIsAnnounced
<1>11. ASSUME NEW topology \in Topologies, NEW op \in AssetOps,
              DBChange(topology, op)
       PROVE  ReloadInv'
  <2>1. CASE phase = "down"
    BY <1>11, <2>1 DEF DBChange, ReloadInv, NoLostReconfiguration, RacksAreCurrent, TornIsAnnounced
  <2>2. CASE phase # "down"
    <3>1. ReloadIsComing'
      BY <1>11, <2>2, Messages DEF DBChange, Deliver, ReloadIsComing, TypeOK
    <3>2. phase' = phase /\ (phase = "idle" => torn' = torn)
      BY <1>11 DEF DBChange
    <3> QED
      BY <2>2, <3>1, <3>2
      DEF ReloadInv, NoLostReconfiguration, RacksAreCurrent, TornIsAnnounced
  <2> QED
    BY <2>1, <2>2
<1>12. ASSUME NEW op \in AssetOps, OtherAsset(op)
       PROVE  ReloadInv'
  <2>1. ReloadIsComing => ReloadIsComing'
    BY <1>12, Messages DEF OtherAsset, Deliver, ReloadIsComing, TypeOK
  <2> QED
    BY <1>12, <2>1
    DEF OtherAsset, ReloadInv, NoLostReconfiguration, RacksAreCurrent, TornIsAnnounced, Loaded
<1>16. ASSUME NEW lost \in LostReads, Configure(lost)
       PROVE  ReloadInv'
  BY <1>3, <1>4, <1>16 DEF Configure
<1>13. CASE Tick
  BY <1>1, <1>13 DEF Tick, Loaded
<1>14. ASSUME NEW k \in ClockSteps, SetClockBack(k)
       PROVE  ReloadInv'
  BY <1>1, <1>14 DEF SetClockBack, Loaded
<1>15. CASE UNCHANGED vars
  BY <1>1, <1>15 DEF vars, Loaded
<1> QED
  BY <1>2, <1>16, <1>5, <1>6, <1>7, <1>8, <1>9, <1>10, <1>11, <1>12,
     <1>13, <1>14, <1>15 DEF Next

\* When no read of the database fails silently and every message about a change
\* can be decoded, no change of the topology is forgotten, however changes,
\* messages, polls, exceptions and crashes interleave, and whatever mixture the
\* selects of a reload see of an owner that changes under them.
THEOREM NoLostReconfigurationHolds ==
  ASSUME LostReads = {{}}, Garbled = {}
  PROVE  Spec => []NoLostReconfiguration
<1>1. Init => ReloadInv
  BY DEF Init, ReloadInv, NoLostReconfiguration, RacksAreCurrent, TornIsAnnounced
<1>2. ReloadInv => NoLostReconfiguration
  BY DEF ReloadInv
<1> QED
  BY <1>1, <1>2, ReloadStep, TypeCorrect, PTL DEF Spec

-----------------------------------------------------------------------------
(* The reverse maps.                                                       *)

\* The two maps, each about the owners of its type.
Agrees(map, owners) ==
  \A d \in Device :
    /\ map[d] # NoOwner => d \in Loaded(map[d])
    /\ \A o \in owners : d \in Loaded(o) => map[d] # NoOwner

MapsAgree == Agrees(affectedRacks, Rack) /\ Agrees(affectedDCs, DC)

LEMMA MapsAgreeSuffices == TypeOK => (MapsAgree <=> ReverseMapsAgree)
BY ConfigurationAssumption
DEF TypeOK, MapsAgree, Agrees, ReverseMapsAgree, Loaded, AffectedUnit, Owner

\* A reverse map made from what the owners were loaded with agrees with them.
LEMMA ReverseMapAgrees ==
  ASSUME NEW read, NEW owners \in SUBSET Owner,
         \A o \in owners : Loaded(o)' = read[o]
  PROVE  \A d \in Device :
           LET map == ReverseMap(read, owners)
           IN  /\ map[d] # NoOwner => d \in Loaded(map[d])'
               /\ \A o \in owners : d \in Loaded(o)' => map[d] # NoOwner
<1> SUFFICES ASSUME NEW d \in Device
             PROVE  LET map == ReverseMap(read, owners)
                    IN  /\ map[d] # NoOwner => d \in Loaded(map[d])'
                        /\ \A o \in owners : d \in Loaded(o)' => map[d] # NoOwner
  OBVIOUS
<1> DEFINE u == ReverseMap(read, owners)[d]
<1>1. CASE \E e \in owners : d \in read[e]
  <2>1. u \in owners /\ d \in read[u]
    BY <1>1, ReverseMapOwner, Zenon
  <2>2. u # NoOwner
    BY <2>1, ConfigurationAssumption
  <2> QED
    BY <2>1, <2>2
<1>2. CASE ~ \E e \in owners : d \in read[e]
  <2>1. {o \in owners : d \in read[o]} = {}
    BY <1>2
  <2>2. u = NoOwner
    BY <2>1 DEF ReverseMap
  <2>3. \A o \in owners : d \notin Loaded(o)'
    BY <1>2
  <2> QED
    BY <2>2, <2>3
<1> QED
  BY <1>1, <1>2

LEMMA MapsAgreeStep == TypeOK /\ MapsAgree /\ [Next]_vars => MapsAgree'
<1> SUFFICES ASSUME TypeOK, MapsAgree, [Next]_vars PROVE MapsAgree'
  OBVIOUS
<1> USE DEF memory, environment
<1>1. ASSUME \A o \in Owner : Loaded(o)' = Loaded(o),
             UNCHANGED <<affectedRacks, affectedDCs>>
      PROVE  MapsAgree'
  BY <1>1 DEF MapsAgree, Agrees, TypeOK, Owner
<1>2. ASSUME \A o \in Owner : Loaded(o)' = {},
             affectedRacks' = NoOwners, affectedDCs' = NoOwners
      PROVE  MapsAgree'
  BY <1>2 DEF MapsAgree, Agrees, NoOwners, Owner
<1>3. ASSUME NEW lost \in LostReads, NEW read \in Reads(lost),
              ConfigureRacks(read)
      PROVE  MapsAgree'
  <2>1. \A o \in Rack : Loaded(o)' = read[o]
    BY <1>3 DEF ConfigureRacks, Loaded, Unit, Owner
  <2>2. \A o \in DC : Loaded(o)' = {}
    BY <1>3, ConfigurationAssumption DEF ConfigureRacks, Loaded, Unit, Owner
  <2>3. affectedRacks' = ReverseMap(read, Rack) /\ affectedDCs' = NoOwners
    BY <1>3 DEF ConfigureRacks
  <2>4. Agrees(affectedRacks, Rack)'
    BY <2>1, <2>3, ReverseMapAgrees DEF Agrees, Owner
  <2> QED
    BY <2>2, <2>3, <2>4 DEF MapsAgree, Agrees, NoOwners
<1>4. ASSUME NEW lost \in LostReads, NEW read \in Reads(lost),
              ConfigureDCs(read)
      PROVE  MapsAgree'
  <2>1. \A o \in DC : Loaded(o)' = read[o]
    BY <1>4 DEF ConfigureDCs, Loaded, Unit, Owner
  <2>2. \A o \in Rack : Loaded(o)' = Loaded(o)
    BY <1>4, ConfigurationAssumption DEF ConfigureDCs, Loaded, Owner
  <2>3. affectedDCs' = ReverseMap(read, DC) /\ affectedRacks' = affectedRacks
    BY <1>4 DEF ConfigureDCs
  <2>4. Agrees(affectedDCs, DC)'
    BY <2>1, <2>3, ReverseMapAgrees DEF Agrees, Owner
  <2>5. Agrees(affectedRacks, Rack)'
    <3>1. \A d \in Device : affectedRacks[d] # NoOwner => affectedRacks[d] \in Rack
      BY DEF TypeOK
    <3> QED
      BY <2>2, <2>3, <3>1 DEF Agrees, MapsAgree
  <2> QED
    BY <2>4, <2>5 DEF MapsAgree
<1>5. CASE ConfigureThrows
  <2>1. CASE phase \in {"bootRacks", "pollRacks"}
    BY <1>2, <1>5, <2>1 DEF ConfigureThrows, Loaded, Unit
  <2>2. CASE phase \notin {"bootRacks", "pollRacks"}
    BY <1>1, <1>5, <2>2 DEF ConfigureThrows, Loaded
  <2> QED
    BY <2>1, <2>2
<1>6. CASE Crash
  BY <1>2, <1>6 DEF Crash, Loaded, Unit
<1>7. CASE ReceiveMetric
  BY <1>1, <1>7, ReceiveMetricLoaded
<1>8. ASSUME NEW failed \in WriteFailures, OnPoll(failed)
      PROVE  MapsAgree'
  BY <1>1, <1>8, OnPollLoaded
<1>9. CASE Start \/ SetPollInterval \/ ProcessAsset \/ Tick \/ UNCHANGED vars
  BY <1>1, <1>9 DEF Start, SetPollInterval, ProcessAsset, Tick, vars, Loaded
<1>10. ASSUME NEW topology \in Topologies, NEW op \in AssetOps,
              DBChange(topology, op)
       PROVE  MapsAgree'
  BY <1>1, <1>10 DEF DBChange, Loaded
<1>11. ASSUME NEW op \in AssetOps, OtherAsset(op)
       PROVE  MapsAgree'
  BY <1>1, <1>11 DEF OtherAsset, Loaded
<1>12. ASSUME NEW k \in ClockSteps, SetClockBack(k)
       PROVE  MapsAgree'
  BY <1>1, <1>12 DEF SetClockBack, Loaded
<1> QED
  BY <1>3, <1>4, <1>5, <1>6, <1>7, <1>8, <1>9, <1>10, <1>11, <1>12 DEF Next, Configure

\* The reverse maps and the units describe one topology at every moment, also
\* inside configure() and after a reload that failed half way.
THEOREM ReverseMapsAgreeHolds == Spec => []ReverseMapsAgree
<1>1. Init => MapsAgree
  BY DEF Init, MapsAgree, Agrees, NoOwners, Loaded, Unit, Owner
<1> QED
  BY <1>1, MapsAgreeSuffices, MapsAgreeStep, TypeCorrect, PTL DEF Spec

-----------------------------------------------------------------------------
(* A reload that is scheduled comes soon, and is not moved.                *)

\* The strengthening: until it is first set, the poll interval is the initial
\* one, which is no longer than the delay of a reload.
InitialTimeout ==
  phase \in {"down", "bootRacks", "bootDCs"} => timeout = PollingInterval

\* A poll interval, from which the server wakes in time for the reload.
InTime(pending, interval) ==
  now + interval <= IF pending <= now THEN now + 1 ELSE pending + 1

LEMMA GetPollIntervalInTime ==
  ASSUME NEW slots, Slots(slots), NEW pending \in Nat \ {0}, now \in Nat
  PROVE  InTime(pending, GetPollInterval(slots, pending))
<1>1. GetPollInterval(slots, pending) \in Nat
  BY GetPollIntervalLeast
<1> QED
  BY <1>1, GetPollIntervalPending DEF InTime

LEMMA InitialTimeoutStep == InitialTimeout /\ [Next]_vars => InitialTimeout'
BY DEF InitialTimeout, Next, Configure, Start, ConfigureRacks, ConfigureDCs,
       ConfigureThrows, Return, ReceiveMetric, ProcessMetric, SetPollInterval,
       ProcessAsset, OnPoll, Crash, DBChange, OtherAsset, Tick, SetClockBack, vars,
       memory

\* Whatever schedules a reload sees to the poll interval.
LEMMA ScheduledInTime ==
  ASSUME TypeOK, TypeOK', InitialTimeout, [Next]_vars,
         reconfigPending' # 0, reconfigPending' # reconfigPending
  PROVE  InTime(reconfigPending', timeout')
<1>0. /\ now \in Nat /\ reconfigPending \in Nat /\ reconfigPending' \in Nat
      /\ Slots(total) /\ Slots(total')
      /\ ReconfigDelay \in Nat \ {0}
  BY ConfigurationAssumption DEF TypeOK, Slots
<1>1. ConfigureThrows \/ ProcessAsset
  BY DEF Next, Configure, Start, ConfigureRacks, ConfigureDCs, Return, ReceiveMetric,
         ProcessMetric, SetPollInterval, OnPoll, Crash, DBChange, OtherAsset, Tick,
         SetClockBack, vars, memory
<1>2. CASE ConfigureThrows
  <2>1. reconfigPending' = now + ReconfigDelay
    BY <1>2 DEF ConfigureThrows, Return
  <2>2. CASE phase \in {"pollRacks", "pollDCs"}
    <3>1. timeout' = GetPollInterval(total', reconfigPending')
      BY <1>2, <2>2 DEF ConfigureThrows, Return
    <3> QED
      BY <1>0, <3>1, GetPollIntervalInTime
  <2>3. CASE phase \in {"bootRacks", "bootDCs"}
    <3>1. timeout' = PollingInterval
      BY <1>2, <2>3 DEF ConfigureThrows, Return, InitialTimeout
    <3> QED
      BY <1>0, <2>1, <3>1, ConfigurationAssumption DEF InTime
  <2> QED
    BY <1>2, <2>2, <2>3 DEF ConfigureThrows
<1>3. CASE ProcessAsset
  <2>1. timeout' = GetPollInterval(total, reconfigPending')
    BY <1>3 DEF ProcessAsset
  <2> QED
    BY <1>0, <2>1, GetPollIntervalInTime
<1> QED
  BY <1>1, <1>2, <1>3

LEMMA SoonStep ==
  TypeOK /\ TypeOK' /\ InitialTimeout /\ [Next]_vars => [
    /\ phase' = "idle" /\ reconfigPending' # 0
    /\ \/ reconfigPending' # reconfigPending
       \/ SetPollInterval
       \/ \E failed \in WriteFailures : OnPoll(failed)
    => InTime(reconfigPending', timeout')]_vars
<1> SUFFICES ASSUME TypeOK, TypeOK', InitialTimeout, [Next]_vars,
                    phase' = "idle", reconfigPending' # 0,
                    \/ reconfigPending' # reconfigPending
                    \/ SetPollInterval
                    \/ \E failed \in WriteFailures : OnPoll(failed)
             PROVE  InTime(reconfigPending', timeout')
  OBVIOUS
<1>1. now \in Nat /\ reconfigPending' \in Nat \ {0} /\ Slots(total) /\ Slots(total')
  BY DEF TypeOK, Slots
<1>2. CASE reconfigPending' # reconfigPending
  BY <1>2, ScheduledInTime
<1>3. CASE SetPollInterval
  <2>1. reconfigPending' = reconfigPending
        /\ timeout' = GetPollInterval(total, reconfigPending)
    BY <1>3 DEF SetPollInterval
  <2> QED
    BY <1>1, <2>1, GetPollIntervalInTime
<1>4. ASSUME NEW failed \in WriteFailures, OnPoll(failed)
      PROVE  InTime(reconfigPending', timeout')
  <2>1. reconfigPending' = reconfigPending
        /\ timeout' = GetPollInterval(total', reconfigPending)
    BY <1>4 DEF OnPoll
  <2> QED
    BY <1>1, <2>1, GetPollIntervalInTime
<1> QED
  BY <1>2, <1>3, <1>4

\* Whatever happened before, and however the clock was set: when a reload is
\* scheduled, after every batch of metrics and after every poll, the server is
\* told to wake at most a second after the reload's time.
THEOREM ReloadIsSoonHolds == Spec => ReloadIsSoon
<1>1. Init => InitialTimeout
  BY DEF Init, InitialTimeout
<1>2. TypeOK /\ TypeOK' /\ InitialTimeout /\ [Next]_vars => [
        /\ phase' = "idle" /\ reconfigPending' # 0
        /\ \/ reconfigPending' # reconfigPending
           \/ SetPollInterval
           \/ \E failed \in WriteFailures : OnPoll(failed)
        => now + timeout' <= IF reconfigPending' <= now THEN now + 1
                             ELSE reconfigPending' + 1]_vars
  BY SoonStep DEF InTime
<1> QED
  BY <1>1, <1>2, InitialTimeoutStep, TypeCorrect, PTL DEF Spec, ReloadIsSoon

\* The strengthening: nothing is scheduled before the first configure().
NonePending == phase \in {"down", "bootRacks", "bootDCs"} => reconfigPending = 0

Kept == reconfigPending # 0 /\ reconfigPending' # reconfigPending =>
          phase' = "down" \/ phase \in {"pollRacks", "pollDCs"}

LEMMA KeptStep == NonePending /\ [Next]_vars => NonePending' /\ Kept
<1> SUFFICES ASSUME NonePending, [Next]_vars PROVE NonePending' /\ Kept
  OBVIOUS
<1> USE DEF memory, environment, NonePending, Kept
<1>1. ASSUME UNCHANGED <<phase, reconfigPending>>
      PROVE  NonePending' /\ Kept
  BY <1>1
<1>2. CASE ReceiveMetric
  <2>1. PICK d \in Device, q \in MetricQuantities, v \in MetricValues,
             age \in MetricAges, failed \in WriteFailures :
          ProcessMetric(d, q, MetricInfo(v, now - age, MetricTtl), failed)
    BY <1>2 DEF ReceiveMetric
  <2> QED
    BY <1>1, <2>1 DEF ProcessMetric
<1>3. ASSUME NEW failed \in WriteFailures, OnPoll(failed)
      PROVE  NonePending' /\ Kept
  BY <1>3 DEF OnPoll
<1>4. CASE Start \/ ConfigureThrows \/ SetPollInterval \/ ProcessAsset \/ Crash
           \/ Tick \/ UNCHANGED vars
  BY <1>4 DEF Start, ConfigureThrows, SetPollInterval, ProcessAsset, Crash, Tick,
              vars, Return, Schedule
<1>5. ASSUME NEW lost \in LostReads, NEW read \in Reads(lost),
              ConfigureRacks(read)
      PROVE  NonePending' /\ Kept
  BY <1>5 DEF ConfigureRacks
<1>6. ASSUME NEW lost \in LostReads, NEW read \in Reads(lost),
              ConfigureDCs(read)
      PROVE  NonePending' /\ Kept
  BY <1>6 DEF ConfigureDCs, Return
<1>7. ASSUME NEW topology \in Topologies, NEW op \in AssetOps,
              DBChange(topology, op)
      PROVE  NonePending' /\ Kept
  BY <1>1, <1>7 DEF DBChange
<1>8. ASSUME NEW op \in AssetOps, OtherAsset(op)
      PROVE  NonePending' /\ Kept
  BY <1>1, <1>8 DEF OtherAsset
<1>9. ASSUME NEW k \in ClockSteps, SetClockBack(k)
      PROVE  NonePending' /\ Kept
  BY <1>1, <1>9 DEF SetClockBack
<1> QED
  BY <1>2, <1>3, <1>4, <1>5, <1>6, <1>7, <1>8, <1>9 DEF Next, Configure

\* Once scheduled, a reload is not moved by anything but configure() and the
\* end of the process, so messages that keep coming cannot put it off.
THEOREM ReloadIsKeptHolds == Spec => ReloadIsKept
<1>1. Init => NonePending
  BY DEF Init, NonePending
<1>2. NonePending /\ [Next]_vars => [Kept]_vars
  BY KeptStep
<1> QED
  BY <1>1, <1>2, KeptStep, PTL DEF Spec, ReloadIsKept, Kept

-----------------------------------------------------------------------------
(* Totals and the devices that two units claim.                            *)

\* The strengthening: a unit has measurements only of the devices that the
\* reverse maps send to it, and a data center has no devices until configure()
\* reads them.
MeasuresAreFed ==
  \A o \in Owner : \A d \in Loaded(o), q \in Quantity :
    powerdevices[o][d][q] # NoMetric => AffectedUnit(d, o) = o

CentersAreUnread ==
  phase \in {"bootDCs", "pollDCs"} => \A o \in DC : Loaded(o) = {}

FedInv == KnownTotalsAreFed /\ MeasuresAreFed /\ CentersAreUnread

\* A unit whose total can be computed has a measurement of every device.
LEMMA TotalledIsMeasured ==
  ASSUME NEW measures, NEW quantity \in Quantity,
         Total(measures, quantity) # NaN
  PROVE  \A d \in DOMAIN measures : \E q \in Quantity : measures[d][q] # NoMetric
<1> SUFFICES ASSUME NEW d \in DOMAIN measures
             PROVE  \E q \in Quantity : measures[d][q] # NoMetric
  OBVIOUS
<1>1. ASSUME SimpleSummarize(measures, quantity) # NaN
      PROVE  measures[d][quantity] # NoMetric
  BY <1>1 DEF SimpleSummarize, SumOrNaN, GetMetricValue, ValueOf
<1>2. ASSUME RealpowerDefault(measures) # NaN
      PROVE  \E q \in Quantity : measures[d][q] # NoMetric
  <2>1. CASE Measured(measures, d, Default)
    BY <2>1 DEF Measured, GetMetricValue, ValueOf, Quantity, DCQuantities
  <2>2. CASE ~ Measured(measures, d, Default)
    <3>1. SumOrNaN([p \in Phase |-> GetMetricValue(measures, d, Output(p))]) # NaN
      BY <1>2, <2>2 DEF RealpowerDefault, SumOrNaN
    <3>2. 1 \in Phase /\ Output(1) \in Quantity
      BY DEF Phase, Quantity, DCQuantities, Outputs
    <3>3. measures[d][Output(1)] # NoMetric
      BY <3>1, <3>2 DEF SumOrNaN, GetMetricValue, ValueOf
    <3> QED
      BY <3>2, <3>3
  <2> QED
    BY <2>1, <2>2
<1>3. \/ Total(measures, quantity) = SimpleSummarize(measures, quantity)
      \/ Total(measures, quantity) = RealpowerDefault(measures)
  BY DEF Total, RealpowerOutput
<1> QED
  BY <1>1, <1>2, <1>3

\* Neither a calculation nor a sending makes a total known that was unknown
\* and cannot be computed.
LEMMA KnownByCalculation ==
  ASSUME NEW s, NEW slot, NEW measures, NEW quantity, NEW failed, NEW dropped,
         dropped \in {slot, DropOld(slot, now)},
         QuantityIsKnown(AfterSend(s, Calculate(dropped, measures, quantity, now), failed))
  PROVE  QuantityIsKnown(slot) \/ Total(measures, quantity) # NaN
<1>1. QuantityIsKnown(Calculate(dropped, measures, quantity, now))
  BY DEF AfterSend, Advertised, QuantityIsKnown
<1>2. QuantityIsKnown(dropped) \/ Total(measures, quantity) # NaN
  BY <1>1 DEF Calculate
<1> QED
  BY <1>2 DEF DropOld, RemoveOld, QuantityIsKnown, ValueOf

\* The totals of a step that keeps the units and the reverse maps.
LEMMA FedTotals ==
  ASSUME FedInv, MeasuresAreFed', NEW fresh, NEW failed,
         SendMeasurements(fresh, failed),
         \A o \in Owner : Loaded(o)' = Loaded(o),
         UNCHANGED <<affectedRacks, affectedDCs>>,
         \A s \in Slot : s \in DOMAIN fresh =>
           /\ HasUnit(s[1])
           /\ \E dropped \in {total[s], DropOld(total[s], now)} :
                fresh[s] = Calculate(dropped, powerdevices'[s[1]], s[2], now)
  PROVE  KnownTotalsAreFed'
<1> SUFFICES ASSUME NEW s \in Slot, QuantityIsKnown(total'[s])
             PROVE  /\ HasUnit(s[1])'
                    /\ \A d \in Loaded(s[1])' : AffectedUnit(d, s[1])' = s[1]
  BY DEF KnownTotalsAreFed, Loaded
<1>1. s[1] \in Owner /\ s[2] \in Quantity
  BY DEF Slot
<1>2. CASE QuantityIsKnown(total[s])
  BY <1>1, <1>2 DEF FedInv, KnownTotalsAreFed, Loaded, HasUnit, AffectedUnit
<1>3. CASE ~ QuantityIsKnown(total[s])
  <2>1. s \in DOMAIN fresh /\ total'[s] = AfterSend(s, fresh[s], failed)
    BY <1>3 DEF SendMeasurements
  <2>2. Total(powerdevices'[s[1]], s[2]) # NaN
    BY <1>3, <2>1, KnownByCalculation
  <2>3. \A d \in Loaded(s[1])' : \E q \in Quantity : powerdevices'[s[1]][d][q] # NoMetric
    BY <1>1, <2>2, TotalledIsMeasured DEF Loaded
  <2> QED
    BY <1>1, <2>1, <2>3 DEF MeasuresAreFed, HasUnit, Loaded
<1> QED
  BY <1>2, <1>3

LEMMA FedStep == TypeOK /\ FedInv /\ [Next]_vars => FedInv'
<1> SUFFICES ASSUME TypeOK, FedInv, [Next]_vars PROVE FedInv'
  OBVIOUS
<1> USE DEF memory, environment
<1>1. ASSUME UNCHANGED <<powerdevices, total, affectedRacks, affectedDCs>>,
             phase' \in {"bootDCs", "pollDCs"} => phase' = phase
      PROVE  FedInv'
  BY <1>1 DEF FedInv, KnownTotalsAreFed, MeasuresAreFed, CentersAreUnread,
              HasUnit, Loaded, AffectedUnit
<1>2. ASSUME total' = NoTotals,
             \A o \in Owner : \A d \in Loaded(o)', q \in Quantity :
               powerdevices'[o][d][q] = NoMetric,
             phase' \in {"bootDCs", "pollDCs"} => \A o \in DC : Loaded(o)' = {}
      PROVE  FedInv'
  <2>1. \A s \in Slot : ~ QuantityIsKnown(total'[s])
    BY <1>2 DEF NoTotals, NewSlot, QuantityIsKnown, ValueOf
  <2> QED
    BY <1>2, <2>1 DEF FedInv, KnownTotalsAreFed, MeasuresAreFed, CentersAreUnread
<1>3. ASSUME NEW lost \in LostReads, NEW read \in Reads(lost),
              ConfigureRacks(read)
      PROVE  FedInv'
  <2>1. \A o \in Owner : \A d \in Loaded(o)', q \in Quantity :
          powerdevices'[o][d][q] = NoMetric
    BY <1>3 DEF ConfigureRacks, Loaded, Unit, EmptyList
  <2>2. \A o \in DC : Loaded(o)' = {}
    BY <1>3, ConfigurationAssumption DEF ConfigureRacks, Loaded, Unit, Owner
  <2> QED
    BY <1>2, <1>3, <2>1, <2>2 DEF ConfigureRacks
<1>4. ASSUME NEW lost \in LostReads, NEW read \in Reads(lost),
              ConfigureDCs(read)
      PROVE  FedInv'
  <2>1. /\ total' = total /\ affectedRacks' = affectedRacks /\ phase' = "idle"
        /\ \A o \in Rack : o \notin DC /\ powerdevices'[o] = powerdevices[o]
    BY <1>4, ConfigurationAssumption DEF ConfigureDCs, Return, Owner
  <2>2. \A o \in DC : Loaded(o) = {}
    BY <1>4 DEF ConfigureDCs, FedInv, CentersAreUnread
  <2>3. \A o \in DC : \A d \in Loaded(o)', q \in Quantity :
          powerdevices'[o][d][q] = NoMetric
    BY <1>4 DEF ConfigureDCs, Loaded, Unit, EmptyList, Owner
  <2>4. MeasuresAreFed'
    BY <2>1, <2>3 DEF FedInv, MeasuresAreFed, Loaded, AffectedUnit, Owner
  <2>5. \A s \in Slot : QuantityIsKnown(total'[s]) => s[1] \in Rack
    BY <2>1, <2>2 DEF FedInv, KnownTotalsAreFed, HasUnit, Loaded, Slot, Owner
  <2>6. KnownTotalsAreFed'
    BY <2>1, <2>5 DEF FedInv, KnownTotalsAreFed, HasUnit, AffectedUnit
  <2> QED
    BY <2>1, <2>4, <2>6 DEF FedInv, CentersAreUnread
<1>5. CASE ConfigureThrows
  <2>1. phase' = "idle"
    BY <1>5 DEF ConfigureThrows, Return
  <2>2. CASE phase \in {"bootRacks", "pollRacks"}
    BY <1>2, <1>5, <2>1, <2>2 DEF ConfigureThrows, Loaded, Unit
  <2>3. CASE phase \notin {"bootRacks", "pollRacks"}
    BY <1>1, <1>5, <2>1, <2>3 DEF ConfigureThrows
  <2> QED
    BY <2>2, <2>3
<1>6. CASE Crash
  BY <1>2, <1>6 DEF Crash, Loaded, Unit
<1>7. CASE ReceiveMetric
  <2>1. PICK d \in Device, q \in MetricQuantities, v \in MetricValues,
             age \in MetricAges, failed \in WriteFailures :
          ProcessMetric(d, q, MetricInfo(v, now - age, MetricTtl), failed)
    BY <1>7 DEF ReceiveMetric
  <2> DEFINE m == MetricInfo(v, now - age, MetricTtl)
             fresh == [s \in Refreshed(Fed(d, q), q) |->
                         Calculate(total[s], powerdevices'[s[1]], s[2], now)]
  <2>2. /\ \A o \in Owner : Loaded(o)' = Loaded(o)
        /\ UNCHANGED <<phase, affectedRacks, affectedDCs>>
    BY <1>7, ReceiveMetricLoaded
  <2>3. \A o \in Fed(d, q) : AffectedUnit(d, o) = o
    BY DEF Fed, AffectedUnit
  <2>4. \A o \in Owner : \A e \in Loaded(o), r \in Quantity :
          \/ powerdevices'[o][e][r] = powerdevices[o][e][r]
          \/ e = d /\ o \in Fed(d, q)
    BY <2>1 DEF ProcessMetric, SetMeasurement, Loaded
  <2>5. MeasuresAreFed'
    BY <2>2, <2>3, <2>4 DEF FedInv, MeasuresAreFed, AffectedUnit
  <2>6. SendMeasurements(fresh, failed)
    <3>1. \A s \in Slot : powerdevices'[s[1]] =
            IF s[1] \in Fed(d, q) THEN SetMeasurement(powerdevices[s[1]], d, q, m)
                                  ELSE powerdevices[s[1]]
      BY <2>1 DEF ProcessMetric, Slot
    <3> QED
      BY <2>1, <3>1 DEF ProcessMetric, Refreshed
  <2>7. \A s \in DOMAIN fresh : HasUnit(s[1])
    BY DEF Refreshed, Fed
  <2>8. KnownTotalsAreFed'
    <3>1. \A s \in DOMAIN fresh :
            fresh[s] = Calculate(total[s], powerdevices'[s[1]], s[2], now)
      OBVIOUS
    <3> HIDE DEF fresh
    <3>2. \A s \in DOMAIN fresh : \E dropped \in {total[s], DropOld(total[s], now)} :
            fresh[s] = Calculate(dropped, powerdevices'[s[1]], s[2], now)
      BY <3>1
    <3>3. \A s \in Slot : s \in DOMAIN fresh =>
            /\ HasUnit(s[1])
            /\ \E dropped \in {total[s], DropOld(total[s], now)} :
                 fresh[s] = Calculate(dropped, powerdevices'[s[1]], s[2], now)
      BY <2>7, <3>2
    <3>4. /\ \A o \in Owner : Loaded(o)' = Loaded(o)
          /\ UNCHANGED <<affectedRacks, affectedDCs>>
      BY <2>2
    <3> HIDE DEF FedInv
    <3> QED
      BY <2>5, <2>6, <3>3, <3>4, FedTotals
  <2> QED
    BY <2>2, <2>5, <2>8 DEF FedInv, CentersAreUnread, Owner
<1>8. ASSUME NEW failed \in WriteFailures, OnPoll(failed)
      PROVE  FedInv'
  <2> DEFINE fresh == [s \in {s \in Slot : HasUnit(s[1])} |-> Polled(s)]
  <2>1. /\ \A o \in Owner : Loaded(o)' = Loaded(o)
        /\ UNCHANGED <<affectedRacks, affectedDCs>>
        /\ phase' \in {"idle", "pollRacks"}
    BY <1>8, OnPollLoaded DEF OnPoll
  <2>2. MeasuresAreFed'
    <3>1. \A o \in Owner : \A d \in Loaded(o), q \in Quantity :
            powerdevices'[o][d][q] = RemoveOld(powerdevices[o][d][q], now)
      <4>1. \A o \in Owner : \A d \in Loaded(o) :
              powerdevices'[o][d] = RemoveOldMetrics(powerdevices[o][d], now)
        BY <1>8 DEF OnPoll, Purged, Loaded
      <4>2. \A o \in Owner : \A d \in Loaded(o) : DOMAIN powerdevices[o][d] = Quantity
        BY DEF TypeOK, IsUnit, Loaded
      <4>3. SUFFICES ASSUME NEW o \in Owner, NEW d \in Loaded(o), NEW q \in Quantity
                     PROVE  powerdevices'[o][d][q] = RemoveOld(powerdevices[o][d][q], now)
        OBVIOUS
      <4>4. powerdevices'[o][d] =
              [r \in Quantity |-> RemoveOld(powerdevices[o][d][r], now)]
        BY <4>1, <4>2 DEF RemoveOldMetrics
      <4> QED
        BY <4>4
    <3>2. \A o \in Owner : \A d \in Loaded(o), q \in Quantity :
            powerdevices'[o][d][q] # NoMetric => powerdevices[o][d][q] # NoMetric
      BY <3>1 DEF RemoveOld
    <3>3. \A d, o : AffectedUnit(d, o)' = AffectedUnit(d, o)
      BY <2>1 DEF AffectedUnit
    <3> QED
      BY <2>1, <3>2, <3>3 DEF FedInv, MeasuresAreFed
  <2>3. SendMeasurements(fresh, failed)
    BY <1>8 DEF OnPoll
  <2>4. \A s \in Slot : powerdevices'[s[1]] = Purged(s[1])
    BY <1>8 DEF OnPoll, Slot
  <2>5. KnownTotalsAreFed'
    BY <2>1, <2>2, <2>3, <2>4, FedTotals DEF Polled
  <2> QED
    BY <2>1, <2>2, <2>5 DEF FedInv, CentersAreUnread
<1>9. CASE Start \/ SetPollInterval \/ ProcessAsset \/ Tick \/ UNCHANGED vars
  BY <1>1, <1>9 DEF Start, SetPollInterval, ProcessAsset, Tick, vars
<1>10. ASSUME NEW topology \in Topologies, NEW op \in AssetOps,
              DBChange(topology, op)
       PROVE  FedInv'
  BY <1>1, <1>10 DEF DBChange
<1>11. ASSUME NEW op \in AssetOps, OtherAsset(op)
       PROVE  FedInv'
  BY <1>1, <1>11 DEF OtherAsset
<1>12. ASSUME NEW k \in ClockSteps, SetClockBack(k)
       PROVE  FedInv'
  BY <1>1, <1>12 DEF SetClockBack
<1> QED
  BY <1>3, <1>4, <1>5, <1>6, <1>7, <1>8, <1>9, <1>10, <1>11, <1>12 DEF Next, Configure

LEMMA FedAlways == Spec => []FedInv
<1>1. Init => FedInv
  BY DEF Init, FedInv, KnownTotalsAreFed, MeasuresAreFed, CentersAreUnread,
         NoTotals, NewSlot, QuantityIsKnown, ValueOf, Loaded, Unit
<1> QED
  BY <1>1, FedStep, TypeCorrect, PTL DEF Spec

\* A total that is known belongs to a unit that hears of all its devices: one
\* whose device another unit of its type took over publishes nothing, rather
\* than a total that lacks the device.
THEOREM KnownTotalsAreFedHolds == Spec => []KnownTotalsAreFed
<1>1. FedInv => KnownTotalsAreFed
  BY DEF FedInv
<1> QED
  BY <1>1, FedAlways, PTL

=============================================================================
