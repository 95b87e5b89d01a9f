------------------------ MODULE TotalPowerConfiguration ------------------------
(***************************************************************************)
(* TotalPowerConfiguration (src/src/tpowerconfiguration.h, .cc): the       *)
(* racks and data centers, what their power devices measure, the totals    *)
(* published from it, and the reloading of the power topology.             *)
(*                                                                         *)
(* The object is shared by two threads of fty_metric_tpower_server.cc.     *)
(* Both take one mutex around each call, so one call is one step here, in  *)
(* whatever order the threads get the mutex:                               *)
(*   the server's thread   OnPoll, ProcessAsset (and configure, at start), *)
(*   the metrics' thread   ProcessMetric per metric of a batch, then       *)
(*                         SetPollInterval.                                *)
(* configure() reads the racks first and then the data centers, so it is   *)
(* two steps: the database can change, and the process can die, in         *)
(* between; the mutex keeps the other calls out.  Each half is many        *)
(* selects outside of a transaction, one for the list of owners and two    *)
(* for each of them: what it reads of an owner that changed meanwhile may  *)
(* be any mixture.                                                         *)
(***************************************************************************)
EXTENDS TPUnit, Sequences, FiniteSets

CONSTANTS
  Rack, DC,          \* assets, numbered in the order of their names
  Device,            \* power devices, numbered likewise
  NoOwner,           \* the device is not in the reverse map
  ReconfigDelay,     \* seconds from an asset message to the reload, 60 s
  PollingInterval,   \* TPOWER_POLLING_INTERVAL, 5 s
  \* what the environment of the program does
  Topologies,        \* the topologies the database can hold
  AssetOps,          \* the operations that asset messages carry
  Garbled,           \* what stands for one in a message that cannot be decoded
  LostReads,         \* the sets of owners whose select can fail silently
  WriteFailures,     \* the sets of slots whose write to the SHM can fail
  MetricQuantities,  \* the quantities that devices report,
  MetricValues,      \* their values,
  MetricAges,        \* their ages when they are read,
  MetricTtl,         \* and their time to live
  ClockSteps,        \* by how much the wall clock can be set back
  MaxNow, MaxInbox   \* bounds of the clock and of the unread messages

RackQuantities == {Default}
DCQuantities   == {Default} \cup {Input(p) : p \in Phase} \cup Outputs
Quantity       == DCQuantities

Owner         == Rack \cup DC
QuantitiesOf(o) == IF o \in Rack THEN RackQuantities ELSE DCQuantities
Slot          == {s \in Owner \X Quantity : s[2] \in QuantitiesOf(s[1])}

ReloadOps == {"create", "update", "delete", "retire"}

ASSUME ConfigurationAssumption ==
  /\ Rack \subseteq Nat /\ DC \subseteq Nat /\ Device \subseteq Nat
  /\ IsFiniteSet(Rack) /\ IsFiniteSet(DC) /\ IsFiniteSet(Device)
  /\ Rack \cap DC = {}
  /\ NoOwner \notin Owner
  /\ ReconfigDelay \in Nat \ {0}
  /\ PollingInterval \in Nat \ {0}
  /\ PollingInterval <= ReconfigDelay
  /\ Topologies \subseteq [Owner -> SUBSET Device]
  /\ Garbled \cap ReloadOps = {}
  /\ {} \in LostReads /\ LostReads \subseteq SUBSET Owner
  /\ {} \in WriteFailures
  /\ MetricQuantities \subseteq Quantity
  /\ MetricValues \subseteq Int \cup {NaN}
  /\ MetricAges \subseteq Int
  /\ MetricTtl \in Nat
  /\ ClockSteps \subseteq Nat \ {0}
  /\ MaxNow \in Nat /\ MaxInbox \in Nat

ASSUME NoMetricAssumption ==
  NoMetric \notin [value : Int \cup {NaN}, timestamp : Nat, ttl : Nat]

VARIABLES
  now,              \* the wall clock, in seconds
  phase,            \* what the server's thread is doing, see Phases
  powerdevices,     \* _racks and _DCs: owner -> device -> metric list
  total,            \* the same units: <<owner, quantity>> -> slot of the total
  affectedRacks,    \* _affectedRacks: device -> rack
  affectedDCs,      \* _affectedDCs: device -> data center
  reconfigPending,  \* _reconfigPending: when to reload, 0 for never
  timeout,          \* _timeout, in seconds
  published,        \* external, the SHM: what was last written, and when
  db,               \* external, the database: owner -> its power sources
  inbox,            \* external, the ASSETS stream: operations not yet read
  torn              \* external: the owners that the database changed since the
                    \* half of configure() that reads them began

memory == <<powerdevices, total, affectedRacks, affectedDCs, reconfigPending,
            timeout>>
environment == <<published, db, inbox, torn>>
vars == <<now, phase, memory, environment>>

\* No process, the two halves of configure() in the initial set up and in
\* onPoll(), and waiting for the mutex or for the next event.
Phases == {"down", "bootRacks", "bootDCs", "pollRacks", "pollDCs", "idle"}

Unit(devices) == [d \in devices |-> EmptyList(Quantity)]
NoOwners  == [d \in Device |-> NoOwner]
NoTotals  == [s \in Slot |-> NewSlot]

\* A total in the SHM; a value of NaN for one that was never written.
Published(value, time) == [value |-> value, time |-> time]

\* A unit exists when at least one device was added to it.
HasUnit(o) == DOMAIN powerdevices[o] # {}

-----------------------------------------------------------------------------
(* How long the server sleeps.                                             *)

\* Mutants: a total whose time has come does not let the server sleep; a
\* scheduled reload does not wake it.
WaitsZero(slots, pending) ==
  {RepeatAfter} \cup {TimeToAdvertisement(slots[s], now) : s \in Slot}

WaitsForTotals(slots, pending) ==
  {RepeatAfter}
    \cup {t \in {TimeToAdvertisement(slots[s], now) : s \in Slot} : t > 0}

\* The clauses of getPollInterval(), of which the least wins.  Totals whose
\* time has come (0) are not among them.
Waits(slots, pending) ==
  {RepeatAfter}
    \cup {t \in {TimeToAdvertisement(slots[s], now) : s \in Slot} : t > 0}
    \cup (IF pending = 0 THEN {}
          ELSE {IF pending - now + 1 <= 0 THEN 1 ELSE pending - now + 1})

GetPollInterval(slots, pending) ==
  CHOOSE t \in Waits(slots, pending) : \A u \in Waits(slots, pending) : t <= u

-----------------------------------------------------------------------------
(* Totals.                                                                 *)

\* What sendMeasurement() does with a total that was just calculated: it is
\* written if it is due, and is advertised if the write succeeds.
Sends(s, slot, failed) == Advertise(slot, now) /\ s \notin failed

\* Mutant: the result of the write is ignored.
AfterTriedSend(s, slot, failed) ==
  IF Advertise(slot, now) THEN Advertised(slot, now) ELSE slot

AfterSend(s, slot, failed) ==
  IF Sends(s, slot, failed) THEN Advertised(slot, now) ELSE slot

Shown(s, slot, failed) ==
  IF Sends(s, slot, failed) THEN Published(slot.lastValue.value, now)
                            ELSE published[s]

\* sendMeasurement() of each slot in the domain of fresh.
SendMeasurements(fresh, failed) ==
  /\ total' = [s \in Slot |-> IF s \in DOMAIN fresh
                              THEN AfterSend(s, fresh[s], failed)
                              ELSE total[s]]
  /\ published' = [s \in Slot |-> IF s \in DOMAIN fresh
                                  THEN Shown(s, fresh[s], failed)
                                  ELSE published[s]]

\* Mutant: the reverse maps are not used, every unit with the device is fed.
FedByAnyOwner(d, quantity) ==
  {o \in Owner : quantity \in QuantitiesOf(o) /\ d \in DOMAIN powerdevices[o]}

\* The units that a measurement of device d feeds: at most one of each type.
Fed(d, quantity) ==
  {o \in Owner : /\ quantity \in QuantitiesOf(o)
                 /\ o = IF o \in Rack THEN affectedRacks[d] ELSE affectedDCs[d]
                 /\ HasUnit(o)}

\* Only the total of the metric's own quantity is recomputed.
Refreshed(fed, quantity) == {s \in Slot : s[1] \in fed /\ s[2] = quantity}

ProcessMetric(d, quantity, m, failed) ==
  LET fed      == Fed(d, quantity)
      measures == [o \in Owner |->
                     IF o \in fed
                     THEN SetMeasurement(powerdevices[o], d, quantity, m)
                     ELSE powerdevices[o]]
  IN  /\ phase = "idle"
      /\ powerdevices' = measures
      /\ SendMeasurements([s \in Refreshed(fed, quantity) |->
                             Calculate(total[s], measures[s[1]], s[2], now)],
                          failed)
      /\ UNCHANGED <<now, phase, affectedRacks, affectedDCs, reconfigPending,
                     timeout, db, inbox, torn>>

SetPollInterval ==
  /\ phase = "idle"
  /\ timeout' = GetPollInterval(total, reconfigPending)
  /\ UNCHANGED <<now, phase, powerdevices, total, affectedRacks, affectedDCs,
                 reconfigPending, environment>>

\* Mutant: only totals are purged, measurements never.
KeptMeasures(o) == powerdevices[o]

\* dropOldMetricInfos() of a unit, its measurements and the total in a slot,
\* and the total recomputed from what is left.
Purged(o) == [d \in DOMAIN powerdevices[o] |->
                RemoveOldMetrics(powerdevices[o][d], now)]

\* Mutant: the total is computed before the purge.
PolledBeforePurge(s) ==
  Calculate(DropOld(total[s], now), powerdevices[s[1]], s[2], now)

Polled(s) == Calculate(DropOld(total[s], now), Purged(s[1]), s[2], now)

ReloadIsDue == reconfigPending # 0 /\ reconfigPending <= now

\* onPoll(): purge, recompute and send every total, then reload the topology
\* if that is due.
OnPoll(failed) ==
  /\ phase = "idle"
  /\ powerdevices' = [o \in Owner |-> Purged(o)]
  /\ SendMeasurements([s \in {s \in Slot : HasUnit(s[1])} |-> Polled(s)], failed)
  /\ phase' = IF ReloadIsDue THEN "pollRacks" ELSE "idle"
  /\ timeout' = IF ReloadIsDue THEN timeout
                ELSE GetPollInterval(total', reconfigPending)
  /\ UNCHANGED <<now, affectedRacks, affectedDCs, reconfigPending, db, inbox, torn>>

-----------------------------------------------------------------------------
(* The topology.                                                           *)

\* addDeviceToMap() for every device of the owners in turn: each device ends
\* with the last of its owners.
LastOwner(owners) == CHOOSE o \in owners : \A e \in owners : e <= o

ReverseMap(read, owners) ==
  [d \in Device |-> LET mine == {o \in owners : d \in read[o]}
                    IN  IF mine = {} THEN NoOwner ELSE LastOwner(mine)]

\* What the selects of a half may return.  One that fails, on the list of owners
\* or on the devices of one owner, is read as if there were no devices.
Reads(lost) ==
  {read \in [Owner -> SUBSET Device] :
     \A o \in Owner : /\ o \in lost => read[o] = {}
                      /\ o \notin lost \cup torn => read[o] = db[o]}

\* Mutant: a reload that failed is not tried again.
ReturnNoRetry(pending) ==
  /\ reconfigPending' = 0
  /\ phase' = "idle"
  /\ UNCHANGED timeout

\* The end of configure(), back in the initial set up, which ignores the
\* result, or in onPoll(), which sets the poll interval.
Return(pending) ==
  /\ reconfigPending' = pending
  /\ phase' = "idle"
  /\ timeout' = IF phase \in {"bootRacks", "bootDCs"}
                THEN timeout ELSE GetPollInterval(total', pending)

\* Mutant: configure() forgets to clear one reverse map.
ConfigureRacksKeepCenters(read) ==
  /\ phase \in {"bootRacks", "pollRacks"}
  /\ powerdevices' = [o \in Owner |-> Unit(IF o \in Rack THEN read[o] ELSE {})]
  /\ total' = NoTotals
  /\ affectedRacks' = ReverseMap(read, Rack)
  /\ phase' = IF phase = "bootRacks" THEN "bootDCs" ELSE "pollDCs"
  /\ torn' = {}
  /\ UNCHANGED <<now, affectedDCs, reconfigPending, timeout, published, db, inbox>>

\* configure() up to the racks.  Whatever it reads, the old topology is gone.
ConfigureRacks(read) ==
  /\ phase \in {"bootRacks", "pollRacks"}
  /\ powerdevices' = [o \in Owner |-> Unit(IF o \in Rack THEN read[o] ELSE {})]
  /\ total' = NoTotals
  /\ affectedRacks' = ReverseMap(read, Rack)
  /\ affectedDCs' = NoOwners
  /\ phase' = IF phase = "bootRacks" THEN "bootDCs" ELSE "pollDCs"
  /\ torn' = {}
  /\ UNCHANGED <<now, reconfigPending, timeout, published, db, inbox>>

\* The rest of configure(): the data centers, and no reload is pending.
ConfigureDCs(read) ==
  /\ phase \in {"bootDCs", "pollDCs"}
  /\ powerdevices' = [o \in Owner |-> IF o \in DC THEN Unit(read[o])
                                      ELSE powerdevices[o]]
  /\ affectedDCs' = ReverseMap(read, DC)
  /\ torn' = {}
  /\ UNCHANGED <<now, total, affectedRacks, published, db, inbox>>
  /\ Return(0)

Configure(lost) ==
  \E read \in Reads(lost) : ConfigureRacks(read) \/ ConfigureDCs(read)

\* An exception before the racks are stored, or before the data centers are:
\* what was loaded so far stays, and the reload is tried again later.
ConfigureThrows ==
  /\ phase \in {"bootRacks", "pollRacks", "bootDCs", "pollDCs"}
  /\ IF phase \in {"bootRacks", "pollRacks"}
     THEN /\ powerdevices' = [o \in Owner |-> Unit({})]
          /\ total' = NoTotals
          /\ affectedRacks' = NoOwners
          /\ affectedDCs' = NoOwners
     ELSE UNCHANGED <<powerdevices, total, affectedRacks, affectedDCs>>
  /\ Return(now + ReconfigDelay)
  /\ torn' = {}
  /\ UNCHANGED <<now, published, db, inbox>>

\* Mutant: every message puts the reload off.
SchedulePostponed == now + ReconfigDelay

\* "something is being reconfigured, let things settle down"
Schedule == IF reconfigPending = 0 THEN now + ReconfigDelay ELSE reconfigPending

\* processAsset() of the next message of the stream.  One that cannot be decoded,
\* or is not about an asset, is dropped by the server before, to the same effect.
ProcessAsset ==
  /\ phase = "idle"
  /\ inbox # <<>>
  /\ inbox' = Tail(inbox)
  /\ IF Head(inbox) \in ReloadOps
     THEN /\ reconfigPending' = Schedule
          /\ timeout' = GetPollInterval(total, Schedule)
     ELSE UNCHANGED <<reconfigPending, timeout>>
  /\ UNCHANGED <<now, phase, powerdevices, total, affectedRacks, affectedDCs,
                 published, db, torn>>

-----------------------------------------------------------------------------
(* The process and its environment.                                        *)

\* The server subscribes to the stream, then makes the object and configures
\* it.
Start ==
  /\ phase = "down"
  /\ phase' = "bootRacks"
  /\ inbox' = <<>>
  /\ UNCHANGED <<now, memory, published, db, torn>>

\* The process dies, at any point, with everything it had in memory.
Crash ==
  /\ phase # "down"
  /\ phase' = "down"
  /\ powerdevices' = [o \in Owner |-> Unit({})]
  /\ total' = NoTotals
  /\ affectedRacks' = NoOwners
  /\ affectedDCs' = NoOwners
  /\ reconfigPending' = 0
  /\ timeout' = PollingInterval
  /\ inbox' = <<>>
  /\ torn' = {}
  /\ UNCHANGED <<now, published, db>>

\* A message is kept for a subscriber only.
Deliver(op) ==
  IF phase = "down" THEN UNCHANGED inbox
                    ELSE Len(inbox) < MaxInbox /\ inbox' = Append(inbox, op)

\* The asset agent changes the database, then says so.
DBChange(topology, op) ==
  /\ topology # db
  /\ op \in ReloadOps \cup Garbled
  /\ db' = topology
  /\ torn' = IF phase \in {"down", "idle"} THEN torn
             ELSE torn \cup {o \in Owner : topology[o] # db[o]}
  /\ Deliver(op)
  /\ UNCHANGED <<now, phase, memory, published>>

\* A message about an asset that leaves the topology as it is.
OtherAsset(op) ==
  /\ phase # "down"
  /\ Deliver(op)
  /\ UNCHANGED <<now, phase, memory, published, db, torn>>

Tick ==
  /\ now < MaxNow
  /\ now' = now + 1
  /\ UNCHANGED <<phase, memory, environment>>

SetClockBack(k) ==
  /\ now - k >= 1
  /\ now' = now - k
  /\ UNCHANGED <<phase, memory, environment>>

ReceiveMetric ==
  \E d \in Device, q \in MetricQuantities, v \in MetricValues,
     age \in MetricAges, failed \in WriteFailures :
    /\ now - age >= 0
    /\ ProcessMetric(d, q, MetricInfo(v, now - age, MetricTtl), failed)

-----------------------------------------------------------------------------
Init ==
  /\ now = 1
  /\ phase = "down"
  /\ powerdevices = [o \in Owner |-> Unit({})]
  /\ total = NoTotals
  /\ affectedRacks = NoOwners
  /\ affectedDCs = NoOwners
  /\ reconfigPending = 0
  /\ timeout = PollingInterval
  /\ published = [s \in Slot |-> Published(NaN, 0)]
  /\ db \in Topologies
  /\ inbox = <<>>
  /\ torn = {}

Next ==
  \/ Start
  \/ \E lost \in LostReads : Configure(lost)
  \/ ConfigureThrows
  \/ ReceiveMetric
  \/ SetPollInterval
  \/ ProcessAsset
  \/ \E failed \in WriteFailures : OnPoll(failed)
  \/ Crash
  \/ \E topology \in Topologies, op \in AssetOps : DBChange(topology, op)
  \/ \E op \in AssetOps : OtherAsset(op)
  \/ Tick
  \/ \E k \in ClockSteps : SetClockBack(k)

Spec == Init /\ [][Next]_vars

=============================================================================
