------------------------- MODULE TotalPowerProperties -------------------------
(***************************************************************************)
(* What TotalPowerConfiguration has to guarantee, and what its documents   *)
(* say of it.                                                              *)
(***************************************************************************)
EXTENDS TotalPowerConfiguration

\* The type of every variable (the numbers that sums give are left out).
IsMetric(m, Value) ==
  \/ m = NoMetric
  \/ /\ m = MetricInfo(m.value, m.timestamp, m.ttl)
     /\ m.value \in Value
     /\ m.timestamp \in Nat
     /\ m.ttl \in Nat

IsSlot(slot) ==
  /\ slot = [lastValue           |-> slot.lastValue,
             changed             |-> slot.changed,
             changetimestamp     |-> slot.changetimestamp,
             advertisedtimestamp |-> slot.advertisedtimestamp]
  /\ \/ slot.lastValue = NoMetric
     \/ IsMetric(slot.lastValue, {slot.lastValue.value})
  /\ slot.changed \in BOOLEAN
  /\ slot.changetimestamp \in Nat
  /\ slot.advertisedtimestamp \in Nat

IsUnit(measures) ==
  /\ DOMAIN measures \subseteq Device
  /\ measures = [d \in DOMAIN measures |-> [q \in Quantity |-> measures[d][q]]]
  /\ \A d \in DOMAIN measures, q \in Quantity : IsMetric(measures[d][q], MetricValues)

TypeOK ==
  /\ now \in Nat \ {0}
  /\ phase \in Phases
  /\ powerdevices = [o \in Owner |-> powerdevices[o]]
  /\ \A o \in Owner : IsUnit(powerdevices[o])
  /\ total = [s \in Slot |-> total[s]]
  /\ \A s \in Slot : IsSlot(total[s])
  /\ affectedRacks \in [Device -> Rack \cup {NoOwner}]
  /\ affectedDCs \in [Device -> DC \cup {NoOwner}]
  /\ reconfigPending \in Nat
  /\ timeout \in Nat \ {0}
  /\ published = [s \in Slot |-> published[s]]
  /\ db \in Topologies
  /\ inbox \in Seq(AssetOps)
  /\ torn \subseteq Owner

-----------------------------------------------------------------------------
(* Publishing.                                                             *)

\* A total that is not marked as changed is what the SHM shows: whatever
\* write failed, or was held back, is still marked for another try
\* (sendMeasurement, advertised, set).
NoLostUpdate ==
  \A s \in Slot :
    QuantityIsKnown(total[s]) /\ ~ total[s].changed =>
      published[s].value = total[s].lastValue.value

\* When writes succeed, the only total that is left unsent is one that moved
\* again within the second of its last sending (advertise).
HeldBackOneSecond ==
  \A s \in Slot :
    QuantityIsKnown(total[s]) /\ total[s].changed =>
      total[s].changetimestamp = total[s].advertisedtimestamp

\* What a total is worth: a unit whose total can be computed from its current
\* measurements knows it, to within Epsilon.
Tracks(s) ==
  LET sum == Total(powerdevices[s[1]], s[2])
  IN  HasUnit(s[1]) /\ sum # NaN =>
        /\ QuantityIsKnown(total[s])
        /\ sum - total[s].lastValue.value \in -Epsilon .. Epsilon

\* It holds of a rack, and of the input phases of a data center, after every
\* metric, purge and reload: these totals depend on one quantity only, the one
\* processMetric recomputes.
TotalsTrack ==
  \A s \in Slot : s[1] \in Rack \/ s[2] \in {Input(p) : p \in Phase} => Tracks(s)

\* README.md:100 says that the power metrics of the rack or data center that a
\* metric is relevant for are recomputed: that would be all of them.
EveryTotalTracks == \A s \in Slot : Tracks(s)

\* After a poll every total tracks again, whatever it depends on (onPoll).
PollRecomputesAll ==
  [][\A failed \in WriteFailures : OnPoll(failed) => EveryTotalTracks']_vars

\* The number of output phases that a device of a unit reports, and whether the
\* devices of the unit differ in it.
PhaseCount(measures, d) ==
  LET reported == {p \in Phase : Measured(measures, d, Output(p))}
  IN  CHOOSE n \in reported \cup {0} : \A p \in reported : p <= n

PhasesDiffer(measures) ==
  \E d, e \in DOMAIN measures : PhaseCount(measures, d) # PhaseCount(measures, e)

\* tp_unit.h:140, "send realpower output or null in case of phase
\* incompatibilities": there is no output total of devices that differ.
OutputOrNull ==
  \A s \in Slot :
    s[2] \in Outputs /\ PhasesDiffer(powerdevices[s[1]]) =>
      Total(powerdevices[s[1]], s[2]) = NaN

\* Of the second and third phase it holds: whatever metrics come, are purged or
\* are lost in a reload, no such total gets a new value while the devices of the
\* data center differ (realpowerOutput, the first device decides).
UpperPhasesMatch ==
  [][\A s \in Slot :
       /\ s[2] \in {Output(2), Output(3)}
       /\ QuantityIsKnown(total'[s])
       /\ total'[s].lastValue # total[s].lastValue
       => ~ PhasesDiffer(powerdevices'[s[1]])]_vars

\* No total is computed from a device that the owner no longer hears of: the
\* measurements of a device that two units claim reach one of them only, and
\* the other never publishes (ASSUMPTION of processMetric).
AffectedUnit(d, o) == IF o \in Rack THEN affectedRacks[d] ELSE affectedDCs[d]

KnownTotalsAreFed ==
  \A s \in Slot :
    QuantityIsKnown(total[s]) =>
      /\ HasUnit(s[1])
      /\ \A d \in DOMAIN powerdevices[s[1]] : AffectedUnit(d, s[1]) = s[1]

\* After a poll whose writes succeed, the SHM shows every known total, written
\* at most RepeatAfter ago (advertise, onPoll).
PollRefreshes ==
  [][OnPoll({}) =>
       \A s \in Slot :
         HasUnit(s[1]) /\ QuantityIsKnown(total'[s]) =>
           /\ now - published'[s].time \in 0 .. RepeatAfter
           /\ \/ published'[s].value = total'[s].lastValue.value
              \/ published'[s].time = now]_vars

\* A poll leaves no total that is older than its TTL and cannot be computed
\* any more, so no stale total is sent later than that (dropOldMetricInfos).
StaleTotalsExpire ==
  [][\A failed \in WriteFailures :
       OnPoll(failed) =>
         \A s \in Slot :
           /\ HasUnit(s[1])
           /\ Total(powerdevices'[s[1]], s[2]) = NaN
           /\ QuantityIsKnown(total'[s])
           => now - total'[s].lastValue.timestamp <= TTL]_vars

-----------------------------------------------------------------------------
(* The topology.                                                           *)

\* The reverse maps and the units describe one topology, also after a reload
\* that an exception cut short: a device is sent to a unit that has it, and no
\* device of a unit is left out (addDeviceToMap, configure).
ReverseMapsAgree ==
  \A d \in Device :
    /\ affectedRacks[d] # NoOwner => d \in DOMAIN powerdevices[affectedRacks[d]]
    /\ affectedDCs[d] # NoOwner => d \in DOMAIN powerdevices[affectedDCs[d]]
    /\ \A o \in Owner :
         d \in DOMAIN powerdevices[o] => AffectedUnit(d, o) # NoOwner

Loaded(o) == DOMAIN powerdevices[o]

ReloadIsComing == \E i \in DOMAIN inbox : inbox[i] \in ReloadOps

\* A change of the database is never forgotten: as long as what is loaded is
\* not what the database holds, a reload is scheduled or a message that will
\* schedule one is unread (configure, processAsset).
NoLostReconfiguration ==
  phase = "idle" /\ (\E o \in Owner : Loaded(o) # db[o]) =>
    reconfigPending # 0 \/ ReloadIsComing

\* The server is told to wake at most a second after a scheduled reload, or in a
\* second when that is overdue, by whatever schedules it and whenever the poll
\* interval is computed anew (getPollInterval, _timeout).
ReloadIsSoon ==
  [][/\ phase' = "idle" /\ reconfigPending' # 0
     /\ \/ reconfigPending' # reconfigPending
        \/ SetPollInterval
        \/ \E failed \in WriteFailures : OnPoll(failed)
     => now + timeout' <= IF reconfigPending' <= now THEN now + 1
                          ELSE reconfigPending' + 1]_vars

\* A reload that is scheduled is neither cancelled nor moved until configure
\* runs, however many messages arrive (processAsset): asset traffic cannot
\* starve it, though README.md:105 has every message postpone it.
ReloadIsKept ==
  [][reconfigPending # 0 /\ reconfigPending' # reconfigPending =>
       phase' = "down" \/ phase \in {"pollRacks", "pollDCs"}]_vars

=============================================================================
