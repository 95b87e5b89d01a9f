------------------------------ MODULE FreshProofs ------------------------------
(***************************************************************************)
(* The theorems that the agent is made for: while all devices of a unit    *)
(* keep reporting, its total in the SHM is renewed before it expires, and  *)
(* a total that moved is there by the next pull, whatever the poll         *)
(* interval, the messages and the reloads do.                              *)
(*                                                                         *)
(* The puller renews it.  A pull takes a metric of each device that is     *)
(* alive, so the total is recomputed, and sent when its repeat interval is *)
(* over, before the pull ends; the next pull is a pull interval away.      *)
(***************************************************************************)
EXTENDS TPowerServerProofs, TopologyProofs, TotalsProofs

-----------------------------------------------------------------------------
(* The inductive invariant.                                                *)

\* The dates of a total and of its copy in the SHM.  One that is known was
\* sent, and was not touched since but in that same second.
Sent(slot, pub) ==
  /\ slot.advertisedtimestamp <= now
  /\ slot.advertisedtimestamp # 0 => pub.time = slot.advertisedtimestamp
  /\ QuantityIsKnown(slot) =>
       /\ slot.changetimestamp = slot.advertisedtimestamp
       /\ slot.advertisedtimestamp # 0

AllSent == \A s \in Slot : Sent(total[s], published[s])

\* The SHM has a measurement of the topic that is at least as new as m.
Covered(t, m) ==
  /\ t \in Topic
  /\ shm[t] # NoMetric
  /\ m.timestamp \in Nat /\ m.timestamp <= shm[t].timestamp
  /\ m.ttl = MetricTtl

\* Nothing is stored or handed over that did not come from the SHM.
AllCovered ==
  /\ \A o \in Owner : \A d \in DOMAIN powerdevices[o], q \in Quantity :
       powerdevices[o][d][q] # NoMetric => Covered(<<d, q>>, powerdevices[o][d][q])
  /\ \A item \in batch : Covered(item[1], item[2])

NoTotalYet == Booting => \A s \in Slot : ~ QuantityIsKnown(total[s])

\* Its repeat interval is not over, and nothing was held back before this time.
Recently(s, time) ==
  /\ time - published[s].time <= RepeatAfter
  /\ total[s].changed => time <= published[s].time

\* While metrics are handed over, a total that is too old has one coming.
Renewed(s) ==
  QuantityIsKnown(total[s]) /\ Alive(s) =>
    IF pulling
    THEN \/ Recently(s, now)
         \/ \E d \in DOMAIN powerdevices[s[1]], item \in batch : item[1] = <<d, s[2]>>
    ELSE Recently(s, LastPull)

RenewedByPull == \A s \in Slot : Renewed(s)

FreshInv == AllSent /\ AllCovered /\ NoTotalYet /\ RenewedByPull

-----------------------------------------------------------------------------
(* Sending.                                                                *)

\* A total that was just calculated is as it was sent, or is dated now.
Calculated(slot, pub) ==
  /\ slot.advertisedtimestamp <= now
  /\ slot.advertisedtimestamp # 0 => pub.time = slot.advertisedtimestamp
  /\ QuantityIsKnown(slot) =>
       \/ slot.changetimestamp = now /\ slot.changed
       \/ /\ slot.changetimestamp = slot.advertisedtimestamp
          /\ slot.advertisedtimestamp # 0

LEMMA CalculateSent ==
  ASSUME NEW slot, NEW pub, Sent(slot, pub), NEW measures, NEW q,
         NEW dropped \in {slot, DropOld(slot, now)}
  PROVE  Calculated(Calculate(dropped, measures, q, now), pub)
<1>1. Sent(dropped, pub)
  BY DEF Sent, DropOld, RemoveOld, QuantityIsKnown, ValueOf
<1> QED
  BY <1>1 DEF Sent, Calculated, Calculate, SetTotal, MetricInfo

LEMMA SendCalculated ==
  ASSUME NEW s, NEW slot, IsSlot(slot), Calculated(slot, published[s]),
         now \in Nat \ {0}, now < UintRange
  PROVE  /\ Sent(AfterSend(s, slot, {}), Shown(s, slot, {}))
         /\ QuantityIsKnown(AfterSend(s, slot, {})) =>
              /\ now - Shown(s, slot, {}).time <= RepeatAfter
              /\ AfterSend(s, slot, {}).changed => now <= Shown(s, slot, {}).time
<1>0. /\ slot.changetimestamp \in Nat /\ slot.advertisedtimestamp \in Nat
      /\ RepeatAfter \in Nat /\ UintRange \in Nat
  BY UnitAssumption, UintRangeAssumption DEF IsSlot
<1>1. CASE Advertise(slot, now)
  BY <1>0, <1>1 DEF AfterSend, Shown, Sends, Advertised, Published, Sent, QuantityIsKnown
<1>2. CASE ~ Advertise(slot, now)
  <2>1. AfterSend(s, slot, {}) = slot /\ Shown(s, slot, {}) = published[s]
    BY <1>2 DEF AfterSend, Shown, Sends
  <2>2. CASE ~ QuantityIsKnown(slot)
    BY <2>1, <2>2 DEF Sent, Calculated
  <2>3. CASE QuantityIsKnown(slot) /\ slot.advertisedtimestamp = now
    BY <1>0, <2>1, <2>3 DEF Sent, Calculated
  <2>4. CASE QuantityIsKnown(slot) /\ slot.advertisedtimestamp # now
    <3>1. ~ slot.changed /\ ~ (USub(now, slot.changetimestamp) > RepeatAfter)
      BY <1>2, <2>4 DEF Advertise
    <3>2. /\ slot.changetimestamp = slot.advertisedtimestamp
          /\ slot.advertisedtimestamp # 0 /\ slot.advertisedtimestamp <= now
          /\ published[s].time = slot.advertisedtimestamp
      BY <2>4, <3>1 DEF Calculated
    <3>3. USub(now, slot.changetimestamp) = now - slot.changetimestamp
      BY <1>0, <3>2 DEF USub
    <3> QED
      BY <1>0, <2>1, <3>1, <3>2, <3>3 DEF Sent
  <2> QED
    BY <2>2, <2>3, <2>4
<1> QED
  BY <1>1, <1>2

\* The total in slot s is calculated, perhaps after a purge, and sent.
Resent(s) ==
  \E dropped \in {total[s], DropOld(total[s], now)} : \E measures :
    LET new == Calculate(dropped, measures, s[2], now)
    IN  /\ total'[s] = AfterSend(s, new, {})
        /\ published'[s] = Shown(s, new, {})

LEMMA ResentIsRecent ==
  ASSUME NEW s \in Slot, Resent(s), Sent(total[s], published[s]), IsSlot(total[s]),
         now' = now, now \in Nat \ {0}, now < UintRange
  PROVE  /\ Sent(total[s], published[s])'
         /\ QuantityIsKnown(total'[s]) => Recently(s, now)'
<1>1. PICK dropped \in {total[s], DropOld(total[s], now)} :
        \E measures :
          LET new == Calculate(dropped, measures, s[2], now)
          IN  /\ total'[s] = AfterSend(s, new, {})
              /\ published'[s] = Shown(s, new, {})
  BY DEF Resent
<1>a. PICK measures :
        LET new == Calculate(dropped, measures, s[2], now)
        IN  /\ total'[s] = AfterSend(s, new, {})
            /\ published'[s] = Shown(s, new, {})
  BY <1>1
<1> DEFINE new == Calculate(dropped, measures, s[2], now)
<1>2. IsSlot(new)
  BY CalculateType, DropOldType
<1>3. Calculated(new, published[s])
  BY CalculateSent
<1> HIDE DEF new
<1>4. /\ Sent(AfterSend(s, new, {}), Shown(s, new, {}))
      /\ QuantityIsKnown(AfterSend(s, new, {})) =>
           /\ now - Shown(s, new, {}).time <= RepeatAfter
           /\ AfterSend(s, new, {}).changed => now <= Shown(s, new, {}).time
  BY <1>2, <1>3, SendCalculated
<1>5. total'[s] = AfterSend(s, new, {}) /\ published'[s] = Shown(s, new, {})
  BY <1>a DEF new
<1> QED
  BY <1>4, <1>5 DEF Sent, Recently

-----------------------------------------------------------------------------
(* The totals that each step touches.                                      *)

Untouched(s) == total'[s] = total[s] /\ published'[s] = published[s]

\* What handing over one metric does to the batch, the units and the totals.
HandsOver(item) ==
  LET d == item[1][1]
      q == item[1][2]
  IN  /\ batch' = batch \ {item}
      /\ \A o \in Owner : powerdevices'[o] =
           IF o \in Fed(d, q) THEN SetMeasurement(powerdevices[o], d, q, item[2])
                              ELSE powerdevices[o]
      /\ \A s \in Slot : IF s \in Refreshed(Fed(d, q), q) THEN Resent(s) ELSE Untouched(s)

LEMMA HandOverTotals ==
  ASSUME WriteFailures = {{}}, Texts = {}, HandOver
  PROVE  \E item \in batch : HandsOver(item)
<1>1. PICK item \in batch :
        /\ ProcessMetric(item[1][1], item[1][2], item[2], {})
        /\ batch' = batch \ {item}
  BY DEF HandOver
<1> DEFINE d == item[1][1]
           q == item[1][2]
           fresh == [s \in Refreshed(Fed(d, q), q) |->
                       Calculate(total[s], powerdevices'[s[1]], s[2], now)]
<1>2. \A o \in Owner : powerdevices'[o] =
        IF o \in Fed(d, q) THEN SetMeasurement(powerdevices[o], d, q, item[2])
                           ELSE powerdevices[o]
  BY <1>1 DEF ProcessMetric
<1>3. SendMeasurements(fresh, {})
  BY <1>1 DEF ProcessMetric, Refreshed, Slot
<1>4. ASSUME NEW s \in Slot, s \in Refreshed(Fed(d, q), q)
      PROVE  Resent(s)
  <2>1. fresh[s] = Calculate(total[s], powerdevices'[s[1]], s[2], now)
    BY <1>4
  <2>2. total'[s] = AfterSend(s, fresh[s], {}) /\ published'[s] = Shown(s, fresh[s], {})
    BY <1>3, <1>4 DEF SendMeasurements
  <2> QED
    BY <2>1, <2>2 DEF Resent
<1>5. ASSUME NEW s \in Slot, s \notin Refreshed(Fed(d, q), q)
      PROVE  Untouched(s)
  BY <1>3, <1>5 DEF SendMeasurements, Untouched
<1> QED
  BY <1>1, <1>2, <1>4, <1>5 DEF HandsOver

LEMMA PollTotals ==
  ASSUME OnPoll({}), NEW s \in Slot
  PROVE  IF HasUnit(s[1]) THEN Resent(s) ELSE Untouched(s)
<1> DEFINE fresh == [r \in {r \in Slot : HasUnit(r[1])} |-> Polled(r)]
<1>1. SendMeasurements(fresh, {})
  BY DEF OnPoll
<1>2. CASE HasUnit(s[1])
  <2>1. fresh[s] = Calculate(DropOld(total[s], now), Purged(s[1]), s[2], now)
    BY <1>2 DEF Polled
  <2>2. total'[s] = AfterSend(s, fresh[s], {}) /\ published'[s] = Shown(s, fresh[s], {})
    BY <1>1, <1>2 DEF SendMeasurements
  <2> QED
    BY <1>2, <2>1, <2>2 DEF Resent
<1>3. CASE ~ HasUnit(s[1])
  BY <1>1, <1>3 DEF SendMeasurements, Untouched
<1> QED
  BY <1>2, <1>3

LEMMA NoTotalIsKnown ==
  ASSUME total' = NoTotals
  PROVE  \A s \in Slot : ~ QuantityIsKnown(total[s])'
BY DEF NoTotals, NewSlot, QuantityIsKnown, ValueOf

\* All other steps keep the totals, or forget them in a reload, and never
\* touch the SHM's copies.
Quiet ==
  \/ Boot \/ Sleep \/ Wake \/ Reload \/ Handle \/ Pull \/ EndPull
  \/ Report \/ AssetAgent \/ TimePasses \/ UNCHANGED serverVars

LEMMA QuietTotals ==
  ASSUME Quiet
  PROVE  /\ published' = published
         /\ total' = total \/ total' = NoTotals
         /\ now' = now \/ now' = now + 1
BY DEF Quiet, Boot, Start, Configure, ConfigureRacks, ConfigureDCs, ConfigureThrows, Sleep, Wake,
       Reload, Handle, ProcessAsset, Pull, EndPull, SetPollInterval, Report, AssetAgent,
       DBChange, OtherAsset, TimePasses, Tick, serverVars, vars, memory, environment

LEMMA SentStep ==
  ASSUME WriteFailures = {{}}, Texts = {}, TypeOK, TimerInv, AllSent, [ServerNext]_serverVars
  PROVE  AllSent'
<1>0. /\ now \in Nat \ {0} /\ now < UintRange
      /\ \A s \in Slot : IsSlot(total[s]) /\ Sent(total[s], published[s])
  BY DEF TypeOK, TimerInv, AllSent
<1>1. ASSUME now' = now, NEW s \in Slot, Untouched(s)
      PROVE  Sent(total[s], published[s])'
  BY <1>0, <1>1 DEF Untouched, Sent
<1>2. CASE HandOver
  <2>1. now' = now
    BY <1>2 DEF HandOver, ProcessMetric
  <2>2. PICK item \in batch : HandsOver(item)
    BY <1>2, HandOverTotals
  <2>3. \A s \in Slot : Resent(s) \/ Untouched(s)
    BY <2>2 DEF HandsOver
  <2> QED
    BY <1>0, <1>1, <2>1, <2>3, ResentIsRecent DEF AllSent
<1>3. CASE Poll
  <2>1. now' = now /\ OnPoll({})
    BY <1>3 DEF Poll, OnPoll
  <2>2. \A s \in Slot : Resent(s) \/ Untouched(s)
    BY <2>1, PollTotals
  <2> QED
    BY <1>0, <1>1, <2>1, <2>2, ResentIsRecent DEF AllSent
<1>4. CASE Quiet
  <2>1. published' = published /\ now <= now' /\ now' \in Nat
    BY <1>0, <1>4, QuietTotals
  <2>2. CASE total' = total
    <3>1. SUFFICES ASSUME NEW s \in Slot PROVE Sent(total[s], published[s])'
      BY DEF AllSent
    <3>2. total[s].advertisedtimestamp \in Nat
      BY <1>0 DEF IsSlot
    <3> QED
      BY <1>0, <2>1, <2>2, <3>2 DEF Sent
  <2>3. CASE total' = NoTotals
    <3>1. \A s \in Slot : total'[s].advertisedtimestamp = 0
      BY <2>3 DEF NoTotals, NewSlot
    <3> QED
      BY <2>1, <2>3, <3>1, NoTotalIsKnown DEF AllSent, Sent
  <2> QED
    BY <1>4, <2>2, <2>3, QuietTotals
<1> QED
  BY <1>2, <1>3, <1>4 DEF ServerNext, Quiet

-----------------------------------------------------------------------------
(* What is stored and what the SHM has.                                    *)

LEMMA SetMeasurementAt ==
  ASSUME NEW measures, IsUnit(measures), NEW d, NEW q, NEW m
  PROVE  LET new == SetMeasurement(measures, d, q, m)
         IN  /\ DOMAIN new = DOMAIN measures
             /\ \A e \in DOMAIN measures, r \in Quantity :
                  new[e][r] = IF e = d /\ r = q THEN m ELSE measures[e][r]
<1>1. \A e \in DOMAIN measures : DOMAIN measures[e] = Quantity
  BY DEF IsUnit
<1> QED
  BY <1>1 DEF SetMeasurement, AddMetricInfo

LEMMA PurgedAt ==
  ASSUME NEW o \in Owner, IsUnit(powerdevices[o])
  PROVE  /\ DOMAIN Purged(o) = DOMAIN powerdevices[o]
         /\ \A d \in DOMAIN powerdevices[o], q \in Quantity :
              Purged(o)[d][q] = RemoveOld(powerdevices[o][d][q], now)
<1>1. \A d \in DOMAIN powerdevices[o] : DOMAIN powerdevices[o][d] = Quantity
  BY DEF IsUnit
<1> QED
  BY <1>1 DEF Purged, RemoveOldMetrics

\* A step that stores nothing that was not handed over, takes nothing from the
\* SHM, and makes no more of the batch, keeps it all covered.
LEMMA CoveredStays ==
  ASSUME AllCovered,
         \A t, m : Covered(t, m) => Covered(t, m)',
         \A item \in batch' : item \in batch \/ Covered(item[1], item[2])',
         \A o \in Owner : \A d \in DOMAIN powerdevices'[o], q \in Quantity :
           \/ powerdevices'[o][d][q] = NoMetric
           \/ /\ d \in DOMAIN powerdevices[o]
              /\ powerdevices'[o][d][q] = powerdevices[o][d][q]
           \/ \E item \in batch : item[1] = <<d, q>> /\ item[2] = powerdevices'[o][d][q]
  PROVE  AllCovered'
<1>1. \A item \in batch' : Covered(item[1], item[2])'
  BY DEF AllCovered
<1>2. ASSUME NEW o \in Owner, NEW d \in DOMAIN powerdevices'[o], NEW q \in Quantity,
             powerdevices'[o][d][q] # NoMetric
      PROVE  Covered(<<d, q>>, powerdevices[o][d][q])'
  <2>1. PICK m : m = powerdevices'[o][d][q]
    OBVIOUS
  <2>2. Covered(<<d, q>>, m)
    <3>1. CASE d \in DOMAIN powerdevices[o] /\ powerdevices[o][d][q] = m
      BY <1>2, <2>1, <3>1 DEF AllCovered
    <3>2. ASSUME NEW item \in batch, item[1] = <<d, q>>, item[2] = m
          PROVE  Covered(<<d, q>>, m)
      BY <3>2 DEF AllCovered
    <3> QED
      BY <1>2, <2>1, <3>1, <3>2
  <2>3. Covered(<<d, q>>, m)'
    BY <2>2
  <2> QED
    BY <2>1, <2>3 DEF Covered
<1> QED
  BY <1>1, <1>2 DEF AllCovered

LEMMA CoveredStep ==
  ASSUME WriteFailures = {{}}, Texts = {}, TypeOK, ThreadsInv, TimerInv, MeasuresInv, AllCovered,
         [ServerNext]_serverVars
  PROVE  AllCovered'
<1> USE DEF memory, environment
<1>0. /\ \A o \in Owner : IsUnit(powerdevices[o]) /\ DOMAIN powerdevices[o] \subseteq Device
      /\ now \in Nat
  BY DEF TypeOK, IsUnit
<1>a. ASSUME shm' = shm PROVE \A t, m : Covered(t, m) => Covered(t, m)'
  BY <1>a DEF Covered
<1>1. CASE HandOver
  <2>1. PICK item \in batch : HandsOver(item)
    BY <1>1, HandOverTotals
  <2>2. shm' = shm /\ batch' \subseteq batch
    BY <1>1 DEF HandOver
  <2>3. item[1] \in Topic
    BY DEF AllCovered, Covered
  <2>4. item[1] = <<item[1][1], item[1][2]>>
    BY <2>3 DEF Topic
  <2>5. ASSUME NEW o \in Owner, NEW d \in DOMAIN powerdevices'[o], NEW q \in Quantity
        PROVE  /\ d \in DOMAIN powerdevices[o]
               /\ \/ powerdevices'[o][d][q] = powerdevices[o][d][q]
                  \/ item[1] = <<d, q>> /\ item[2] = powerdevices'[o][d][q]
    BY <1>0, <2>1, <2>4, SetMeasurementAt DEF HandsOver
  <2> QED
    BY <1>a, <2>2, <2>5, CoveredStays
<1>2. CASE Poll
  <2>1. shm' = shm /\ batch' = batch /\ powerdevices' = [o \in Owner |-> Purged(o)]
    BY <1>2 DEF Poll, OnPoll, puller
  <2>2. \A o \in Owner : \A d \in DOMAIN powerdevices'[o], q \in Quantity :
          /\ d \in DOMAIN powerdevices[o]
          /\ powerdevices'[o][d][q] = RemoveOld(powerdevices[o][d][q], now)
    BY <1>0, <2>1, PurgedAt
  <2> QED
    BY <1>a, <2>1, <2>2, CoveredStays DEF RemoveOld
<1>3. CASE Boot \/ Reload
  <2>1. /\ shm' = shm /\ batch' = batch
        /\ \A o \in Owner :
             powerdevices'[o] = powerdevices[o] \/ IsEmptyUnit(powerdevices'[o])
    BY <1>3, UnitIsEmpty
    DEF Boot, Reload, Start, Configure, ConfigureRacks, ConfigureDCs, ConfigureThrows, puller
  <2> QED
    BY <1>a, <2>1, CoveredStays DEF IsEmptyUnit
<1>4. CASE Pull
  <2>1. /\ shm' = shm /\ powerdevices' = powerdevices
        /\ batch' = {<<t, shm[t]>> : t \in Readable}
    BY <1>4 DEF Pull, vars
  <2>2. ASSUME NEW t \in Readable
        PROVE  Covered(t, shm[t])'
    <3>1. t \in Topic /\ shm[t] # NoMetric
      BY DEF Readable
    <3>2. PICK v \in MetricValues \cup Texts, at \in 0 .. now : shm[t] = MetricInfo(v, at, MetricTtl)
      BY <3>1 DEF ThreadsInv
    <3>3. shm[t].timestamp \in Nat /\ shm[t].ttl = MetricTtl
      BY <1>0, <3>2 DEF MetricInfo
    <3> QED
      BY <2>1, <3>1, <3>3 DEF Covered
  <2>3. \A item \in batch' : Covered(item[1], item[2])'
    BY <2>1, <2>2 DEF Covered
  <2> QED
    BY <1>a, <2>1, <2>3, CoveredStays
<1>5. CASE Report
  <2>1. PICK t \in Topic, v \in MetricValues \cup Texts :
          /\ shm' = [shm EXCEPT ![t] = MetricInfo(v, now, MetricTtl)]
          /\ UNCHANGED <<vars, server, puller>>
    BY <1>5 DEF Report
  <2>2. now' = now /\ batch' = batch /\ powerdevices' = powerdevices
    BY <2>1 DEF vars, puller
  <2>3. shm'[t] = MetricInfo(v, now, MetricTtl) \/ shm'[t] = shm[t]
    BY <2>1
  <2>4. \A u \in Topic : u # t => shm'[u] = shm[u]
    BY <2>1
  <2>5. ASSUME NEW u, NEW m, Covered(u, m)
        PROVE  Covered(u, m)'
    <3>1. u \in Topic /\ shm[u] # NoMetric
      BY <2>5 DEF Covered
    <3>2. PICK w \in MetricValues \cup Texts, at \in 0 .. now : shm[u] = MetricInfo(w, at, MetricTtl)
      BY <3>1 DEF ThreadsInv
    <3>3. MetricInfo(v, now, MetricTtl) # NoMetric
      BY <1>0, NoMetricAssumption, ConfigurationAssumption DEF MetricInfo
    <3>4. m.timestamp <= at /\ m.ttl = MetricTtl /\ m.timestamp \in Nat
      BY <2>5, <3>2 DEF Covered, MetricInfo
    <3>5. CASE u = t /\ shm'[t] = MetricInfo(v, now, MetricTtl)
      <4>1. shm'[t].timestamp = now
        BY <3>5 DEF MetricInfo
      <4>2. m.timestamp <= now
        BY <1>0, <3>2, <3>4
      <4> QED
        BY <3>1, <3>3, <3>4, <3>5, <4>1, <4>2 DEF Covered
    <3>6. CASE shm'[u] = shm[u]
      BY <2>5, <3>6 DEF Covered
    <3> QED
      BY <2>3, <2>4, <3>1, <3>5, <3>6
  <2> QED
    BY <2>2, <2>5, CoveredStays
<1>6. CASE Sleep \/ Wake \/ Handle \/ EndPull \/ AssetAgent \/ TimePasses \/ UNCHANGED serverVars
  <2>1. shm' = shm /\ powerdevices' = powerdevices /\ batch' = batch
    BY <1>6 DEF Sleep, Wake, Handle, ProcessAsset, EndPull, SetPollInterval, AssetAgent,
                DBChange, OtherAsset, TimePasses, Tick, serverVars, vars, puller
  <2> QED
    BY <1>a, <2>1, CoveredStays
<1> QED
  BY <1>1, <1>2, <1>3, <1>4, <1>5, <1>6 DEF ServerNext

-----------------------------------------------------------------------------
(* The renewal.                                                            *)

LEMMA NoTotalYetStep ==
  ASSUME NoTotalYet, [ServerNext]_serverVars
  PROVE  NoTotalYet'
<1> USE DEF memory, environment
<1>1. CASE (HandOver \/ Poll) /\ ~ UNCHANGED vars
  <2>1. phase' \in {"idle", "pollRacks"}
    BY <1>1 DEF HandOver, ProcessMetric, Poll, OnPoll
  <2> QED
    BY <2>1 DEF NoTotalYet, Booting
<1>3. CASE UNCHANGED vars
  BY <1>3 DEF vars, NoTotalYet, Booting
<1>2. CASE Quiet
  <2>1. total' = total \/ \A s \in Slot : ~ QuantityIsKnown(total[s])'
    BY <1>2, QuietTotals, NoTotalIsKnown
  <2>2. Booting' => Booting
    BY <1>2 DEF Quiet, Boot, Start, Configure, ConfigureRacks, ConfigureDCs, ConfigureThrows, Return,
                Sleep, Wake, Reload, Handle, ProcessAsset, Pull, EndPull, SetPollInterval,
                Report, AssetAgent, DBChange, OtherAsset, TimePasses, Tick, serverVars,
                vars, Booting
  <2> QED
    BY <2>1, <2>2 DEF NoTotalYet
<1> QED
  BY <1>1, <1>2, <1>3 DEF ServerNext, Quiet

\* A total that was sent a moment ago needs no pull.
LEMMA RecentIsRenewed ==
  ASSUME TypeOK', PendingInv', AllSent', NoTotalYet', NEW s \in Slot,
         QuantityIsKnown(total'[s]) => Recently(s, now)'
  PROVE  Renewed(s)'
<1> SUFFICES ASSUME QuantityIsKnown(total'[s])
             PROVE  Recently(s, LastPull)'
  BY DEF Renewed
<1>1. /\ published'[s].time \in Nat /\ now' \in Nat /\ RepeatAfter \in Nat
      /\ pullAt' \in Nat /\ PullInterval \in Nat
  BY UnitAssumption, ServerAssumption
  DEF AllSent, Sent, TypeOK, IsSlot, PendingInv
<1>2. ~ Booting'
  BY DEF NoTotalYet
<1>3. LastPull' <= now'
  BY <1>2 DEF PendingInv
<1> QED
  BY <1>1, <1>3 DEF Recently, LastPull

\* A measurement that is not old now was not old before, nor is the one that
\* the SHM has.
LEMMA AliveIsReadable ==
  ASSUME TypeOK, ThreadsInv, TimerInv, AllCovered, NEW t, NEW m, Covered(t, m),
         ~ Old(m, now), m # NoMetric
  PROVE  t \in Readable
<1>1. t \in Topic /\ shm[t] # NoMetric /\ m.timestamp \in Nat /\ m.ttl = MetricTtl
  BY DEF Covered
<1>2. PICK v \in MetricValues \cup Texts, at \in 0 .. now : shm[t] = MetricInfo(v, at, MetricTtl)
  BY <1>1 DEF ThreadsInv
<1>3. shm[t].timestamp = at /\ shm[t].ttl = MetricTtl
  BY <1>2 DEF MetricInfo
<1>4. /\ now \in Nat /\ now < UintRange /\ UintRange \in Nat /\ MetricTtl \in Nat
      /\ at \in 0 .. now /\ m.timestamp <= at
  BY <1>3, UintRangeAssumption, ConfigurationAssumption DEF TypeOK, TimerInv, Covered
<1>5. USub(now, m.timestamp) = now - m.timestamp /\ USub(now, at) = now - at
  BY <1>1, <1>4 DEF USub
<1>6. now - m.timestamp <= MetricTtl
  BY <1>1, <1>4, <1>5 DEF Old
<1>7. ~ (USub(now, at) > MetricTtl)
  BY <1>1, <1>4, <1>5, <1>6
<1> QED
  BY <1>1, <1>3, <1>7 DEF Readable, Old

LEMMA OldStaysOld ==
  ASSUME now \in Nat, now' = now + 1, now' < UintRange, UintRange \in Nat,
         NEW m, m.timestamp \in Nat, m.timestamp <= now, m.ttl \in Nat,
         ~ Old(m, now')
  PROVE  ~ Old(m, now)
<1>1. ASSUME NEW t \in Nat, t < UintRange, m.timestamp <= t
      PROVE  USub(t, m.timestamp) = t - m.timestamp
  BY <1>1 DEF USub
<1>2. now' \in Nat /\ now < UintRange /\ m.timestamp <= now'
  OBVIOUS
<1>3. /\ USub(now, m.timestamp) = now - m.timestamp
      /\ USub(now', m.timestamp) = now' - m.timestamp
  BY <1>1, <1>2
<1> QED
  BY <1>3 DEF Old

\* A metric that is handed over feeds the total that waits for it, since no
\* other unit has taken the device (KnownTotalsAreFed).
LEMMA HandOverRenews ==
  ASSUME WriteFailures = {{}}, Texts = {}, ServerInv, ServerInv', FreshInv, AllSent', NoTotalYet',
         KnownTotalsAreFed, HandOver, NEW s \in Slot
  PROVE  Renewed(s)'
<1>0. /\ now' = now /\ pulling /\ pulling'
      /\ now \in Nat \ {0} /\ now < UintRange
      /\ IsSlot(total[s]) /\ Sent(total[s], published[s]) /\ Renewed(s)
      /\ s[1] \in Owner /\ s[2] \in Quantity /\ IsUnit(powerdevices[s[1]])
  BY DEF HandOver, ProcessMetric, ServerInv, TypeOK, TimerInv, FreshInv, AllSent,
         RenewedByPull, Slot
<1>1. PICK item \in batch : HandsOver(item)
  BY HandOverTotals
<1> DEFINE d == item[1][1]
           q == item[1][2]
<1>2. CASE s \in Refreshed(Fed(d, q), q)
  <2>1. QuantityIsKnown(total'[s]) => Recently(s, now)'
    BY <1>0, <1>1, <1>2, ResentIsRecent DEF HandsOver
  <2> QED
    BY <2>1, RecentIsRenewed DEF ServerInv
<1>3. CASE s \notin Refreshed(Fed(d, q), q)
  <2>1. Untouched(s)
    BY <1>1, <1>3 DEF HandsOver
  <2>2. ~ (s[1] \in Fed(d, q) /\ s[2] = q)
    BY <1>3 DEF Refreshed
  <2>3. /\ DOMAIN powerdevices'[s[1]] = DOMAIN powerdevices[s[1]]
        /\ \A e \in DOMAIN powerdevices[s[1]] :
             powerdevices'[s[1]][e][s[2]] = powerdevices[s[1]][e][s[2]]
    BY <1>0, <1>1, <2>2, SetMeasurementAt DEF HandsOver
  <2>4. SUFFICES ASSUME QuantityIsKnown(total'[s]), Alive(s)', ~ Recently(s, now)'
                 PROVE  \E e \in DOMAIN powerdevices'[s[1]], other \in batch' :
                          other[1] = <<e, s[2]>>
    BY <1>0 DEF Renewed
  <2>5. QuantityIsKnown(total[s]) /\ Alive(s) /\ ~ Recently(s, now)
    BY <1>0, <2>1, <2>3, <2>4 DEF Untouched, Alive, Recently
  <2>6. PICK e \in DOMAIN powerdevices[s[1]], other \in batch : other[1] = <<e, s[2]>>
    BY <1>0, <2>5 DEF Renewed
  <2>7. other # item
    <3>1. SUFFICES ASSUME other = item PROVE FALSE
      OBVIOUS
    <3>2. d = e /\ q = s[2]
      BY <2>6, <3>1
    <3>3. HasUnit(s[1]) /\ AffectedUnit(e, s[1]) = s[1]
      BY <2>5 DEF KnownTotalsAreFed
    <3>4. s[2] \in QuantitiesOf(s[1])
      BY DEF Slot
    <3>5. s[1] \in Fed(e, s[2])
      BY <1>0, <3>3, <3>4 DEF Fed, AffectedUnit
    <3> QED
      BY <2>2, <3>2, <3>5
  <2>8. other \in batch'
    BY <1>1, <2>7 DEF HandsOver
  <2> QED
    BY <2>3, <2>6, <2>8
<1> QED
  BY <1>2, <1>3

\* A pull takes a metric of each device that is alive.
LEMMA PullRenews ==
  ASSUME ServerInv, FreshInv, KnownTotalsAreFed, Pull, NEW s \in Slot
  PROVE  Renewed(s)'
<1> USE DEF memory, environment
<1>1. /\ now' = now /\ total' = total /\ powerdevices' = powerdevices /\ pulling'
      /\ batch' = {<<t, shm[t]>> : t \in Readable}
  BY DEF Pull, vars
<1>2. SUFFICES ASSUME QuantityIsKnown(total[s]), Alive(s)
               PROVE  \E d \in DOMAIN powerdevices[s[1]], item \in batch' : item[1] = <<d, s[2]>>
  BY <1>1 DEF Renewed, Alive
<1>3. s[1] \in Owner /\ s[2] \in Quantity
  BY DEF Slot
<1>4. PICK d \in DOMAIN powerdevices[s[1]] : TRUE
  BY <1>2 DEF KnownTotalsAreFed, HasUnit
<1>5. PICK m : m = powerdevices[s[1]][d][s[2]]
  OBVIOUS
<1>6. m # NoMetric /\ ~ Old(m, now)
  BY <1>2, <1>4, <1>5 DEF Alive
<1>7. Covered(<<d, s[2]>>, m)
  BY <1>3, <1>4, <1>5, <1>6 DEF FreshInv, AllCovered
<1>8. <<d, s[2]>> \in Readable
  BY <1>6, <1>7, AliveIsReadable DEF ServerInv, FreshInv
<1>9. PICK item : item = <<<<d, s[2]>>, shm[<<d, s[2]>>]>>
  OBVIOUS
<1>10. item \in batch' /\ item[1] = <<d, s[2]>>
  BY <1>1, <1>8, <1>9
<1> QED
  BY <1>4, <1>10

\* A reload forgets the totals, or the measurements that they are made of.
LEMMA ReloadRenews ==
  ASSUME ServerInv', FreshInv, AllSent', NoTotalYet', KnownTotalsAreFed', Reload,
         NEW s \in Slot
  PROVE  Renewed(s)'
<1> USE DEF memory, environment
<1>1. CASE total' = NoTotals
  BY <1>1, NoTotalIsKnown, RecentIsRenewed DEF ServerInv
<1>2. CASE /\ UNCHANGED <<now, published, total, pulling, batch, pullAt>>
           /\ powerdevices'[s[1]] = powerdevices[s[1]]
  BY <1>2 DEF FreshInv, RenewedByPull, Renewed, Alive, Recently, LastPull
<1>3. CASE IsEmptyUnit(powerdevices'[s[1]])
  <2>1. SUFFICES ASSUME QuantityIsKnown(total'[s]) PROVE ~ Alive(s)'
    BY DEF Renewed
  <2>2. PICK d \in DOMAIN powerdevices'[s[1]] : TRUE
    BY <2>1 DEF KnownTotalsAreFed, HasUnit
  <2>3. powerdevices'[s[1]][d][s[2]] = NoMetric
    BY <1>3, <2>2 DEF IsEmptyUnit, Slot
  <2> QED
    BY <2>2, <2>3 DEF Alive
<1>4. CASE total' # NoTotals
  <2>1. /\ UNCHANGED <<now, published, total, pulling, batch, pullAt>>
        /\ \/ powerdevices'[s[1]] = powerdevices[s[1]]
           \/ IsEmptyUnit(powerdevices'[s[1]])
    BY <1>4, UnitIsEmpty
    DEF Reload, Configure, ConfigureRacks, ConfigureDCs, ConfigureThrows, puller, Slot
  <2> QED
    BY <1>2, <1>3, <2>1
<1> QED
  BY <1>1, <1>4

LEMMA RenewedStep ==
  ASSUME WriteFailures = {{}}, Texts = {}, ServerInv, ServerInv', FreshInv, AllSent', NoTotalYet',
         KnownTotalsAreFed, KnownTotalsAreFed', [ServerNext]_serverVars
  PROVE  RenewedByPull'
<1> USE DEF memory, environment
<1> SUFFICES ASSUME NEW s \in Slot PROVE Renewed(s)'
  BY DEF RenewedByPull
<1>0. /\ now \in Nat \ {0} /\ now < UintRange /\ UintRange \in Nat
      /\ IsSlot(total[s]) /\ Sent(total[s], published[s]) /\ Renewed(s)
      /\ s[1] \in Owner /\ s[2] \in Quantity
  BY UintRangeAssumption
  DEF ServerInv, TypeOK, TimerInv, FreshInv, AllSent, RenewedByPull, Slot
<1>1. CASE HandOver
  BY <1>1, HandOverRenews
<1>2. CASE Pull
  BY <1>2, PullRenews
<1>3. CASE Reload
  BY <1>3, ReloadRenews
<1>4. CASE Poll
  <2>1. now' = now /\ OnPoll({}) /\ UNCHANGED <<pulling, batch, pullAt>>
    BY <1>4 DEF Poll, OnPoll, puller
  <2>2. IF HasUnit(s[1]) THEN Resent(s) ELSE Untouched(s)
    BY <2>1, PollTotals
  <2>3. QuantityIsKnown(total'[s]) => Recently(s, now)'
    BY <1>0, <2>1, <2>2, ResentIsRecent DEF Untouched, KnownTotalsAreFed
  <2> QED
    BY <2>3, RecentIsRenewed DEF ServerInv
<1>5. CASE Boot
  <2>1. ~ QuantityIsKnown(total'[s])
    <3>1. Booting /\ Quiet
      BY <1>5 DEF Boot, Quiet
    <3> QED
      BY <3>1, QuietTotals, NoTotalIsKnown DEF FreshInv, NoTotalYet
  <2> QED
    BY <2>1 DEF Renewed
<1>6. CASE EndPull
  <2>1. /\ UNCHANGED <<now, published, total, powerdevices>>
        /\ pulling /\ batch = {} /\ ~ pulling' /\ LastPull' = now
    <3>1. pullAt' = now + PullInterval /\ PullInterval \in Nat
      BY <1>6, ServerAssumption DEF EndPull
    <3>2. LastPull' = now
      BY <1>0, <3>1 DEF LastPull
    <3> QED
      BY <1>6, <3>2 DEF EndPull, SetPollInterval
  <2> QED
    BY <1>0, <2>1 DEF Renewed, Alive, Recently
<1>7. CASE TimePasses
  <2>1. /\ now' = now + 1 /\ ~ pulling /\ ~ pulling'
        /\ UNCHANGED <<published, total, powerdevices, pullAt>>
    BY <1>7 DEF TimePasses, BothSleep, Tick, puller
  <2>2. now' < UintRange
    BY DEF ServerInv, TimerInv
  <2>3. ASSUME NEW d \in DOMAIN powerdevices[s[1]], NEW m, m = powerdevices[s[1]][d][s[2]],
               m # NoMetric, ~ Old(m, now')
        PROVE  ~ Old(m, now)
    <3>1. m.timestamp <= now
      BY <1>0, <2>3 DEF ServerInv, MeasuresInv
    <3>2. m.timestamp \in Nat /\ m.ttl \in Nat
      BY <1>0, <2>3, ConfigurationAssumption DEF FreshInv, AllCovered, Covered
    <3> QED
      BY <1>0, <2>1, <2>2, <2>3, <3>1, <3>2, OldStaysOld
  <2>4. Alive(s)' => Alive(s)
    BY <2>1, <2>3 DEF Alive
  <2> QED
    BY <1>0, <2>1, <2>4 DEF Renewed, Recently, LastPull
<1>8. CASE Sleep \/ Wake \/ Handle \/ Report \/ AssetAgent \/ UNCHANGED serverVars
  <2>1. UNCHANGED <<now, published, total, powerdevices, pulling, batch, pullAt>>
    BY <1>8 DEF Sleep, Wake, Handle, ProcessAsset, Report, AssetAgent, DBChange, OtherAsset,
                serverVars, vars, puller
  <2> QED
    BY <1>0, <2>1 DEF Renewed, Alive, Recently, LastPull
<1> QED
  BY <1>1, <1>2, <1>3, <1>4, <1>5, <1>6, <1>7, <1>8 DEF ServerNext

LEMMA FreshInit == ServerInit => FreshInv
<1> SUFFICES ASSUME ServerInit PROVE FreshInv
  OBVIOUS
<1>1. now = 1 /\ total = NoTotals /\ \A o \in Owner : DOMAIN powerdevices[o] = {}
  BY DEF ServerInit, Init, Unit
<1>2. \A s \in Slot : ~ QuantityIsKnown(total[s]) /\ total[s].advertisedtimestamp = 0
  BY <1>1 DEF NoTotals, NewSlot, QuantityIsKnown, ValueOf
<1>3. AllSent /\ NoTotalYet /\ RenewedByPull
  BY <1>1, <1>2 DEF AllSent, Sent, NoTotalYet, RenewedByPull, Renewed
<1>4. AllCovered
  BY <1>1 DEF ServerInit, AllCovered
<1> QED
  BY <1>3, <1>4 DEF FreshInv

LEMMA FreshStep ==
  ASSUME WriteFailures = {{}}, Texts = {}, ServerInv, ServerInv', FreshInv, KnownTotalsAreFed,
         KnownTotalsAreFed', [ServerNext]_serverVars
  PROVE  FreshInv'
<1>1. AllSent'
  BY SentStep DEF ServerInv, FreshInv
<1>2. AllCovered'
  BY CoveredStep DEF ServerInv, FreshInv
<1>3. NoTotalYet'
  BY NoTotalYetStep DEF FreshInv
<1>4. RenewedByPull'
  BY <1>1, <1>3, RenewedStep
<1> QED
  BY <1>1, <1>2, <1>3, <1>4 DEF FreshInv

LEMMA FreshAlways ==
  ASSUME WriteFailures = {{}}, Texts = {}
  PROVE  ServerSpec => [](ServerInv /\ FreshInv)
<1>1. ServerSpec => []KnownTotalsAreFed
  BY ServerImplements, KnownTotalsAreFedHolds, PTL
<1>2. /\ ServerInv /\ ServerInv' /\ FreshInv /\ KnownTotalsAreFed /\ KnownTotalsAreFed'
      /\ [ServerNext]_serverVars
      => FreshInv'
  BY FreshStep
<1> QED
  BY <1>1, <1>2, FreshInit, ServerInvInit, ServerInvStep, PTL DEF ServerSpec

\* What both theorems need of a total whose devices report, while all sleep.
LEMMA AsleepIsRecent ==
  ASSUME ServerInv, FreshInv, BothSleep, NEW s \in Slot, QuantityIsKnown(total[s]), Alive(s)
  PROVE  /\ Recently(s, LastPull) /\ now < LastPull + PullInterval
         /\ published[s].time \in Nat /\ now \in Nat /\ LastPull \in Int
         /\ RepeatAfter \in Nat /\ PullInterval \in Nat
<1>1. Recently(s, LastPull) /\ now < pullAt
  BY DEF BothSleep, FreshInv, RenewedByPull, Renewed
<1>2. /\ published[s].time \in Nat /\ now \in Nat /\ pullAt \in Nat
      /\ RepeatAfter \in Nat /\ PullInterval \in Nat
  BY UnitAssumption, ServerAssumption
  DEF ServerInv, TypeOK, IsSlot, PendingInv, FreshInv, AllSent, Sent
<1> QED
  BY <1>1, <1>2 DEF LastPull

-----------------------------------------------------------------------------
(* The theorems.                                                           *)

\* When no write fails, the total of a unit whose devices all report is less
\* old in the SHM than the repeat and the pull interval, hence than its TTL.
THEOREM FreshInSHMHolds ==
  ASSUME WriteFailures = {{}}, Texts = {}
  PROVE  ServerSpec => []FreshInSHM
<1>1. ServerInv /\ FreshInv => FreshInSHM
  <2> SUFFICES ASSUME ServerInv, FreshInv, NEW s \in Slot, BothSleep,
                      QuantityIsKnown(total[s]), Alive(s)
               PROVE  now - published[s].time < RepeatAfter + PullInterval
    BY DEF FreshInSHM
  <2> QED
    BY AsleepIsRecent DEF Recently
<1> QED
  BY <1>1, FreshAlways, PTL

\* When no write fails, a total that is held back is sent by the next pull.
THEOREM ShownInSHMHolds ==
  ASSUME WriteFailures = {{}}, Texts = {}
  PROVE  ServerSpec => []ShownInSHM
<1>1. ServerInv /\ FreshInv /\ NoLostUpdate => ShownInSHM
  <2> SUFFICES ASSUME ServerInv, FreshInv, NoLostUpdate, NEW s \in Slot, BothSleep,
                      QuantityIsKnown(total[s]), Alive(s)
               PROVE  \/ published[s].value = total[s].lastValue.value
                      \/ now - published[s].time < PullInterval
    BY DEF ShownInSHM
  <2>1. CASE ~ total[s].changed
    BY <2>1 DEF NoLostUpdate
  <2>2. CASE total[s].changed
    BY <2>2, AsleepIsRecent DEF Recently
  <2>3. total[s].changed \in BOOLEAN
    BY DEF ServerInv, TypeOK, IsSlot
  <2> QED
    BY <2>1, <2>2, <2>3
<1> QED
  BY <1>1, FreshAlways, ServerImplements, NoLostUpdateHolds, PTL

-----------------------------------------------------------------------------
(* What is stored is what the SHM had at the last pull.                    *)

\* The metric m is the one that the SHM has, or that one is not older.
UpToDate(t, m, time) == m = shm[t] \/ shm[t].timestamp >= time

IsCurrent(s, d) ==
  LET m == powerdevices[s[1]][d][s[2]]
      t == <<d, s[2]>>
  IN  m # NoMetric /\ ~ Old(m, now) =>
        IF pulling THEN UpToDate(t, m, now) \/ <<t, shm[t]>> \in batch
                   ELSE UpToDate(t, m, LastPull)

BatchIsCurrent == \A item \in batch : UpToDate(item[1], item[2], now)

UnitsAreCurrent == \A s \in Slot : \A d \in DOMAIN powerdevices[s[1]] : IsCurrent(s, d)

CurrentInv == BatchIsCurrent /\ UnitsAreCurrent

LEMMA HandOverIsCurrent ==
  ASSUME WriteFailures = {{}}, Texts = {}, ServerInv, AllCovered, MeasuresAreFed, CurrentInv, HandOver
  PROVE  CurrentInv'
<1>0. now' = now /\ shm' = shm /\ pulling /\ pulling' /\ phase = "idle"
  BY DEF HandOver, ProcessMetric
<1>1. PICK item \in batch : HandsOver(item)
  BY HandOverTotals
<1>2. batch' = batch \ {item}
  BY <1>1 DEF HandsOver
<1>3. BatchIsCurrent'
  BY <1>0, <1>2 DEF CurrentInv, BatchIsCurrent, UpToDate
<1>4. item[1] = <<item[1][1], item[1][2]>>
  BY DEF AllCovered, Covered, Topic
<1>5. SUFFICES ASSUME NEW s \in Slot, NEW d \in DOMAIN powerdevices'[s[1]]
               PROVE  IsCurrent(s, d)'
  BY <1>3 DEF CurrentInv, UnitsAreCurrent
<1>6. s[1] \in Owner /\ s[2] \in Quantity /\ s[2] \in QuantitiesOf(s[1])
  BY DEF Slot
<1>7. IsUnit(powerdevices[s[1]])
  BY <1>6 DEF ServerInv, TypeOK
<1> DEFINE fed == s[1] \in Fed(item[1][1], item[1][2]) /\ item[1] = <<d, s[2]>>
           m   == powerdevices[s[1]][d][s[2]]
<1>8. /\ d \in DOMAIN powerdevices[s[1]]
      /\ powerdevices'[s[1]][d][s[2]] = IF fed THEN item[2] ELSE m
  BY <1>1, <1>4, <1>6, <1>7, SetMeasurementAt DEF HandsOver
<1>9. CASE fed
  <2>1. UpToDate(<<d, s[2]>>, item[2], now)
    BY <1>9 DEF CurrentInv, BatchIsCurrent
  <2> QED
    BY <1>0, <1>8, <1>9, <2>1 DEF IsCurrent, UpToDate
<1>10. CASE ~ fed
  <2>1. SUFFICES ASSUME m # NoMetric, ~ Old(m, now)
                 PROVE  (UpToDate(<<d, s[2]>>, m, now) \/ <<<<d, s[2]>>, shm[<<d, s[2]>>]>> \in batch')
    BY <1>0, <1>8, <1>10 DEF IsCurrent, UpToDate
  <2>2. UpToDate(<<d, s[2]>>, m, now) \/ <<<<d, s[2]>>, shm[<<d, s[2]>>]>> \in batch
    BY <1>0, <1>8, <2>1 DEF CurrentInv, UnitsAreCurrent, IsCurrent
  <2>3. ASSUME item = <<<<d, s[2]>>, shm[<<d, s[2]>>]>>
        PROVE  fed
    <3>1. item[1] = <<d, s[2]>> /\ item[1][1] = d /\ item[1][2] = s[2]
      BY <2>3
    <3>2. AffectedUnit(d, s[1]) = s[1]
      BY <1>6, <1>8, <2>1 DEF MeasuresAreFed, Loaded
    <3>3. HasUnit(s[1])
      BY <1>8 DEF HasUnit
    <3>4. s[1] \in Fed(d, s[2])
      BY <1>6, <3>2, <3>3 DEF Fed, AffectedUnit
    <3> QED
      BY <3>1, <3>4
  <2> QED
    BY <1>2, <1>10, <2>2, <2>3
<1> QED
  BY <1>9, <1>10

\* A pull takes the newest metric of every topic whose stored one is not old.
LEMMA PullIsCurrent ==
  ASSUME ServerInv, AllCovered, CurrentInv, Pull
  PROVE  CurrentInv'
<1> USE DEF memory, environment
<1>1. /\ now' = now /\ shm' = shm /\ powerdevices' = powerdevices /\ pulling'
      /\ batch' = {<<t, shm[t]>> : t \in Readable}
  BY DEF Pull, vars
<1>2. BatchIsCurrent'
  BY <1>1 DEF BatchIsCurrent, UpToDate
<1>3. ASSUME NEW s \in Slot, NEW d \in DOMAIN powerdevices[s[1]]
      PROVE  IsCurrent(s, d)'
  <2> DEFINE m == powerdevices[s[1]][d][s[2]]
  <2>1. SUFFICES ASSUME m # NoMetric, ~ Old(m, now)
                 PROVE  <<<<d, s[2]>>, shm[<<d, s[2]>>]>> \in batch'
    BY <1>1 DEF IsCurrent
  <2>2. Covered(<<d, s[2]>>, m)
    BY <1>3, <2>1 DEF AllCovered, Slot
  <2>3. <<d, s[2]>> \in Readable
    BY <2>1, <2>2, AliveIsReadable DEF ServerInv
  <2> QED
    BY <1>1, <2>3
<1> QED
  BY <1>1, <1>2, <1>3 DEF CurrentInv, UnitsAreCurrent

\* What a device reports is newer than the last pull.
LEMMA ReportIsCurrent ==
  ASSUME ServerInv, AllCovered, CurrentInv, Report
  PROVE  CurrentInv'
<1> USE DEF memory, environment
<1>0. now \in Nat /\ pullAt \in Nat /\ PullInterval \in Nat
  BY ServerAssumption DEF ServerInv, TypeOK, PendingInv
<1>1. PICK t \in Topic, v \in MetricValues \cup Texts :
        /\ shm' = [shm EXCEPT ![t] = MetricInfo(v, now, MetricTtl)]
        /\ UNCHANGED <<vars, server, puller>>
  BY DEF Report
<1>2. UNCHANGED <<now, batch, powerdevices, pulling, pullAt>>
  BY <1>1 DEF vars, puller
<1>3. ASSUME NEW u \in Topic, shm'[u] # shm[u]
      PROVE  shm'[u].timestamp = now
  <2>1. shm'[u] = MetricInfo(v, now, MetricTtl)
    BY <1>1, <1>3
  <2> QED
    BY <2>1 DEF MetricInfo
<1>4. ASSUME NEW u \in Topic, NEW m, NEW time \in Int, time <= now, UpToDate(u, m, time)
      PROVE  UpToDate(u, m, time)'
  BY <1>0, <1>3, <1>4 DEF UpToDate
<1>5. BatchIsCurrent'
  <2>1. SUFFICES ASSUME NEW item \in batch PROVE UpToDate(item[1], item[2], now)'
    BY <1>2 DEF BatchIsCurrent
  <2>2. item[1] \in Topic /\ UpToDate(item[1], item[2], now)
    BY DEF AllCovered, Covered, CurrentInv, BatchIsCurrent
  <2>3. PICK m : m = item[2]
    OBVIOUS
  <2>4. shm'[item[1]] = shm[item[1]] \/ shm'[item[1]].timestamp = now
    BY <1>3, <2>2
  <2> QED
    BY <1>0, <1>2, <2>2, <2>4 DEF UpToDate
<1>6. ASSUME NEW s \in Slot, NEW d \in DOMAIN powerdevices[s[1]]
      PROVE  IsCurrent(s, d)'
  <2> DEFINE m == powerdevices[s[1]][d][s[2]]
             u == <<d, s[2]>>
  <2>1. SUFFICES ASSUME m # NoMetric, ~ Old(m, now) PROVE IsCurrent(s, d)'
    BY <1>2 DEF IsCurrent
  <2>2. u \in Topic
    BY <1>6, <2>1 DEF AllCovered, Covered, Slot
  <2>3. LastPull <= now
    BY <1>6, <2>1 DEF ServerInv, MeasuresInv, PendingInv, Slot
  <2>4. CASE shm'[u] = shm[u]
    BY <1>2, <1>6, <2>4 DEF CurrentInv, UnitsAreCurrent, IsCurrent, UpToDate, LastPull
  <2>5. CASE shm'[u].timestamp = now
    BY <1>0, <1>2, <2>3, <2>5 DEF IsCurrent, UpToDate, LastPull
  <2> QED
    BY <1>3, <2>2, <2>4, <2>5
<1> QED
  BY <1>2, <1>5, <1>6 DEF CurrentInv, UnitsAreCurrent

LEMMA CurrentStep ==
  ASSUME WriteFailures = {{}}, Texts = {}, ServerInv, ServerInv', AllCovered, MeasuresAreFed,
         CurrentInv, [ServerNext]_serverVars
  PROVE  CurrentInv'
<1> USE DEF memory, environment
<1>0. now \in Nat \ {0} /\ pullAt \in Nat /\ PullInterval \in Nat
  BY ServerAssumption DEF ServerInv, TypeOK, PendingInv
<1>1. CASE HandOver
  BY <1>1, HandOverIsCurrent
<1>2. CASE Pull
  BY <1>2, PullIsCurrent
<1>3. CASE Report
  BY <1>3, ReportIsCurrent
\* All other steps leave the SHM and the batch.
<1>4. CASE EndPull
  <2>1. /\ UNCHANGED <<now, shm, batch, powerdevices>>
        /\ pulling /\ batch = {} /\ ~ pulling' /\ pullAt' = now + PullInterval
    BY <1>4 DEF EndPull, SetPollInterval
  <2>2. LastPull' = now
    BY <1>0, <2>1 DEF LastPull
  <2> QED
    BY <2>1, <2>2 DEF CurrentInv, BatchIsCurrent, UnitsAreCurrent, IsCurrent, UpToDate
<1>5. CASE TimePasses
  <2>1. /\ UNCHANGED <<shm, batch, powerdevices, pullAt>>
        /\ now' = now + 1 /\ ~ pulling /\ ~ pulling'
    BY <1>5 DEF TimePasses, BothSleep, Tick, puller
  <2>2. batch = {}
    BY <2>1 DEF ServerInv, ThreadsInv
  <2>3. now' < UintRange /\ UintRange \in Nat /\ MetricTtl \in Nat
    BY UintRangeAssumption, ConfigurationAssumption DEF ServerInv, TimerInv
  <2>4. ASSUME NEW s \in Slot, NEW d \in DOMAIN powerdevices[s[1]],
               NEW m, m = powerdevices[s[1]][d][s[2]], m # NoMetric, ~ Old(m, now')
        PROVE  ~ Old(m, now)
    <3>1. s[1] \in Owner /\ s[2] \in Quantity
      BY DEF Slot
    <3>2. m.timestamp <= now
      BY <2>4, <3>1 DEF ServerInv, MeasuresInv
    <3>3. m.timestamp \in Nat /\ m.ttl \in Nat
      BY <2>3, <2>4, <3>1 DEF AllCovered, Covered
    <3> QED
      BY <1>0, <2>1, <2>3, <2>4, <3>2, <3>3, OldStaysOld
  <2>5. ASSUME NEW s \in Slot, NEW d \in DOMAIN powerdevices[s[1]]
        PROVE  IsCurrent(s, d)'
    <3>1. IsCurrent(s, d)
      BY DEF CurrentInv, UnitsAreCurrent
    <3> QED
      BY <2>1, <2>4, <3>1 DEF IsCurrent, UpToDate, LastPull
  <2> QED
    BY <2>1, <2>2, <2>5 DEF CurrentInv, BatchIsCurrent, UnitsAreCurrent
<1>6. CASE Poll
  <2>1. /\ UNCHANGED <<now, shm, batch, pulling, pullAt>>
        /\ powerdevices' = [o \in Owner |-> Purged(o)]
    BY <1>6 DEF Poll, OnPoll, puller
  <2>2. ASSUME NEW s \in Slot, NEW d \in DOMAIN powerdevices'[s[1]]
        PROVE  IsCurrent(s, d)'
    <3>1. s[1] \in Owner /\ s[2] \in Quantity /\ IsUnit(powerdevices[s[1]])
      BY DEF Slot, ServerInv, TypeOK
    <3>2. /\ d \in DOMAIN powerdevices[s[1]]
          /\ powerdevices'[s[1]][d][s[2]] = RemoveOld(powerdevices[s[1]][d][s[2]], now)
      BY <2>1, <2>2, <3>1, PurgedAt
    <3>3. IsCurrent(s, d)
      BY <3>2 DEF CurrentInv, UnitsAreCurrent
    <3> QED
      BY <2>1, <3>2, <3>3 DEF IsCurrent, UpToDate, RemoveOld, LastPull
  <2> QED
    BY <2>1, <2>2 DEF CurrentInv, BatchIsCurrent, UnitsAreCurrent, UpToDate
<1>7. CASE Boot \/ Reload
  <2>1. /\ UNCHANGED <<now, shm, batch, pulling>>
        /\ Booting \/ pullAt' = pullAt
        /\ \A o \in Owner :
             powerdevices'[o] = powerdevices[o] \/ IsEmptyUnit(powerdevices'[o])
    BY <1>7, UnitIsEmpty
    DEF Boot, Reload, Start, Configure, ConfigureRacks, ConfigureDCs, ConfigureThrows, puller
  <2>2. ASSUME NEW s \in Slot, NEW d \in DOMAIN powerdevices'[s[1]],
               powerdevices'[s[1]][d][s[2]] # NoMetric
        PROVE  /\ powerdevices'[s[1]] = powerdevices[s[1]]
               /\ pullAt' = pullAt
    BY <2>1, <2>2 DEF IsEmptyUnit, ServerInv, MeasuresInv, Slot
  <2>3. ASSUME NEW s \in Slot, NEW d \in DOMAIN powerdevices'[s[1]]
        PROVE  IsCurrent(s, d)'
    <3>1. CASE powerdevices'[s[1]][d][s[2]] = NoMetric
      BY <3>1 DEF IsCurrent
    <3>2. CASE powerdevices'[s[1]][d][s[2]] # NoMetric
      <4>1. powerdevices'[s[1]] = powerdevices[s[1]] /\ pullAt' = pullAt
        BY <2>2, <3>2
      <4>2. IsCurrent(s, d)
        BY <4>1 DEF CurrentInv, UnitsAreCurrent
      <4> QED
        BY <2>1, <4>1, <4>2 DEF IsCurrent, UpToDate, LastPull
    <3> QED
      BY <3>1, <3>2
  <2> QED
    BY <2>1, <2>3 DEF CurrentInv, BatchIsCurrent, UnitsAreCurrent, UpToDate
<1>8. CASE Sleep \/ Wake \/ Handle \/ AssetAgent \/ UNCHANGED serverVars
  <2>1. UNCHANGED <<now, shm, batch, powerdevices, pulling, pullAt>>
    BY <1>8 DEF Sleep, Wake, Handle, ProcessAsset, AssetAgent, DBChange, OtherAsset,
                serverVars, vars, puller
  <2> QED
    BY <2>1 DEF CurrentInv, BatchIsCurrent, UnitsAreCurrent, IsCurrent, UpToDate, LastPull
<1> QED
  BY <1>1, <1>2, <1>3, <1>4, <1>5, <1>6, <1>7, <1>8 DEF ServerNext

-----------------------------------------------------------------------------
(* The sum.                                                                *)

UpToDateInv == ServerInv /\ AllCovered /\ MeasuresAreFed /\ CurrentInv

LEMMA CurrentAlways ==
  ASSUME WriteFailures = {{}}, Texts = {}
  PROVE  ServerSpec => []UpToDateInv
<1>1. ServerInit => CurrentInv
  <2> SUFFICES ASSUME ServerInit PROVE CurrentInv
    OBVIOUS
  <2>1. batch = {} /\ \A s \in Slot : DOMAIN powerdevices[s[1]] = {}
    BY DEF ServerInit, Init, Unit, Slot
  <2> QED
    BY <2>1 DEF CurrentInv, BatchIsCurrent, UnitsAreCurrent
<1>2. ServerInv /\ ServerInv' /\ AllCovered /\ MeasuresAreFed /\ CurrentInv
        /\ [ServerNext]_serverVars => CurrentInv'
  BY CurrentStep
<1>3. FedInv => MeasuresAreFed
  BY DEF FedInv
<1>4. FreshInv => AllCovered
  BY DEF FreshInv
<1>5. ServerSpec => []MeasuresAreFed
  BY <1>3, ServerImplements, FedAlways, PTL
<1>6. ServerSpec => [](ServerInv /\ AllCovered)
  BY <1>4, FreshAlways, PTL
<1>7. ServerInv /\ AllCovered /\ MeasuresAreFed /\ CurrentInv => UpToDateInv
  BY DEF UpToDateInv
<1> QED
  BY <1>1, <1>2, <1>5, <1>6, <1>7, PTL DEF ServerSpec

\* The total of a rack, or of an input phase, is the sum of the values under
\* its own quantity, as soon as every device has one.
LEMMA TotalIsSum ==
  ASSUME NEW s \in Slot, s[1] \in Rack \/ s[2] \in {Input(p) : p \in Phase},
         NEW measures, \A d \in DOMAIN measures : measures[d][s[2]] # NoMetric,
         SumOrNaN([d \in DOMAIN measures |-> measures[d][s[2]].value]) # NaN
  PROVE  Total(measures, s[2]) =
           SumOrNaN([d \in DOMAIN measures |-> measures[d][s[2]].value])
<1> DEFINE f == [d \in DOMAIN measures |-> measures[d][s[2]].value]
<1>1. \A d \in DOMAIN measures : GetMetricValue(measures, d, s[2]) = f[d]
  BY DEF GetMetricValue, ValueOf
<1>2. \A d \in DOMAIN measures : f[d] # NaN
  BY DEF SumOrNaN
<1>3. CASE s[2] = Default
  <2>1. f = [d \in DOMAIN measures |->
               IF Measured(measures, d, Default)
               THEN GetMetricValue(measures, d, Default)
               ELSE SumOrNaN([p \in Phase |-> GetMetricValue(measures, d, Output(p))])]
    BY <1>1, <1>2, <1>3 DEF Measured
  <2>2. Default \notin Outputs
    BY DEF Default, Output, Outputs, Phase
  <2>3. Total(measures, s[2]) = RealpowerDefault(measures)
    BY <1>3, <2>2 DEF Total
  <2>4. RealpowerDefault(measures) = SumOrNaN(f)
    BY <2>1 DEF RealpowerDefault
  <2> QED
    BY <2>3, <2>4
<1>4. CASE s[2] # Default
  <2>1. s[2] \in {Input(p) : p \in Phase}
    BY <1>4 DEF Slot, QuantitiesOf, RackQuantities
  <2>2. s[2] \notin Outputs
    BY <2>1 DEF Input, Output, Outputs, Phase
  <2>3. f = [d \in DOMAIN measures |-> GetMetricValue(measures, d, s[2])]
    BY <1>1
  <2> QED
    BY <1>4, <2>2, <2>3 DEF Total, SimpleSummarize
<1> QED
  BY <1>3, <1>4

\* When no write fails, a reader of the SHM finds there, as the total of a
\* rack, the sum of what it finds there of the devices, or one that was right
\* less than a pull interval ago: purging, publishing, the reverse maps and the
\* timers put together.
THEOREM TotalInSHMAddsUpHolds ==
  ASSUME WriteFailures = {{}}, Texts = {}
  PROVE  ServerSpec => []TotalInSHMAddsUp
<1>1. UpToDateInv /\ ShownInSHM /\ TotalsTrack => TotalInSHMAddsUp
  <2> SUFFICES ASSUME UpToDateInv, ShownInSHM, TotalsTrack, NEW s \in Slot,
                      s[1] \in Rack \/ s[2] \in {Input(p) : p \in Phase},
                      BothSleep, DOMAIN powerdevices[s[1]] # {}, Alive(s),
                      \A d \in DOMAIN powerdevices[s[1]] :
                        shm[<<d, s[2]>>].timestamp < LastPull,
                      SumOrNaN([d \in DOMAIN powerdevices[s[1]] |->
                                  shm[<<d, s[2]>>].value]) # NaN
               PROVE  \/ SumOrNaN([d \in DOMAIN powerdevices[s[1]] |->
                                     shm[<<d, s[2]>>].value])
                           - published[s].value \in -Epsilon .. Epsilon
                      \/ now - published[s].time < PullInterval
    BY DEF TotalInSHMAddsUp
  <2> DEFINE measures == powerdevices[s[1]]
             sum == SumOrNaN([d \in DOMAIN measures |-> shm[<<d, s[2]>>].value])
  <2>1. ASSUME NEW d \in DOMAIN measures
        PROVE  measures[d][s[2]] # NoMetric /\ measures[d][s[2]] = shm[<<d, s[2]>>]
    <3>1. measures[d][s[2]] # NoMetric /\ ~ Old(measures[d][s[2]], now)
      BY DEF Alive
    <3>2. UpToDate(<<d, s[2]>>, measures[d][s[2]], LastPull)
      BY <3>1 DEF UpToDateInv, CurrentInv, UnitsAreCurrent, IsCurrent, BothSleep
    <3>3. Covered(<<d, s[2]>>, measures[d][s[2]])
      BY <3>1 DEF UpToDateInv, AllCovered, Slot
    <3>4. shm[<<d, s[2]>>].timestamp \in Nat /\ LastPull \in Int
      <4>1. PICK v \in MetricValues \cup Texts, at \in 0 .. now :
              shm[<<d, s[2]>>] = MetricInfo(v, at, MetricTtl)
        BY <3>3 DEF Covered, UpToDateInv, ServerInv, ThreadsInv
      <4>2. now \in Nat /\ pullAt \in Nat /\ PullInterval \in Nat
        BY ServerAssumption DEF UpToDateInv, ServerInv, TypeOK, PendingInv
      <4> QED
        BY <4>1, <4>2 DEF MetricInfo, LastPull
    <3> QED
      BY <3>1, <3>2, <3>4 DEF UpToDate
  <2>2. sum = SumOrNaN([d \in DOMAIN measures |-> measures[d][s[2]].value])
    <3>1. [d \in DOMAIN measures |-> shm[<<d, s[2]>>].value]
            = [d \in DOMAIN measures |-> measures[d][s[2]].value]
      BY <2>1
    <3> QED
      BY <3>1
  <2>3. Total(measures, s[2]) = sum
    BY <2>1, <2>2, TotalIsSum
  <2>4. HasUnit(s[1]) /\ Tracks(s)
    BY DEF HasUnit, TotalsTrack
  <2>5. QuantityIsKnown(total[s]) /\ sum - total[s].lastValue.value \in -Epsilon .. Epsilon
    BY <2>3, <2>4 DEF Tracks
  <2> QED
    BY <2>5 DEF ShownInSHM
<1> QED
  BY <1>1, CurrentAlways, ShownInSHMHolds, ServerImplements, TotalsTrackHolds, PTL

-----------------------------------------------------------------------------
(* The age of a total.                                                     *)

\* A total is used, and repeated in the SHM, for no longer than its time to
\* live and the time between two polls, which alone forget it (dropOldMetricInfos).
OldTotalsGo ==
  \A s \in Slot :
    QuantityIsKnown(total[s]) =>
      now - total[s].lastValue.timestamp < TTL + 2 * RepeatAfter

\* Whatever is left after a poll was not old then.
IsAged(m) ==
  ValueOf(m) # NaN =>
    /\ ~ Booting
    /\ m.timestamp \in Nat /\ m.timestamp <= now /\ m.ttl = TTL
    /\ IF loop = "poll" THEN now - m.timestamp < TTL + 2 * RepeatAfter
                        ELSE last - m.timestamp <= TTL

AgesInv == \A s \in Slot : IsAged(total[s].lastValue)

LEMMA CalculateAge ==
  ASSUME NEW slot, NEW measures, NEW q, NEW s, NEW failed
  PROVE  LET new == AfterSend(s, Calculate(slot, measures, q, now), failed)
         IN  \/ new.lastValue = slot.lastValue
             \/ \E v : new.lastValue = MetricInfo(v, now, TTL)
<1> DEFINE new == Calculate(slot, measures, q, now)
<1>1. new.lastValue = slot.lastValue \/ \E v : new.lastValue = MetricInfo(v, now, TTL)
  BY DEF Calculate, SetTotal
<1> HIDE DEF new
<1>2. AfterSend(s, new, failed).lastValue = new.lastValue
  BY DEF AfterSend, Advertised
<1> QED
  BY <1>1, <1>2 DEF new

\* What each step does to a total.
LEMMA AgesStep ==
  ASSUME ServerInv, ServerInv', KnownTotalsAreFed, AgesInv, [ServerNext]_serverVars
  PROVE  AgesInv'
<1> USE DEF memory, environment
<1> SUFFICES ASSUME NEW s \in Slot PROVE IsAged(total[s].lastValue)'
  BY DEF AgesInv
<1> DEFINE m == total[s].lastValue
<1>0. /\ now \in Nat /\ last \in Nat /\ last <= now /\ now < UintRange /\ UintRange \in Nat
      /\ TTL \in Nat /\ RepeatAfter \in Nat \ {0} /\ IsAged(m)
      /\ loop = "poll" => last = now
      /\ ~ Booting => now - last < 2 * RepeatAfter
  <2>1. now \in Nat /\ last \in Nat /\ wake \in Nat /\ RepeatAfter \in Nat
    BY UnitAssumption DEF ServerInv, TypeOK, TimerInv
  <2>2. ~ Booting =>
          IF loop = "wait" THEN wake - last < 2 * RepeatAfter /\ now <= wake
                           ELSE now - last < 2 * RepeatAfter
    BY DEF ServerInv, TimerInv
  <2>3. ~ Booting => now - last < 2 * RepeatAfter
    BY <2>1, <2>2
  <2> QED
    BY <2>3, UintRangeAssumption, UnitAssumption
    DEF ServerInv, TypeOK, TimerInv, AgesInv
<1>4. CASE HandOver /\ UNCHANGED vars
  BY <1>0, <1>4 DEF HandOver, server, vars, IsAged, Booting
<1>1. CASE HandOver /\ ~ UNCHANGED vars
  <2>1. PICK item \in batch, failed \in WriteFailures :
          ProcessMetric(item[1][1], item[1][2], item[2], failed)
    BY <1>1 DEF HandOver
  <2> DEFINE d == item[1][1]
             q == item[1][2]
             fresh == [r \in Refreshed(Fed(d, q), q) |->
                         Calculate(total[r], powerdevices'[r[1]], r[2], now)]
  <2>2. SendMeasurements(fresh, failed)
    BY <2>1 DEF ProcessMetric, Refreshed, Slot
  <2>3. total'[s].lastValue = m \/ \E v : total'[s].lastValue = MetricInfo(v, now, TTL)
    BY <2>2, CalculateAge DEF SendMeasurements
  <2>4. now' = now /\ loop' = loop /\ last' = last /\ phase' = "idle" /\ phase = "idle"
    BY <1>1, <2>1 DEF HandOver, ProcessMetric, server
  <2>5. ~ Booting /\ ~ Booting'
    BY <2>4 DEF Booting
  <2>6. CASE total'[s].lastValue = m
    BY <1>0, <2>4, <2>5, <2>6 DEF IsAged
  <2>7. ASSUME NEW v, total'[s].lastValue = MetricInfo(v, now, TTL)
        PROVE  IsAged(total[s].lastValue)'
    BY <1>0, <2>4, <2>5, <2>7 DEF IsAged, MetricInfo
  <2> QED
    BY <2>3, <2>6, <2>7
<1>2. CASE Poll
  <2>1. PICK failed \in WriteFailures : OnPoll(failed)
    BY <1>2 DEF Poll
  <2>2. /\ now' = now /\ last' = last /\ last = now /\ loop = "poll" /\ loop' # "poll"
        /\ phase = "idle" /\ phase' \in {"idle", "pollRacks"}
    BY <1>0, <1>2, <2>1 DEF Poll, OnPoll
  <2>3. ~ Booting /\ ~ Booting'
    BY <2>2 DEF Booting
  <2> DEFINE fresh == [r \in {r \in Slot : HasUnit(r[1])} |-> Polled(r)]
  <2>4. SendMeasurements(fresh, failed)
    BY <2>1 DEF OnPoll
  <2>5. CASE ~ HasUnit(s[1])
    <3>1. ~ QuantityIsKnown(total[s]) /\ total'[s] = total[s]
      BY <2>4, <2>5 DEF SendMeasurements, KnownTotalsAreFed
    <3> QED
      BY <3>1 DEF IsAged, QuantityIsKnown
  <2>6. CASE HasUnit(s[1])
    <3>1. DropOld(total[s], now).lastValue = RemoveOld(m, now)
      BY DEF DropOld
    <3>2. \/ total'[s].lastValue = RemoveOld(m, now)
          \/ \E v : total'[s].lastValue = MetricInfo(v, now, TTL)
      BY <2>4, <2>6, <3>1, CalculateAge DEF SendMeasurements, Polled
    <3>3. ASSUME NEW v, total'[s].lastValue = MetricInfo(v, now, TTL)
          PROVE  IsAged(total[s].lastValue)'
      BY <1>0, <2>2, <2>3, <3>3 DEF IsAged, MetricInfo
    <3>4. CASE total'[s].lastValue = RemoveOld(m, now)
      <4>1. SUFFICES ASSUME ValueOf(total'[s].lastValue) # NaN
                     PROVE  IsAged(total[s].lastValue)'
        BY DEF IsAged
      <4>2. total'[s].lastValue = m /\ ValueOf(m) # NaN /\ ~ Old(m, now) /\ m # NoMetric
        BY <3>4, <4>1 DEF RemoveOld, ValueOf
      <4>3. m.timestamp \in Nat /\ m.timestamp <= now /\ m.ttl = TTL
        BY <1>0, <4>2 DEF IsAged
      <4>4. USub(now, m.timestamp) = now - m.timestamp
        <5> HIDE DEF m
        <5>1. now - m.timestamp \in Nat /\ now - m.timestamp < UintRange
          BY <1>0, <4>3
        <5> QED
          BY <1>0, <4>3, <5>1 DEF USub
      <4>5. now - m.timestamp <= TTL
        BY <1>0, <4>2, <4>3, <4>4 DEF Old
      <4> QED
        BY <1>0, <2>2, <2>3, <4>2, <4>3, <4>5 DEF IsAged
    <3> QED
      BY <3>2, <3>3, <3>4
  <2> QED
    BY <2>5, <2>6
\* All other steps keep a total or forget it.
<1>3. CASE Quiet
  <2>1. CASE total' = NoTotals
    <3>1. ~ QuantityIsKnown(total[s])'
      BY <2>1, NoTotalIsKnown
    <3> QED
      BY <3>1 DEF IsAged, QuantityIsKnown
  <2>2. CASE total' = total /\ ~ Booting /\ ~ Wake
    <3>1. loop' = "poll" => loop = "poll"
      BY <1>3, <2>2 DEF Quiet, Boot, Sleep, Reload, Handle, Pull, EndPull, Report,
                        AssetAgent, TimePasses, serverVars, server
    <3>2. last' = last /\ now <= now' /\ ~ Booting'
      BY <1>0, <1>3, <2>2
      DEF Quiet, Boot, Sleep, Reload, Configure, ConfigureRacks, ConfigureDCs, ConfigureThrows, Return,
          Handle, ProcessAsset, Pull, EndPull, SetPollInterval, Report, AssetAgent,
          DBChange, OtherAsset, TimePasses, Tick, serverVars, server, vars, Booting
    <3>3. loop = "poll" => loop' = "poll" /\ now' = now
      BY <1>3, <2>2
      DEF Quiet, Boot, Sleep, Reload, Configure, ConfigureRacks, ConfigureDCs, ConfigureThrows,
          Handle, Pull, EndPull, SetPollInterval, Report, AssetAgent, DBChange, OtherAsset,
          TimePasses, BothSleep, serverVars, server, vars, ServerInv, ThreadsInv
    <3>4. now' \in Nat
      BY DEF ServerInv, TypeOK
    <3> QED
      BY <1>0, <2>2, <3>1, <3>2, <3>3, <3>4 DEF IsAged
  <2>3. CASE Wake
    <3>1. /\ now' = now /\ total' = total /\ phase' = phase /\ phase = "idle"
          /\ loop = "wait"
          /\ loop' = "poll" \/ (loop' # "poll" /\ last' = last)
      BY <2>3 DEF Wake, Wakes, vars
    <3>2. ~ Booting /\ ~ Booting'
      BY <3>1 DEF Booting
    <3> QED
      BY <1>0, <3>1, <3>2 DEF IsAged
  <2>4. CASE total' = total /\ Booting
    <3>1. ValueOf(m) = NaN
      BY <1>0, <2>4 DEF IsAged
    <3> QED
      BY <2>4, <3>1 DEF IsAged
  <2> QED
    BY <1>3, <2>1, <2>2, <2>3, <2>4, QuietTotals
<1> QED
  BY <1>1, <1>2, <1>3, <1>4 DEF ServerNext, Quiet

\* A total that nobody feeds any more is gone after its time to live and two
\* repeat intervals, whether or not writes fail.
THEOREM OldTotalsGoHolds == ServerSpec => []OldTotalsGo
<1>1. ServerInit => AgesInv
  BY DEF ServerInit, Init, NoTotals, NewSlot, AgesInv, IsAged, ValueOf
<1>2. ServerInv /\ ServerInv' /\ KnownTotalsAreFed /\ AgesInv /\ [ServerNext]_serverVars
        => AgesInv'
  BY AgesStep
<1>3. ServerInv /\ AgesInv => OldTotalsGo
  <2> SUFFICES ASSUME ServerInv, AgesInv, NEW s \in Slot, QuantityIsKnown(total[s])
               PROVE  now - total[s].lastValue.timestamp < TTL + 2 * RepeatAfter
    BY DEF OldTotalsGo
  <2> DEFINE m == total[s].lastValue
  <2>1. IsAged(m) /\ ~ Booting /\ m.timestamp \in Nat
    BY DEF AgesInv, IsAged, QuantityIsKnown
  <2>2. /\ now \in Nat /\ last \in Nat /\ wake \in Nat /\ RepeatAfter \in Nat /\ TTL \in Nat
        /\ IF loop = "wait" THEN wake - last < 2 * RepeatAfter /\ now <= wake
                            ELSE now - last < 2 * RepeatAfter
    BY <2>1, UnitAssumption DEF ServerInv, TypeOK, TimerInv
  <2>3. loop # "poll" => last - m.timestamp <= TTL
    BY <2>1 DEF IsAged, QuantityIsKnown
  <2>4. loop = "poll" => now - m.timestamp < TTL + 2 * RepeatAfter
    BY <2>1 DEF IsAged, QuantityIsKnown
  <2> HIDE DEF m
  <2>5. now - m.timestamp < TTL + 2 * RepeatAfter
    BY <2>1, <2>2, <2>3, <2>4
  <2> QED
    BY <2>5 DEF m
<1>4. ServerSpec => []KnownTotalsAreFed
  BY ServerImplements, KnownTotalsAreFedHolds, PTL
<1> QED
  BY <1>1, <1>2, <1>3, <1>4, ServerInvInit, ServerInvStep, PTL DEF ServerSpec

=============================================================================
