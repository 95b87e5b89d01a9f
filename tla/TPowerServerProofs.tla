-------------------------- MODULE TPowerServerProofs --------------------------
(***************************************************************************)
(* Theorems about TPowerServer, for any topology, metrics and failures,    *)
(* and any durations that keep the assumptions.                            *)
(***************************************************************************)
EXTENDS TPowerServer, TotalPowerProofs

-----------------------------------------------------------------------------
(* The inductive invariant.                                                *)

IsReading(m) ==
  \E v \in MetricValues \cup Texts, age \in 0 .. MetricTtl :
    now - age >= 0 /\ m = MetricInfo(v, now - age, MetricTtl)

\* The two threads and what they hand over: the metrics of a batch are no
\* older than the ones the configuration is made for.
ThreadsInv ==
  /\ loop \in {"top", "wait", "poll", "handle"}
  /\ phase # "idle" => loop \in {"top", "handle"}
  /\ Booting => loop = "top"
  /\ ~ pulling => batch = {}
  /\ \A item \in batch : item[1] \in Topic /\ IsReading(item[2])
  /\ \A t \in Topic :
       \/ shm[t] = NoMetric
       \/ \E v \in MetricValues \cup Texts, at \in 0 .. now :
            shm[t] = MetricInfo(v, at, MetricTtl)

\* When the server polled last and when it wakes next.  The server is awake
\* for more than an instant only in "wait", and it gets there less than a
\* repeat interval after a poll.
TimerInv ==
  /\ last \in Nat /\ wake \in Nat
  /\ last <= now /\ now < UintRange
  /\ timeout <= RepeatAfter
  /\ loop = "poll" => last = now
  /\ Booting => timeout = PollingInterval /\ reconfigPending = 0
  /\ ~ Booting =>
       IF loop = "wait" THEN wake - last < 2 * RepeatAfter /\ now <= wake
                        ELSE now - last < 2 * RepeatAfter
  /\ ~ Booting /\ loop \in {"top", "handle"} => now - last < RepeatAfter

\* A reload that is pending was still ahead when the server polled last, and
\* the poll interval counts down to it, from the last poll or the last pull.
PendingInv ==
  /\ pullAt \in Nat
  /\ ~ Booting => LastPull <= now /\ now <= pullAt
  /\ reconfigPending # 0 => now <= reconfigPending + 1 + PullInterval
  /\ reconfigPending # 0 /\ phase = "idle" =>
       /\ loop # "poll" => /\ last <= reconfigPending
                           /\ timeout <= reconfigPending - last + 1
                           /\ timeout = 1 \/ timeout <= reconfigPending - LastPull + 1
       /\ loop \in {"top", "handle"} => now <= reconfigPending
       /\ loop = "wait" => wake <= reconfigPending + 1 + PullInterval

\* Whatever is left after a poll was not old then.
MeasuresInv ==
  \A o \in Owner : \A d \in DOMAIN powerdevices[o], q \in Quantity :
    LET m == powerdevices[o][d][q]
    IN  m # NoMetric =>
          /\ ~ Booting
          /\ m.timestamp <= now
          /\ IF loop = "poll" THEN now - m.timestamp < m.ttl + 2 * RepeatAfter
                              ELSE last - m.timestamp <= m.ttl

ServerInv == TypeOK /\ ThreadsInv /\ TimerInv /\ PendingInv /\ MeasuresInv

-----------------------------------------------------------------------------
(* The server makes no other calls than TotalPowerConfiguration allows.    *)

\* A metric of the batch is ignored, or handed over as a number.
LEMMA HandOverMetric ==
  ASSUME ThreadsInv, HandOver
  PROVE  \/ UNCHANGED vars
         \/ \E item \in batch, failed \in WriteFailures :
              /\ item[1][1] \in Device /\ item[1][2] \in MetricQuantities
              /\ \E v \in MetricValues, age \in 0 .. MetricTtl :
                   now - age >= 0 /\ item[2] = MetricInfo(v, now - age, MetricTtl)
              /\ ProcessMetric(item[1][1], item[1][2], item[2], failed)
<1>1. PICK item \in batch :
        IF item[2].value \in Texts THEN UNCHANGED vars
        ELSE \E failed \in WriteFailures :
               ProcessMetric(item[1][1], item[1][2], item[2], failed)
  BY DEF HandOver
<1>2. item[1][1] \in Device /\ item[1][2] \in MetricQuantities
  BY DEF ThreadsInv, Topic
<1>3. PICK v \in MetricValues \cup Texts, age \in 0 .. MetricTtl :
        now - age >= 0 /\ item[2] = MetricInfo(v, now - age, MetricTtl)
  BY DEF ThreadsInv, IsReading
<1>4. item[2].value = v
  BY <1>3 DEF MetricInfo
<1> QED
  BY <1>1, <1>2, <1>3, <1>4

LEMMA ServerStep == ThreadsInv /\ [ServerNext]_serverVars => [Next]_vars
<1> SUFFICES ASSUME ThreadsInv, [ServerNext]_serverVars PROVE [Next]_vars
  OBVIOUS
<1>1. {} \in LostReads /\ {} \in WriteFailures
  BY ConfigurationAssumption
<1>2. CASE Boot
  BY <1>1, <1>2 DEF Boot, Next
<1>3. CASE Poll
  BY <1>3 DEF Poll, Next
<1>4. CASE Reload
  BY <1>1, <1>4 DEF Reload, Next
<1>5. CASE Handle
  BY <1>5 DEF Handle, Next
<1>6. CASE HandOver
  <2>1. CASE UNCHANGED vars
    BY <2>1
  <2>2. ASSUME NEW item \in batch, NEW failed \in WriteFailures,
               item[1][1] \in Device, item[1][2] \in MetricQuantities,
               NEW v \in MetricValues, NEW age \in 0 .. MetricTtl,
               now - age >= 0, item[2] = MetricInfo(v, now - age, MetricTtl),
               ProcessMetric(item[1][1], item[1][2], item[2], failed)
        PROVE  Next
    <3>1. age \in MetricAges
      BY ServerAssumption
    <3>2. ProcessMetric(item[1][1], item[1][2], MetricInfo(v, now - age, MetricTtl), failed)
      BY <2>2
    <3>3. ReceiveMetric
      BY <2>2, <3>1, <3>2 DEF ReceiveMetric
    <3> QED
      BY <3>3 DEF Next
  <2> QED
    BY <1>6, <2>1, <2>2, HandOverMetric
<1>7. CASE EndPull
  BY <1>7 DEF EndPull, Next
<1>8. CASE AssetAgent
  BY <1>8 DEF AssetAgent, Next
<1>9. CASE TimePasses
  BY <1>9 DEF TimePasses, Next
<1>10. CASE Sleep \/ Wake \/ Pull \/ Report \/ UNCHANGED serverVars
  BY <1>10 DEF Sleep, Wake, Pull, Report, serverVars
<1> QED
  BY <1>2, <1>3, <1>4, <1>5, <1>6, <1>7, <1>8, <1>9, <1>10 DEF ServerNext

-----------------------------------------------------------------------------
(* The threads.                                                            *)

LEMMA ServerInvInit == ServerInit => ServerInv
<1> SUFFICES ASSUME ServerInit PROVE ServerInv
  OBVIOUS
<1>1. TypeOK
  BY TypeInit DEF ServerInit
<1>2. now = 1 /\ phase = "down" /\ reconfigPending = 0 /\ timeout = PollingInterval
  BY DEF ServerInit, Init
<1>3. ThreadsInv
  BY <1>2 DEF ServerInit, ThreadsInv, Booting
<1>4. TimerInv
  BY <1>2, UintRangeAssumption, UnitAssumption, ServerAssumption,
     ConfigurationAssumption
  DEF ServerInit, TimerInv, Booting
<1>5. PendingInv
  BY <1>2 DEF ServerInit, PendingInv, Booting
<1>6. MeasuresInv
  <2>1. \A o \in Owner : DOMAIN powerdevices[o] = {}
    BY DEF ServerInit, Init, Unit
  <2> QED
    BY <2>1 DEF MeasuresInv
<1> QED
  BY <1>1, <1>3, <1>4, <1>5, <1>6 DEF ServerInv

\* While a reading is being handed over no time passes, so it does not get old.
LEMMA ReadingStays ==
  ASSUME now' = now, NEW m, IsReading(m)
  PROVE  IsReading(m)'
BY DEF IsReading

\* What the puller reads has not been measured after now, and is not old.
LEMMA ReadableIsReading ==
  ASSUME TypeOK, ThreadsInv, TimerInv, NEW t \in Readable
  PROVE  IsReading(shm[t])
<1>1. t \in Topic /\ shm[t] # NoMetric /\ ~ Old(shm[t], now)
  BY DEF Readable
<1>2. PICK v \in MetricValues \cup Texts, at \in 0 .. now : shm[t] = MetricInfo(v, at, MetricTtl)
  BY <1>1 DEF ThreadsInv
<1>3. now \in Nat /\ MetricTtl \in Nat
  BY ConfigurationAssumption DEF TypeOK
<1>4. shm[t].timestamp = at /\ shm[t].ttl = MetricTtl
  BY <1>2 DEF MetricInfo
<1>5. USub(now, at) <= MetricTtl
  BY <1>1, <1>3, <1>4, UintRangeAssumption DEF Old, USub
<1>6. USub(now, at) = now - at
  BY <1>3, UintRangeAssumption DEF USub, TimerInv
<1>7. now - at \in 0 .. MetricTtl /\ now - (now - at) = at
  BY <1>3, <1>5, <1>6
<1> QED
  BY <1>2, <1>3, <1>7 DEF IsReading

LEMMA ThreadsStep ==
  ASSUME TypeOK, ThreadsInv, TimerInv, [ServerNext]_serverVars
  PROVE  ThreadsInv'
<1> USE DEF memory, environment
<1>0. now \in Nat
  BY DEF TypeOK
<1>a. ASSUME now' = now, batch' \subseteq batch, shm' = shm
      PROVE  /\ \A item \in batch' : item[1] \in Topic /\ IsReading(item[2])'
             /\ \A t \in Topic :
                  \/ shm'[t] = NoMetric
                  \/ \E v \in MetricValues \cup Texts, at \in 0 .. now' :
                       shm'[t] = MetricInfo(v, at, MetricTtl)
  BY <1>a, ReadingStays DEF ThreadsInv
<1>1. CASE Boot
  <2>1. now' = now /\ batch' = batch /\ shm' = shm /\ loop' = loop /\ pulling' = pulling
    BY <1>1 DEF Boot, Start, Configure, ConfigureRacks, ConfigureDCs, ConfigureThrows
  <2> QED
    BY <1>1, <1>a, <2>1 DEF Boot, ThreadsInv
<1>2. CASE Sleep
  <2>1. now' = now /\ batch' = batch /\ shm' = shm /\ phase' = phase /\ pulling' = pulling
    BY <1>2 DEF Sleep, vars, puller
  <2> QED
    BY <1>2, <1>a, <2>1 DEF Sleep, ThreadsInv, Booting
<1>3. CASE Wake
  <2>1. now' = now /\ batch' = batch /\ shm' = shm /\ phase' = phase /\ pulling' = pulling
    BY <1>3 DEF Wake, vars, puller
  <2>2. loop' \in {"top", "poll", "handle"}
    BY <1>3 DEF Wake
  <2> QED
    BY <1>3, <1>a, <2>1, <2>2 DEF Wake, ThreadsInv, Booting
<1>4. CASE Poll
  <2>1. /\ now' = now /\ batch' = batch /\ shm' = shm /\ pulling' = pulling
        /\ phase' \in {"pollRacks", "idle"} /\ loop' \in {"top", "handle"}
    BY <1>4 DEF Poll, OnPoll, puller
  <2> QED
    BY <1>a, <2>1 DEF ThreadsInv, Booting
<1>5. CASE Reload
  <2>1. /\ now' = now /\ batch' = batch /\ shm' = shm /\ pulling' = pulling /\ loop' = loop
        /\ phase' \in {"pollDCs", "idle"} /\ phase # "idle"
    BY <1>5 DEF Reload, Configure, ConfigureRacks, ConfigureDCs, ConfigureThrows, Return,
                puller, server
  <2> QED
    BY <1>a, <2>1 DEF ThreadsInv, Booting
<1>6. CASE Handle
  <2>1. /\ now' = now /\ batch' = batch /\ shm' = shm /\ pulling' = pulling
        /\ phase' = "idle" /\ loop' = "top"
    BY <1>6 DEF Handle, ProcessAsset, puller
  <2> QED
    BY <1>a, <2>1 DEF ThreadsInv, Booting
<1>7. CASE Pull
  <2>1. now' = now /\ shm' = shm /\ phase' = phase /\ loop' = loop /\ pulling' = TRUE
    BY <1>7 DEF Pull, vars, server
  <2>2. \A item \in batch' : item[1] \in Topic /\ IsReading(item[2])'
    <3>1. SUFFICES ASSUME NEW t \in Readable
                   PROVE  t \in Topic /\ IsReading(shm[t])'
      BY <1>7 DEF Pull
    <3>2. IsReading(shm[t])
      BY ReadableIsReading
    <3>3. IsReading(shm[t])'
      BY <2>1, <3>2 DEF IsReading
    <3> QED
      BY <3>3 DEF Readable
  <2> QED
    BY <1>a, <2>1, <2>2 DEF ThreadsInv, Booting
<1>8. CASE HandOver
  <2>1. /\ now' = now /\ batch' \subseteq batch /\ shm' = shm /\ pulling' = pulling
        /\ phase' = phase /\ loop' = loop /\ pulling
    BY <1>8 DEF HandOver, ProcessMetric, server, vars
  <2> QED
    BY <1>a, <2>1 DEF ThreadsInv, Booting
<1>9. CASE EndPull
  <2>1. /\ now' = now /\ batch' = {} /\ batch = {} /\ shm' = shm
        /\ phase' = phase /\ loop' = loop
    BY <1>9 DEF EndPull, SetPollInterval, server
  <2> QED
    BY <1>a, <2>1 DEF ThreadsInv, Booting
<1>10. CASE Report
  <2>1. PICK t \in Topic, v \in MetricValues \cup Texts :
          /\ shm' = [shm EXCEPT ![t] = MetricInfo(v, now, MetricTtl)]
          /\ UNCHANGED <<vars, server, puller>>
    BY <1>10 DEF Report
  <2>2. /\ now' = now /\ batch' = batch /\ phase' = phase /\ loop' = loop
        /\ pulling' = pulling
    BY <2>1 DEF vars, server, puller
  <2>3. \A u \in Topic : shm'[u] \in {shm[u], MetricInfo(v, now, MetricTtl)}
    BY <2>1
  <2>4. \A item \in batch' : item[1] \in Topic /\ IsReading(item[2])'
    BY <2>2, ReadingStays DEF ThreadsInv
  <2> QED
    BY <1>0, <2>2, <2>3, <2>4 DEF ThreadsInv, Booting
<1>11. CASE AssetAgent
  <2>1. /\ now' = now /\ batch' = batch /\ shm' = shm /\ pulling' = pulling
        /\ phase' = phase /\ loop' = loop
    BY <1>11 DEF AssetAgent, DBChange, OtherAsset, server, puller
  <2> QED
    BY <1>a, <2>1 DEF ThreadsInv, Booting
<1>12. CASE TimePasses
  <2>1. /\ now' = now + 1 /\ batch = {} /\ batch' = {} /\ shm' = shm
        /\ pulling' = pulling /\ phase' = phase /\ loop' = loop
    BY <1>12 DEF TimePasses, BothSleep, Tick, server, puller, ThreadsInv
  <2> QED
    BY <1>0, <2>1 DEF ThreadsInv, Booting
<1>13. CASE UNCHANGED serverVars
  <2>1. /\ now' = now /\ batch' = batch /\ shm' = shm /\ pulling' = pulling
        /\ phase' = phase /\ loop' = loop
    BY <1>13 DEF serverVars, vars, server, puller
  <2> QED
    BY <1>a, <2>1 DEF ThreadsInv, Booting
<1> QED
  BY <1>1, <1>2, <1>3, <1>4, <1>5, <1>6, <1>7, <1>8, <1>9, <1>10, <1>11,
     <1>12, <1>13 DEF ServerNext

-----------------------------------------------------------------------------
(* The timers.                                                             *)

LEMMA GetPollIntervalBounds ==
  ASSUME NEW slots, Slots(slots), NEW pending \in Nat, now \in Nat
  PROVE  LET interval == GetPollInterval(slots, pending)
         IN  /\ interval \in Nat \ {0}
             /\ interval <= RepeatAfter
             /\ pending # 0 => interval = 1 \/ interval <= pending - now + 1
             /\ pending # 0 /\ now <= pending => interval <= pending - now + 1
<1> DEFINE interval == GetPollInterval(slots, pending)
           wait == IF pending - now + 1 <= 0 THEN 1 ELSE pending - now + 1
<1>1. interval \in Nat \ {0}
  BY GetPollIntervalLeast
<1>2. RepeatAfter \in Waits(slots, pending)
  BY DEF Waits
<1>3. interval <= RepeatAfter
  BY <1>2, GetPollIntervalLeast
<1>4. ASSUME pending # 0 PROVE interval <= wait
  <2>1. wait \in Waits(slots, pending)
    BY <1>4 DEF Waits
  <2> HIDE DEF wait
  <2> QED
    BY <2>1, GetPollIntervalLeast
<1> HIDE DEF interval
<1> QED
  BY <1>1, <1>3, <1>4 DEF interval

LEMMA TimerStep ==
  ASSUME TypeOK, TypeOK', ThreadsInv, TimerInv, [ServerNext]_serverVars
  PROVE  TimerInv'
<1> USE DEF memory, environment
<1>0. /\ now \in Nat /\ RepeatAfter \in Nat \ {0} /\ Slots(total) /\ Slots(total')
      /\ reconfigPending \in Nat /\ reconfigPending' \in Nat
      /\ timeout \in Nat \ {0}
  BY UnitAssumption DEF TypeOK, Slots
<1>a. /\ \A pending \in Nat : GetPollInterval(total, pending) <= RepeatAfter
      /\ \A pending \in Nat : GetPollInterval(total', pending) <= RepeatAfter
  BY <1>0, GetPollIntervalBounds
<1>1. CASE Boot
  <2>1. /\ now' = now /\ last' = now /\ loop' = loop /\ wake' = wake /\ timeout' = timeout
        /\ loop = "top" /\ timeout <= RepeatAfter
        /\ phase' \in {"bootRacks", "bootDCs"} => reconfigPending' = reconfigPending
        /\ phase' # "down"
    BY <1>1 DEF Boot, Start, Configure, ConfigureRacks, ConfigureDCs, ConfigureThrows, Return,
                Booting, ThreadsInv, TimerInv
  <2> QED
    BY <1>0, <1>1, <2>1 DEF TimerInv, Boot, Booting
<1>2. CASE Sleep
  <2>1. /\ now' = now /\ last' = last /\ loop = "top" /\ loop' = "wait"
        /\ wake' = now + timeout /\ timeout' = timeout /\ phase' = phase
        /\ phase = "idle" /\ reconfigPending' = reconfigPending
    BY <1>2 DEF Sleep, vars
  <2> QED
    BY <1>0, <2>1 DEF TimerInv, Booting
<1>3. CASE Wake
  <2>1. /\ now' = now /\ loop = "wait" /\ wake' = wake /\ timeout' = timeout
        /\ phase' = phase /\ phase = "idle" /\ reconfigPending' = reconfigPending
        /\ \/ now - last >= timeout /\ loop' = "poll" /\ last' = now
           \/ ~ (now - last >= timeout) /\ loop' \in {"top", "handle"} /\ last' = last
    BY <1>3 DEF Wake, Wakes, vars
  <2> QED
    BY <1>0, <2>1 DEF TimerInv, Booting
<1>4. CASE Poll
  <2>1. /\ now' = now /\ last' = last /\ wake' = wake /\ loop = "poll"
        /\ loop' \in {"top", "handle"} /\ phase = "idle"
        /\ phase' \in {"pollRacks", "idle"}
        /\ timeout' = timeout \/ timeout' = GetPollInterval(total', reconfigPending)
    BY <1>4 DEF Poll, OnPoll
  <2> QED
    BY <1>0, <1>a, <2>1 DEF TimerInv, Booting
<1>5. CASE Reload
  <2>1. /\ now' = now /\ last' = last /\ wake' = wake /\ loop' = loop
        /\ phase \in {"pollRacks", "pollDCs"} /\ phase' \in {"pollDCs", "idle"}
        /\ \/ timeout' = timeout
           \/ timeout' = GetPollInterval(total', reconfigPending')
    BY <1>5 DEF Reload, Configure, ConfigureRacks, ConfigureDCs, ConfigureThrows, Return, server
  <2> QED
    BY <1>0, <1>a, <2>1 DEF TimerInv, Booting
<1>6. CASE Handle
  <2>1. /\ now' = now /\ last' = last /\ wake' = wake /\ loop = "handle" /\ loop' = "top"
        /\ phase = "idle" /\ phase' = "idle"
        /\ \/ timeout' = timeout
           \/ timeout' = GetPollInterval(total, reconfigPending')
    BY <1>6 DEF Handle, ProcessAsset
  <2> QED
    BY <1>0, <1>a, <2>1 DEF TimerInv, Booting
<1>7. CASE EndPull
  <2>1. /\ now' = now /\ last' = last /\ wake' = wake /\ loop' = loop
        /\ phase = "idle" /\ phase' = "idle"
        /\ timeout' = GetPollInterval(total, reconfigPending)
    BY <1>7 DEF EndPull, SetPollInterval, server
  <2> QED
    BY <1>0, <1>a, <2>1 DEF TimerInv, Booting
<1>8. CASE TimePasses
  <2>1. /\ now' = now + 1 /\ now' <= MaxNow /\ last' = last /\ wake' = wake
        /\ loop = "wait" /\ loop' = "wait" /\ now < wake
        /\ phase = "idle" /\ phase' = "idle" /\ timeout' = timeout
    BY <1>0, <1>8, ConfigurationAssumption
    DEF TimePasses, BothSleep, Wakes, Tick, server, TimerInv
  <2> QED
    BY <1>0, <2>1, UintRangeAssumption, ServerAssumption, ConfigurationAssumption
    DEF TimerInv, Booting
<1>9. CASE Pull \/ HandOver \/ Report \/ AssetAgent \/ UNCHANGED serverVars
  <2>1. /\ now' = now /\ last' = last /\ wake' = wake /\ loop' = loop
        /\ phase' = phase /\ timeout' = timeout /\ reconfigPending' = reconfigPending
    BY <1>9 DEF Pull, HandOver, ProcessMetric, Report, AssetAgent, DBChange,
                OtherAsset, serverVars, vars, server
  <2> QED
    BY <1>0, <2>1 DEF TimerInv, Booting
<1> QED
  BY <1>1, <1>2, <1>3, <1>4, <1>5, <1>6, <1>7, <1>8, <1>9 DEF ServerNext

LEMMA PendingStep ==
  ASSUME TypeOK, TypeOK', ThreadsInv, TimerInv, PendingInv, [ServerNext]_serverVars
  PROVE  PendingInv'
<1> USE DEF memory, environment, LastPull
<1>0. /\ now \in Nat /\ last \in Nat /\ wake \in Nat /\ last <= now
      /\ Slots(total) /\ Slots(total')
      /\ reconfigPending \in Nat /\ reconfigPending' \in Nat
      /\ timeout \in Nat \ {0}
      /\ PullInterval \in Nat \ {0} /\ ReconfigDelay \in Nat \ {0}
      /\ PollingInterval \in Nat \ {0} /\ PollingInterval <= ReconfigDelay
  BY ServerAssumption, ConfigurationAssumption DEF TypeOK, Slots, TimerInv
<1>a. ASSUME NEW slots \in {total, total'}, NEW pending \in Nat \ {0}
      PROVE  LET interval == GetPollInterval(slots, pending)
             IN  /\ interval \in Nat \ {0}
                 /\ interval = 1 \/ interval <= pending - now + 1
                 /\ now <= pending => interval <= pending - now + 1
  BY <1>0, GetPollIntervalBounds
<1>1. CASE Boot
  <2>1. /\ now' = now /\ last' = now /\ loop = "top" /\ loop' = "top"
        /\ timeout' = PollingInterval /\ pullAt' = now + PullInterval
        /\ reconfigPending' \in {0, now + ReconfigDelay}
    BY <1>1 DEF Boot, Start, Configure, ConfigureRacks, ConfigureDCs, ConfigureThrows, Return,
                Booting, ThreadsInv, TimerInv
  <2>2. pullAt' \in Nat /\ LastPull' = now
    BY <1>0, <2>1
  <2>3. CASE reconfigPending' = 0
    BY <1>0, <2>1, <2>2, <2>3 DEF PendingInv
  <2>4. CASE reconfigPending' = now + ReconfigDelay
    BY <1>0, <2>1, <2>2, <2>4 DEF PendingInv
  <2> QED
    BY <2>1, <2>3, <2>4
<1>2. CASE Sleep
  <2>1. /\ now' = now /\ last' = last /\ loop = "top" /\ loop' = "wait"
        /\ wake' = now + timeout /\ timeout' = timeout /\ pullAt' = pullAt
        /\ phase = "idle" /\ phase' = "idle" /\ reconfigPending' = reconfigPending
    BY <1>2 DEF Sleep, vars, puller
  <2> QED
    BY <1>0, <2>1 DEF PendingInv, Booting
<1>3. CASE Wake
  <2>1. /\ now' = now /\ loop = "wait" /\ timeout' = timeout /\ pullAt' = pullAt
        /\ phase = "idle" /\ phase' = "idle" /\ reconfigPending' = reconfigPending
        /\ \/ loop' = "poll"
           \/ ~ (now - last >= timeout) /\ loop' \in {"top", "handle"} /\ last' = last
    BY <1>3 DEF Wake, Wakes, vars, puller
  <2> QED
    BY <1>0, <2>1 DEF PendingInv, Booting
<1>4. CASE Poll
  <2>1. /\ now' = now /\ last' = last /\ last = now /\ pullAt' = pullAt
        /\ phase = "idle" /\ reconfigPending' = reconfigPending
        /\ loop' \in {"top", "handle"}
        /\ \/ phase' = "pollRacks"
           \/ /\ phase' = "idle" /\ ~ ReloadIsDue
              /\ timeout' = GetPollInterval(total', reconfigPending)
    BY <1>4 DEF Poll, OnPoll, puller, TimerInv
  <2>2. CASE phase' = "pollRacks"
    BY <1>0, <2>1, <2>2 DEF PendingInv, Booting
  <2>3. CASE phase' # "pollRacks" /\ reconfigPending # 0
    <3>1. now <= reconfigPending
      BY <1>0, <2>1, <2>3 DEF ReloadIsDue
    <3>2. /\ timeout' \in Nat \ {0}
          /\ timeout' <= reconfigPending - now + 1
      BY <1>a, <2>1, <2>3, <3>1, <1>0
    <3> QED
      BY <1>0, <2>1, <3>1, <3>2 DEF PendingInv, Booting
  <2> QED
    BY <1>0, <2>1, <2>2, <2>3 DEF PendingInv, Booting
<1>5. CASE Reload
  <2>1. /\ now' = now /\ last' = last /\ pullAt' = pullAt /\ loop' = loop
        /\ loop \in {"top", "handle"} /\ phase # "idle" /\ ~ Booting
        /\ \/ phase' = "pollDCs" /\ reconfigPending' = reconfigPending
           \/ /\ phase' = "idle" /\ reconfigPending' \in {0, now + ReconfigDelay}
              /\ timeout' = GetPollInterval(total', reconfigPending')
    BY <1>5 DEF Reload, Configure, ConfigureRacks, ConfigureDCs, ConfigureThrows, Return,
                server, puller, ThreadsInv, Booting
  <2>2. CASE reconfigPending' = now + ReconfigDelay /\ phase' = "idle"
    <3>1. /\ timeout' \in Nat \ {0}
          /\ timeout' <= reconfigPending' - now + 1
      BY <1>a, <2>1, <2>2, <1>0
    <3> QED
      BY <1>0, <2>1, <2>2, <3>1 DEF PendingInv, Booting
  <2> QED
    BY <1>0, <2>1, <2>2 DEF PendingInv, Booting
<1>6. CASE Handle
  <2>1. /\ now' = now /\ last' = last /\ pullAt' = pullAt
        /\ loop = "handle" /\ loop' = "top" /\ phase = "idle" /\ phase' = "idle"
        /\ \/ reconfigPending' = reconfigPending /\ timeout' = timeout
           \/ /\ reconfigPending' = Schedule
              /\ timeout' = GetPollInterval(total, Schedule)
    BY <1>6 DEF Handle, ProcessAsset, puller
  <2>2. CASE reconfigPending' = Schedule /\ timeout' = GetPollInterval(total, Schedule)
    <3>1. PICK pending \in Nat \ {0} : pending = Schedule
      BY <1>0 DEF Schedule
    <3>2. now <= pending
      BY <1>0, <2>1, <3>1 DEF Schedule, PendingInv
    <3>3. PICK interval \in Nat \ {0} : interval = GetPollInterval(total, pending)
      BY <1>a
    <3>4. interval <= pending - now + 1
      BY <1>a, <3>2, <3>3
    <3>5. LastPull <= now /\ now <= pullAt /\ pullAt \in Nat
      BY <2>1 DEF PendingInv, Booting
    <3>6. /\ last <= pending
          /\ interval <= pending - last + 1
          /\ interval <= pending - LastPull + 1
          /\ now <= pending + 1 + PullInterval
      BY <1>0, <3>2, <3>4, <3>5
    <3>7. reconfigPending' = pending /\ timeout' = interval /\ LastPull' = LastPull
      BY <2>1, <2>2, <3>1, <3>3
    <3> HIDE DEF LastPull
    <3> QED
      BY <2>1, <3>2, <3>5, <3>6, <3>7 DEF PendingInv
  <2> QED
    BY <1>0, <2>1, <2>2 DEF PendingInv, Booting
<1>7. CASE EndPull
  <2>1. /\ now' = now /\ last' = last /\ pullAt' = now + PullInterval /\ loop' = loop
        /\ wake' = wake /\ phase = "idle" /\ phase' = "idle"
        /\ reconfigPending' = reconfigPending
        /\ timeout' = GetPollInterval(total, reconfigPending)
    BY <1>7 DEF EndPull, SetPollInterval, server
  <2>2. CASE reconfigPending # 0
    <3>1. /\ timeout' \in Nat \ {0}
          /\ timeout' = 1 \/ timeout' <= reconfigPending - now + 1
      BY <1>a, <2>1, <2>2, <1>0
    <3>2. pullAt' \in Nat /\ LastPull' = now
      BY <1>0, <2>1
    <3>3. loop # "poll" => timeout' <= reconfigPending - last + 1
      BY <1>0, <2>1, <2>2, <3>1 DEF PendingInv
    <3>4. LastPull' <= now' /\ now' <= pullAt'
      BY <1>0, <2>1, <3>2
    <3>5. ~ Booting
      BY <2>1 DEF Booting
    <3>6. timeout' = 1 \/ timeout' <= reconfigPending' - LastPull' + 1
      BY <2>1, <3>1, <3>2
    <3> HIDE DEF LastPull
    <3> QED
      BY <1>0, <2>1, <2>2, <3>2, <3>3, <3>4, <3>5, <3>6 DEF PendingInv
  <2> QED
    BY <1>0, <2>1, <2>2 DEF PendingInv, Booting
<1>8. CASE TimePasses
  <2>1. /\ now' = now + 1 /\ last' = last /\ wake' = wake /\ pullAt' = pullAt
        /\ loop = "wait" /\ loop' = "wait" /\ now < wake /\ now < pullAt
        /\ phase = "idle" /\ phase' = "idle" /\ timeout' = timeout
        /\ reconfigPending' = reconfigPending
    BY <1>0, <1>8 DEF TimePasses, BothSleep, Wakes, Tick, server, puller, PendingInv
  <2> QED
    BY <1>0, <2>1 DEF PendingInv, Booting
<1>9. CASE Pull \/ HandOver \/ Report \/ AssetAgent \/ UNCHANGED serverVars
  <2>1. /\ now' = now /\ last' = last /\ wake' = wake /\ pullAt' = pullAt /\ loop' = loop
        /\ phase' = phase /\ timeout' = timeout /\ reconfigPending' = reconfigPending
    BY <1>9 DEF Pull, HandOver, ProcessMetric, Report, AssetAgent, DBChange,
                OtherAsset, serverVars, vars, server, puller
  <2> QED
    BY <1>0, <2>1 DEF PendingInv, Booting
<1> QED
  BY <1>1, <1>2, <1>3, <1>4, <1>5, <1>6, <1>7, <1>8, <1>9 DEF ServerNext

-----------------------------------------------------------------------------
(* The measurements.                                                       *)

\* What MeasuresInv says of one measurement.
Recent(m) ==
  m # NoMetric =>
    /\ ~ Booting
    /\ m.timestamp <= now
    /\ IF loop = "poll" THEN now - m.timestamp < m.ttl + 2 * RepeatAfter
                        ELSE last - m.timestamp <= m.ttl

IsEmptyUnit(measures) ==
  \A d \in DOMAIN measures, q \in Quantity : measures[d][q] = NoMetric

LEMMA UnitIsEmpty == \A devices : IsEmptyUnit(Unit(devices))
BY DEF IsEmptyUnit, Unit, EmptyList

LEMMA SetMeasurementElsewhere ==
  ASSUME NEW measures, \A e \in DOMAIN measures : DOMAIN measures[e] = Quantity,
         NEW d, NEW q, NEW m
  PROVE  LET new == SetMeasurement(measures, d, q, m)
         IN  /\ DOMAIN new = DOMAIN measures
             /\ \A e \in DOMAIN measures, r \in Quantity :
                  new[e][r] = measures[e][r] \/ new[e][r] = m
<1> DEFINE new == SetMeasurement(measures, d, q, m)
<1>1. DOMAIN new = DOMAIN measures
  BY DEF SetMeasurement
<1>2. \A e \in DOMAIN measures :
         new[e] = measures[e] \/ new[e] = [measures[e] EXCEPT ![q] = m]
  BY DEF SetMeasurement, AddMetricInfo
<1> HIDE DEF new
<1> QED
  BY <1>1, <1>2 DEF new

LEMMA MeasuresInvRecent ==
  MeasuresInv <=> \A o \in Owner : \A d \in DOMAIN powerdevices[o], q \in Quantity :
                    Recent(powerdevices[o][d][q])
BY DEF MeasuresInv, Recent

\* No step but a poll, a reload or a metric touches the measurements; time
\* passes while the server sleeps only, and then the purge of the last poll
\* still counts.
LEMMA RecentStays ==
  ASSUME TypeOK, TimerInv, NEW m, IsMetric(m, MetricValues), Recent(m), now' >= now,
         now' \in Nat, ~ Booting => ~ Booting',
         \/ last' = last /\ (loop = "poll" <=> loop' = "poll")
            /\ (loop = "poll" => now' = now)
         \/ loop = "wait" /\ loop' = "poll" /\ now' = now /\ phase = "idle"
  PROVE  Recent(m)'
<1>1. CASE m = NoMetric
  BY <1>1 DEF Recent
<1>2. CASE m # NoMetric
  <2>1. /\ m.timestamp \in Nat /\ m.ttl \in Nat /\ now \in Nat /\ last \in Nat
        /\ RepeatAfter \in Nat
    BY <1>2, UnitAssumption DEF TypeOK, TimerInv, IsMetric
  <2>2. CASE loop = "wait" /\ loop' = "poll" /\ now' = now
    <3>1. now - last < 2 * RepeatAfter
      <4>1. ~ Booting
        BY <1>2 DEF Recent
      <4>2. wake - last < 2 * RepeatAfter /\ now <= wake /\ wake \in Nat
        BY <2>2, <4>1 DEF TimerInv
      <4> QED
        BY <2>1, <4>2
    <3> QED
      BY <1>2, <2>1, <2>2, <3>1 DEF Recent
  <2>3. CASE last' = last /\ (loop = "poll" <=> loop' = "poll")
             /\ (loop = "poll" => now' = now)
    BY <1>2, <2>1, <2>3 DEF Recent
  <2> QED
    BY <2>2, <2>3
<1> QED
  BY <1>1, <1>2

LEMMA MeasuresStep ==
  ASSUME TypeOK, TypeOK', ThreadsInv, TimerInv, MeasuresInv, [ServerNext]_serverVars
  PROVE  MeasuresInv'
<1> USE DEF memory, environment
<1>0. /\ now \in Nat /\ last \in Nat /\ last <= now /\ now < UintRange
      /\ RepeatAfter \in Nat /\ MetricTtl \in Nat /\ UintRange \in Nat \ {0}
  BY UnitAssumption, UintRangeAssumption, ConfigurationAssumption DEF TypeOK, TimerInv
<1>a. /\ \A o \in Owner : \A d \in DOMAIN powerdevices[o], q \in Quantity :
           /\ Recent(powerdevices[o][d][q])
           /\ IsMetric(powerdevices[o][d][q], MetricValues)
      /\ \A o \in Owner : DOMAIN powerdevices[o] \subseteq Device
  BY MeasuresInvRecent DEF TypeOK, IsUnit
<1>b. ASSUME \A m : IsMetric(m, MetricValues) /\ Recent(m) => Recent(m)',
             \A o \in Owner : \A d \in DOMAIN powerdevices'[o], q \in Quantity :
               \/ powerdevices'[o][d][q] = NoMetric
               \/ /\ d \in DOMAIN powerdevices[o]
                  /\ powerdevices'[o][d][q] = powerdevices[o][d][q]
      PROVE  MeasuresInv'
  <2>1. \A m : Recent(m)' <=>
          (m # NoMetric =>
             /\ ~ Booting'
             /\ m.timestamp <= now'
             /\ IF loop' = "poll" THEN now' - m.timestamp < m.ttl + 2 * RepeatAfter
                                  ELSE last' - m.timestamp <= m.ttl)
    BY DEF Recent
  <2>2. SUFFICES ASSUME NEW o \in Owner, NEW d \in DOMAIN powerdevices'[o],
                        NEW q \in Quantity
                 PROVE  LET m == powerdevices'[o][d][q]
                        IN  m # NoMetric =>
                              /\ ~ Booting'
                              /\ m.timestamp <= now'
                              /\ IF loop' = "poll"
                                 THEN now' - m.timestamp < m.ttl + 2 * RepeatAfter
                                 ELSE last' - m.timestamp <= m.ttl
    BY DEF MeasuresInv
  <2>3. CASE powerdevices'[o][d][q] # NoMetric
    <3>1. d \in DOMAIN powerdevices[o] /\ powerdevices'[o][d][q] = powerdevices[o][d][q]
      BY <1>b, <2>3
    <3>2. PICK m : m = powerdevices[o][d][q]
      OBVIOUS
    <3>3. Recent(m)'
      BY <1>a, <1>b, <3>1, <3>2
    <3> QED
      BY <2>1, <3>1, <3>2, <3>3
  <2> QED
    BY <2>3
<1>1. CASE Boot
  <2>1. \A o \in Owner : \A d \in DOMAIN powerdevices'[o], q \in Quantity :
          powerdevices'[o][d][q] = NoMetric
    <3>1. \A o \in Owner : \A d \in DOMAIN powerdevices[o], q \in Quantity :
            powerdevices[o][d][q] = NoMetric
      BY <1>1, <1>a DEF Boot, Recent
    <3>2. \A o \in Owner :
            powerdevices'[o] = powerdevices[o] \/ IsEmptyUnit(powerdevices'[o])
      BY <1>1, UnitIsEmpty
      DEF Boot, Start, Configure, ConfigureRacks, ConfigureDCs, ConfigureThrows, TypeOK
    <3> QED
      BY <3>1, <3>2 DEF IsEmptyUnit
  <2> QED
    BY <2>1 DEF MeasuresInv
<1>2. CASE Reload
  <2>1. /\ now' = now /\ last' = last /\ loop' = loop
        /\ phase' \in {"pollDCs", "idle"} /\ phase \in {"pollRacks", "pollDCs"}
    BY <1>2 DEF Reload, Configure, ConfigureRacks, ConfigureDCs, ConfigureThrows, Return, server
  <2>2. \A o \in Owner :
          powerdevices'[o] = powerdevices[o] \/ IsEmptyUnit(powerdevices'[o])
    BY <1>2, UnitIsEmpty
    DEF Reload, Configure, ConfigureRacks, ConfigureDCs, ConfigureThrows, TypeOK
  <2>3. \A o \in Owner : \A d \in DOMAIN powerdevices'[o], q \in Quantity :
          \/ powerdevices'[o][d][q] = NoMetric
          \/ d \in DOMAIN powerdevices[o] /\ powerdevices'[o][d][q] = powerdevices[o][d][q]
    BY <2>2 DEF IsEmptyUnit
  <2>4. \A m : IsMetric(m, MetricValues) /\ Recent(m) => Recent(m)'
    BY <2>1 DEF Recent, Booting
  <2> QED
    BY <1>b, <2>3, <2>4
<1>3. CASE Poll
  <2>1. /\ now' = now /\ last' = last /\ loop' \in {"top", "handle"}
        /\ phase = "idle" /\ phase' \in {"pollRacks", "idle"}
        /\ powerdevices' = [o \in Owner |-> Purged(o)]
    BY <1>3 DEF Poll, OnPoll
  <2>2. \A o \in Owner : \A d \in DOMAIN powerdevices'[o], q \in Quantity :
          /\ d \in DOMAIN powerdevices[o]
          /\ powerdevices'[o][d][q] = RemoveOld(powerdevices[o][d][q], now)
    <3>1. \A o \in Owner : \A d \in DOMAIN powerdevices[o] :
            DOMAIN powerdevices[o][d] = Quantity
      BY DEF TypeOK, IsUnit
    <3> QED
      BY <2>1, <3>1 DEF Purged, RemoveOldMetrics
  <2>3. ASSUME NEW m, IsMetric(m, MetricValues), Recent(m), ~ Old(m, now)
        PROVE  Recent(m)'
    <3>1. CASE m # NoMetric
      <4>1. m.timestamp \in Nat /\ m.ttl \in Nat /\ m.timestamp <= now
        BY <2>3, <3>1 DEF IsMetric, Recent
      <4>2. USub(now, m.timestamp) = now - m.timestamp
        BY <1>0, <4>1 DEF USub
      <4>3. last - m.timestamp <= m.ttl
        BY <1>0, <2>3, <3>1, <4>1, <4>2 DEF Old
      <4> QED
        BY <2>1, <4>1, <4>3 DEF Recent, Booting
    <3>2. CASE m = NoMetric
      BY <3>2 DEF Recent
    <3> QED
      BY <3>1, <3>2
  <2>4. SUFFICES ASSUME NEW o \in Owner, NEW d \in DOMAIN powerdevices'[o],
                        NEW q \in Quantity
                 PROVE  LET m == powerdevices'[o][d][q]
                        IN  m # NoMetric =>
                              /\ ~ Booting'
                              /\ m.timestamp <= now'
                              /\ IF loop' = "poll"
                                 THEN now' - m.timestamp < m.ttl + 2 * RepeatAfter
                                 ELSE last' - m.timestamp <= m.ttl
    BY DEF MeasuresInv
  <2>5. PICK m : m = powerdevices[o][d][q]
    OBVIOUS
  <2>6. IsMetric(m, MetricValues) /\ Recent(m) /\ powerdevices'[o][d][q] = RemoveOld(m, now)
    BY <1>a, <2>2, <2>5
  <2>7. CASE Old(m, now)
    BY <2>6, <2>7 DEF RemoveOld
  <2>8. CASE ~ Old(m, now)
    <3>1. powerdevices'[o][d][q] = m /\ Recent(m)'
      BY <2>3, <2>6, <2>8 DEF RemoveOld
    <3> QED
      BY <3>1 DEF Recent
  <2> QED
    BY <2>7, <2>8
<1>4. CASE HandOver /\ ~ UNCHANGED vars
  <2>1. PICK item \in batch, failed \in WriteFailures :
          /\ \E v \in MetricValues, age \in 0 .. MetricTtl :
               now - age >= 0 /\ item[2] = MetricInfo(v, now - age, MetricTtl)
          /\ ProcessMetric(item[1][1], item[1][2], item[2], failed)
    BY <1>4, HandOverMetric
  <2>2. /\ now' = now /\ last' = last /\ loop' = loop /\ phase' = "idle"
    BY <1>4, <2>1 DEF HandOver, ProcessMetric, server
  <2>3. \A o \in Owner :
          \/ powerdevices'[o] = powerdevices[o]
          \/ powerdevices'[o] =
               SetMeasurement(powerdevices[o], item[1][1], item[1][2], item[2])
    BY <2>1 DEF ProcessMetric
  <2>4. \A o \in Owner : \A d \in DOMAIN powerdevices'[o], q \in Quantity :
          /\ d \in DOMAIN powerdevices[o]
          /\ \/ powerdevices'[o][d][q] = powerdevices[o][d][q]
             \/ powerdevices'[o][d][q] = item[2]
    <3>1. \A o \in Owner : \A d \in DOMAIN powerdevices[o] :
            DOMAIN powerdevices[o][d] = Quantity
      BY DEF TypeOK, IsUnit
    <3> QED
      BY <2>3, <3>1, SetMeasurementElsewhere
  <2>5. PICK reading : reading = item[2]
    OBVIOUS
  <2>6. Recent(reading)'
    <3>1. PICK v \in MetricValues, age \in 0 .. MetricTtl :
            now - age >= 0 /\ reading = MetricInfo(v, now - age, MetricTtl)
      BY <2>1, <2>5
    <3>2. reading.timestamp = now - age /\ reading.ttl = MetricTtl
      BY <3>1 DEF MetricInfo
    <3>3. /\ now - age <= now /\ last - (now - age) <= MetricTtl
          /\ now - (now - age) < MetricTtl + 2 * RepeatAfter
      BY <1>0, UnitAssumption
    <3> QED
      BY <2>2, <3>2, <3>3 DEF Recent, Booting
  <2>7. \A m : IsMetric(m, MetricValues) /\ Recent(m) => Recent(m)'
    BY <2>2 DEF Recent, Booting
  <2>8. SUFFICES ASSUME NEW o \in Owner, NEW d \in DOMAIN powerdevices'[o],
                        NEW q \in Quantity
                 PROVE  LET m == powerdevices'[o][d][q]
                        IN  m # NoMetric =>
                              /\ ~ Booting'
                              /\ m.timestamp <= now'
                              /\ IF loop' = "poll"
                                 THEN now' - m.timestamp < m.ttl + 2 * RepeatAfter
                                 ELSE last' - m.timestamp <= m.ttl
    BY DEF MeasuresInv
  <2>9. PICK m : m = powerdevices[o][d][q]
    OBVIOUS
  <2>10. Recent(m)'
    BY <1>a, <2>4, <2>7, <2>9
  <2> QED
    BY <2>4, <2>5, <2>6, <2>9, <2>10 DEF Recent
<1>5. CASE Wake
  <2>1. /\ now' = now /\ loop = "wait" /\ phase = "idle" /\ phase' = phase
        /\ powerdevices' = powerdevices
        /\ \/ loop' = "poll"
           \/ last' = last /\ loop' \in {"top", "handle"}
    BY <1>5 DEF Wake, Wakes, vars
  <2>2. \A m : IsMetric(m, MetricValues) /\ Recent(m) => Recent(m)'
    BY <1>0, <2>1, RecentStays DEF Booting
  <2> QED
    BY <1>b, <2>1, <2>2
<1>6. CASE TimePasses
  <2>1. /\ now' = now + 1 /\ last' = last /\ loop = "wait" /\ loop' = loop
        /\ phase' = phase /\ powerdevices' = powerdevices
    BY <1>6 DEF TimePasses, BothSleep, Tick, server
  <2>2. \A m : IsMetric(m, MetricValues) /\ Recent(m) => Recent(m)'
    BY <1>0, <2>1, RecentStays DEF Booting
  <2> QED
    BY <1>b, <2>1, <2>2
<1>7. CASE Sleep \/ Handle
  <2>1. /\ now' = now /\ last' = last /\ loop \in {"top", "handle"}
        /\ loop' \in {"top", "wait"} /\ phase' = phase /\ powerdevices' = powerdevices
    BY <1>7 DEF Sleep, Handle, ProcessAsset, vars
  <2>2. \A m : IsMetric(m, MetricValues) /\ Recent(m) => Recent(m)'
    BY <1>0, <2>1, RecentStays DEF Booting
  <2> QED
    BY <1>b, <2>1, <2>2
<1>8. CASE \/ Pull \/ EndPull \/ Report \/ AssetAgent
           \/ HandOver /\ UNCHANGED vars
           \/ UNCHANGED serverVars
  <2>1. /\ now' = now /\ last' = last /\ loop' = loop /\ phase' = phase
        /\ powerdevices' = powerdevices
    BY <1>8 DEF Pull, EndPull, SetPollInterval, Report, AssetAgent, DBChange, HandOver,
                OtherAsset, serverVars, vars, server
  <2>2. \A m : IsMetric(m, MetricValues) /\ Recent(m) => Recent(m)'
    BY <1>0, <2>1, RecentStays DEF Booting
  <2> QED
    BY <1>b, <2>1, <2>2
<1> QED
  BY <1>1, <1>2, <1>3, <1>4, <1>5, <1>6, <1>7, <1>8 DEF ServerNext

-----------------------------------------------------------------------------
(* The reload timer.                                                       *)

\* onPoll() reloads only what is due, and it stays due until configure() is
\* through with it.
DueInv == phase \in {"pollRacks", "pollDCs"} => ReloadIsDue

LEMMA DueStep == TypeOK /\ DueInv /\ [ServerNext]_serverVars => DueInv'
<1> SUFFICES ASSUME TypeOK, DueInv, [ServerNext]_serverVars PROVE DueInv'
  OBVIOUS
<1> USE DEF memory, environment
<1>1. CASE Boot
  <2>1. phase' \notin {"pollRacks", "pollDCs"}
    BY <1>1 DEF Boot, Booting, Start, Configure, ConfigureRacks, ConfigureDCs, ConfigureThrows, Return
  <2> QED
    BY <2>1 DEF DueInv
<1>2. CASE Poll
  <2>1. /\ now' = now /\ reconfigPending' = reconfigPending
        /\ phase' = IF ReloadIsDue THEN "pollRacks" ELSE "idle"
    BY <1>2 DEF Poll, OnPoll
  <2> QED
    BY <2>1 DEF DueInv, ReloadIsDue
<1>3. CASE Reload
  <2>1. \/ phase' = "idle"
        \/ /\ now' = now /\ reconfigPending' = reconfigPending
           /\ phase \in {"pollRacks", "pollDCs"}
    BY <1>3 DEF Reload, Configure, ConfigureRacks, ConfigureDCs, ConfigureThrows, Return
  <2> QED
    BY <2>1 DEF DueInv, ReloadIsDue
<1>4. CASE Handle \/ EndPull \/ Sleep \/ Wake \/ TimePasses
  <2>1. phase = "idle" /\ phase' = phase
    BY <1>4 DEF Handle, ProcessAsset, EndPull, SetPollInterval,
                Sleep, Wake, TimePasses, BothSleep, Tick, vars
  <2> QED
    BY <2>1 DEF DueInv
<1>5. CASE Pull \/ HandOver \/ Report \/ AssetAgent \/ UNCHANGED serverVars
  <2>1. phase' = phase /\ now' = now /\ reconfigPending' = reconfigPending
    BY <1>5 DEF Pull, HandOver, ProcessMetric, Report, AssetAgent, DBChange, OtherAsset, serverVars, vars
  <2> QED
    BY <2>1 DEF DueInv, ReloadIsDue
<1> QED
  BY <1>1, <1>2, <1>3, <1>4, <1>5 DEF ServerNext

\* Each step of the threads is a step of the timer, or changes neither the time
\* nor when the reload is due.
LEMMA ReloadTimerStep ==
  ASSUME ServerInv, PendingInv', DueInv, [ServerNext]_serverVars
  PROVE  [Reloads!Next]_<<now, reconfigPending>>
<1> USE DEF memory, environment
<1>0. /\ now \in Nat \ {0} /\ reconfigPending \in Nat
      /\ PullInterval \in Nat \ {0} /\ ReconfigDelay \in Nat \ {0}
  BY ServerAssumption, ConfigurationAssumption DEF ServerInv, TypeOK
<1>1. CASE Boot
  <2>1. now' = now /\ reconfigPending' \in {0, now + ReconfigDelay} /\ reconfigPending = 0
    BY <1>1 DEF Boot, Start, Configure, ConfigureRacks, ConfigureDCs, ConfigureThrows, Return,
                ServerInv, TimerInv
  <2> QED
    BY <2>1 DEF Reloads!Next, Reloads!Change
<1>2. CASE Handle
  <2>1. now' = now /\ reconfigPending' \in {reconfigPending, Schedule}
    BY <1>2 DEF Handle, ProcessAsset
  <2> QED
    BY <2>1 DEF Schedule, Reloads!Next, Reloads!Change
<1>3. CASE Reload
  <2>1. /\ now' = now /\ ReloadIsDue
        /\ reconfigPending' \in {reconfigPending, 0, now + ReconfigDelay}
    BY <1>3 DEF Reload, Configure, ConfigureRacks, ConfigureDCs, ConfigureThrows, Return, DueInv
  <2> QED
    BY <2>1 DEF ReloadIsDue, Reloads!Next, Reloads!Reload
<1>4. CASE TimePasses
  <2>1. now' = now + 1 /\ reconfigPending' = reconfigPending
    BY <1>4 DEF TimePasses, Tick
  <2>2. reconfigPending # 0 => now < reconfigPending + (1 + PullInterval)
    BY <1>0, <2>1 DEF PendingInv
  <2> QED
    BY <2>1, <2>2 DEF Reloads!Next, Reloads!Tick
<1>5. CASE \/ Sleep \/ Wake \/ Poll \/ Pull \/ HandOver \/ EndPull \/ Report
           \/ AssetAgent \/ UNCHANGED serverVars
  <2>1. now' = now /\ reconfigPending' = reconfigPending
    BY <1>5 DEF Sleep, Wake, Poll, OnPoll, Pull, HandOver, ProcessMetric, EndPull,
                SetPollInterval, Report, AssetAgent, DBChange, OtherAsset, serverVars, vars
  <2> QED
    BY <2>1
<1> QED
  BY <1>1, <1>2, <1>3, <1>4, <1>5 DEF ServerNext

-----------------------------------------------------------------------------
(* The theorems.                                                           *)

LEMMA ServerInvStep == ServerInv /\ [ServerNext]_serverVars => ServerInv'
<1> SUFFICES ASSUME ServerInv, [ServerNext]_serverVars PROVE ServerInv'
  OBVIOUS
<1>1. TypeOK /\ ThreadsInv /\ TimerInv /\ PendingInv /\ MeasuresInv
  BY DEF ServerInv
<1>2. TypeOK'
  BY <1>1, ServerStep, TypeStep
<1>3. ThreadsInv' /\ TimerInv' /\ PendingInv' /\ MeasuresInv'
  BY <1>1, <1>2, ThreadsStep, TimerStep, PendingStep, MeasuresStep
<1> QED
  BY <1>2, <1>3 DEF ServerInv

\* The two threads use the configuration as Spec says: whatever is proved of
\* Spec holds of the server.
THEOREM ServerImplements == ServerSpec => Spec
<1>1. ServerInit => Init
  BY DEF ServerInit
<1>2. ServerInv /\ [ServerNext]_serverVars => [Next]_vars
  BY ServerStep DEF ServerInv
<1> QED
  BY <1>1, <1>2, ServerInvInit, ServerInvStep, PTL DEF ServerSpec, Spec

\* The server polls, whatever wakes it and however the poll interval changes
\* while it sleeps.
THEOREM PollsKeepComingHolds == ServerSpec => []PollsKeepComing
<1>1. ServerInv => PollsKeepComing
  <2> SUFFICES ASSUME ServerInv, ~ Booting PROVE now - last < 2 * RepeatAfter
    BY DEF PollsKeepComing
  <2>1. /\ now \in Nat /\ last \in Nat /\ wake \in Nat /\ RepeatAfter \in Nat
        /\ IF loop = "wait" THEN wake - last < 2 * RepeatAfter /\ now <= wake
                            ELSE now - last < 2 * RepeatAfter
    BY UnitAssumption DEF ServerInv, TypeOK, TimerInv
  <2> QED
    BY <2>1
<1> QED
  BY <1>1, ServerInvInit, ServerInvStep, PTL DEF ServerSpec

\* A reload starts in time, though the server's sleep may be computed before
\* it is scheduled.
THEOREM ReloadsInTimeHolds == ServerSpec => []ReloadsInTime
<1>1. ServerInv => ReloadsInTime
  BY DEF ServerInv, PendingInv, ReloadsInTime
<1> QED
  BY <1>1, ServerInvInit, ServerInvStep, PTL DEF ServerSpec

\* Measurements that nobody renews are purged.
THEOREM OldMeasurementsGoHolds == ServerSpec => []OldMeasurementsGo
<1>1. ServerInv => OldMeasurementsGo
  <2> SUFFICES ASSUME ServerInv, NEW o \in Owner, NEW d \in DOMAIN powerdevices[o],
                      NEW q \in Quantity, powerdevices[o][d][q] # NoMetric
               PROVE  LET m == powerdevices[o][d][q]
                      IN  now - m.timestamp < m.ttl + 2 * RepeatAfter
    BY DEF OldMeasurementsGo
  <2> DEFINE m == powerdevices[o][d][q]
  <2>1. IsMetric(m, MetricValues) /\ Recent(m)
    BY MeasuresInvRecent DEF ServerInv, TypeOK, IsUnit
  <2>2. m.timestamp \in Nat /\ m.ttl \in Nat
    BY <2>1 DEF IsMetric
  <2>3. ~ Booting
    BY <2>1 DEF Recent
  <2>4. /\ now \in Nat /\ last \in Nat /\ wake \in Nat /\ RepeatAfter \in Nat
        /\ IF loop = "wait" THEN wake - last < 2 * RepeatAfter /\ now <= wake
                            ELSE now - last < 2 * RepeatAfter
    BY <2>3, UnitAssumption DEF ServerInv, TypeOK, TimerInv
  <2>5. now - last < 2 * RepeatAfter
    BY <2>4
  <2> HIDE DEF m
  <2> QED
    BY <2>1, <2>2, <2>4, <2>5 DEF Recent, m
<1> QED
  BY <1>1, ServerInvInit, ServerInvStep, PTL DEF ServerSpec

\* The reloads are those of the abstract timer: asset messages neither move
\* nor stop it, the reload happens when it is due and at most a second and a
\* pull interval later, however the two threads interleave.
THEOREM ServerIsReloadTimer == ServerSpec => IsReloadTimer
<1>1. ServerInit => Reloads!Init /\ DueInv
  BY DEF ServerInit, Init, Reloads!Init, DueInv
<1>2. ServerInv /\ DueInv /\ [ServerNext]_serverVars => ServerInv' /\ DueInv'
  BY ServerInvStep, DueStep DEF ServerInv
<1>3. ServerInv /\ ServerInv' /\ DueInv /\ [ServerNext]_serverVars
        => [Reloads!Next]_<<now, reconfigPending>>
  BY ReloadTimerStep DEF ServerInv
<1> QED
  BY <1>1, <1>2, <1>3, ServerInvInit, PTL DEF ServerSpec, IsReloadTimer, Reloads!Spec

=============================================================================
