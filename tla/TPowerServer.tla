------------------------------ MODULE TPowerServer ------------------------------
(***************************************************************************)
(* When the calls of TotalPowerConfiguration are made: the two threads of  *)
(* src/src/fty_metric_tpower_server.cc with their timers.                  *)
(*                                                                         *)
(*   the server   sleeps for the poll interval or until an asset message,  *)
(*                polls if the interval has passed since the last poll,    *)
(*                then handles the message;                                *)
(*   the puller   reads all power metrics from the SHM at a fixed          *)
(*                interval and hands them over one by one, and then has    *)
(*                the poll interval computed anew.                         *)
(*                                                                         *)
(* The poll interval is read without the mutex, once for the sleep and     *)
(* again after it.  The threads run in no time: time passes while both are *)
(* asleep, so what is shown here is what the timers alone do to the        *)
(* totals.  The monotonic clock of the server and the wall clock of the    *)
(* configuration go together; the process does not die.                    *)
(***************************************************************************)
EXTENDS TotalPowerConfiguration

CONSTANTS
  PullInterval,   \* fty_get_polling_interval(), 30 s if nobody changes it
  Texts           \* values of metrics in the SHM that are no numbers

ASSUME ServerAssumption ==
  /\ PullInterval \in Nat \ {0}
  /\ PollingInterval <= RepeatAfter
  /\ RepeatAfter + PullInterval <= TTL
  /\ MaxNow < UintRange
  /\ 0 .. MetricTtl \subseteq MetricAges
  /\ Texts \cap MetricValues = {}

VARIABLES
  loop,      \* where the server is: "top", "wait", "poll", "handle"
  message,   \* it was woken by a message
  wake,      \* when zpoller_wait() expires
  last,      \* when it polled last
  pulling,   \* the puller is handing over metrics,
  batch,     \* the ones that it has not handed over yet
  pullAt,    \* when its zpoller_wait() expires
  shm        \* external: what the devices measured last, in the SHM

server == <<loop, message, wake, last>>
puller == <<pulling, batch, pullAt>>
serverVars == <<vars, server, puller, shm>>

Topic == Device \X MetricQuantities

-----------------------------------------------------------------------------
(* The server.                                                             *)

Booting == phase \in {"down", "bootRacks", "bootDCs"}

\* The initial set up, after which the puller is started and the loop entered.
Boot ==
  /\ Booting
  /\ Start \/ Configure({}) \/ ConfigureThrows
  /\ last' = now
  /\ pullAt' = now + PullInterval
  /\ UNCHANGED <<loop, message, wake, pulling, batch, shm>>

Sleep ==
  /\ phase = "idle"
  /\ loop = "top"
  /\ loop' = "wait"
  /\ wake' = now + timeout
  /\ UNCHANGED <<vars, message, last, puller, shm>>

Wakes == loop = "wait" /\ (now >= wake \/ inbox # <<>>)

\* Mutant: it polls only when nothing woke it before the time was up.
WakePollsUndisturbed ==
  /\ phase = "idle"
  /\ Wakes
  /\ message' = (inbox # <<>>)
  /\ IF now - last >= timeout /\ inbox = <<>>
     THEN loop' = "poll" /\ last' = now
     ELSE loop' = (IF inbox # <<>> THEN "handle" ELSE "top") /\ UNCHANGED last
  /\ UNCHANGED <<vars, wake, puller, shm>>

\* The end of zpoller_wait(), and whether it is time to poll.
Wake ==
  /\ phase = "idle"
  /\ Wakes
  /\ message' = (inbox # <<>>)
  /\ IF now - last >= timeout
     THEN loop' = "poll" /\ last' = now
     ELSE loop' = (IF inbox # <<>> THEN "handle" ELSE "top") /\ UNCHANGED last
  /\ UNCHANGED <<vars, wake, puller, shm>>

\* onPoll(), up to the reload.
Poll ==
  /\ loop = "poll"
  /\ \E failed \in WriteFailures : OnPoll(failed)
  /\ loop' = IF message THEN "handle" ELSE "top"
  /\ UNCHANGED <<message, wake, last, puller, shm>>

\* The reload, which keeps the mutex of onPoll().
Reload ==
  /\ phase \in {"pollRacks", "pollDCs"}
  /\ Configure({}) \/ ConfigureThrows
  /\ UNCHANGED <<server, puller, shm>>

\* The message that woke it, of whatever kind.
Handle ==
  /\ loop = "handle"
  /\ ProcessAsset
  /\ loop' = "top"
  /\ UNCHANGED <<message, wake, last, puller, shm>>

-----------------------------------------------------------------------------
(* The puller.                                                             *)

\* What read_metrics() returns: nothing that is past its time to live.
Readable == {t \in Topic : shm[t] # NoMetric /\ ~ Old(shm[t], now)}

\* It waits for nothing but its timer, so it may read in the middle of a reload.
Pull ==
  /\ ~ Booting
  /\ ~ pulling
  /\ now >= pullAt
  /\ pulling' = TRUE
  /\ batch' = {<<t, shm[t]>> : t \in Readable}
  /\ UNCHANGED <<vars, server, pullAt, shm>>

\* A value that cannot be converted is ignored, without the mutex.
HandOver ==
  /\ pulling
  /\ \E item \in batch :
       /\ IF item[2].value \in Texts THEN UNCHANGED vars
          ELSE \E failed \in WriteFailures :
                 ProcessMetric(item[1][1], item[1][2], item[2], failed)
       /\ batch' = batch \ {item}
  /\ UNCHANGED <<server, pulling, pullAt, shm>>

EndPull ==
  /\ pulling
  /\ batch = {}
  /\ SetPollInterval
  /\ pulling' = FALSE
  /\ pullAt' = now + PullInterval
  /\ UNCHANGED <<server, batch, shm>>

-----------------------------------------------------------------------------
(* The environment.                                                        *)

\* A device measures something, once a second at most.
Report ==
  \E t \in Topic, v \in MetricValues \cup Texts :
    /\ shm[t] # NoMetric => shm[t].timestamp # now
    /\ shm' = [shm EXCEPT ![t] = MetricInfo(v, now, MetricTtl)]
    /\ UNCHANGED <<vars, server, puller>>

AssetAgent ==
  /\ \/ \E topology \in Topologies, op \in AssetOps : DBChange(topology, op)
     \/ \E op \in AssetOps : OtherAsset(op)
  /\ UNCHANGED <<server, puller, shm>>

BothSleep ==
  /\ phase = "idle"
  /\ loop = "wait" /\ ~ Wakes
  /\ ~ pulling /\ now < pullAt

TimePasses ==
  /\ BothSleep
  /\ Tick
  /\ UNCHANGED <<server, puller, shm>>

-----------------------------------------------------------------------------
ServerInit ==
  /\ Init
  /\ loop = "top"
  /\ message = FALSE
  /\ wake = 0
  /\ last = 0
  /\ pulling = FALSE
  /\ batch = {}
  /\ pullAt = 0
  /\ shm = [t \in Topic |-> NoMetric]

ServerNext ==
  \/ Boot \/ Sleep \/ Wake \/ Poll \/ Reload \/ Handle
  \/ Pull \/ HandOver \/ EndPull
  \/ Report \/ AssetAgent \/ TimePasses

ServerSpec == ServerInit /\ [][ServerNext]_serverVars

-----------------------------------------------------------------------------
(* What the timers have to guarantee.                                      *)

\* However the poll interval changes while the server sleeps, and however
\* often messages wake it, polls are less than two repeat intervals apart.
PollsKeepComing == ~ Booting => now - last < 2 * RepeatAfter

\* A measurement is used for no longer than its time to live and the time
\* between two polls, which alone purge it.
OldMeasurementsGo ==
  \A o \in Owner : \A d \in DOMAIN powerdevices[o], q \in Quantity :
    LET m == powerdevices[o][d][q]
    IN  m # NoMetric => now - m.timestamp < m.ttl + 2 * RepeatAfter

\* A scheduled reload starts at most a second and a pull interval late.
ReloadsInTime ==
  reconfigPending # 0 => now <= reconfigPending + 1 + PullInterval

\* All devices of the unit report the quantity of slot s.
Alive(s) ==
  \A d \in DOMAIN powerdevices[s[1]] :
    /\ powerdevices[s[1]][d][s[2]] # NoMetric
    /\ ~ Old(powerdevices[s[1]][d][s[2]], now)

\* While all devices of a unit keep reporting, its total in the SHM is less
\* old than the repeat and the pull interval, so it does not reach its TTL.
FreshInSHM ==
  \A s \in Slot :
    BothSleep /\ QuantityIsKnown(total[s]) /\ Alive(s) =>
      now - published[s].time < RepeatAfter + PullInterval

\* A total that moves again in the second of its last sending is held back,
\* and no timer waits for it: getPollInterval() does not know of it.  While
\* the devices report, the next pull sends it, so the SHM shows the current
\* total or one that was right less than a pull interval ago.
ShownInSHM ==
  \A s \in Slot :
    BothSleep /\ QuantityIsKnown(total[s]) /\ Alive(s) =>
      \/ published[s].value = total[s].lastValue.value
      \/ now - published[s].time < PullInterval

\* The last time that the puller was through.
LastPull == pullAt - PullInterval

\* What the agent is for: when the devices of a rack measured nothing new since
\* the last pull, the SHM shows the sum of what it has of them, to within
\* Epsilon, or a total that is younger than a pull interval.
TotalInSHMAddsUp ==
  \A s \in Slot :
    LET devices == DOMAIN powerdevices[s[1]]
        sum     == SumOrNaN([d \in devices |-> shm[<<d, s[2]>>].value])
    IN  /\ s[1] \in Rack \/ s[2] \in {Input(p) : p \in Phase}
        /\ BothSleep /\ devices # {} /\ Alive(s)
        /\ \A d \in devices : shm[<<d, s[2]>>].timestamp < LastPull
        /\ sum # NaN
        => \/ sum - published[s].value \in -Epsilon .. Epsilon
           \/ now - published[s].time < PullInterval

\* The reloads of the agent are those of a timer that asset messages start and
\* cannot move, however its threads interleave (processAsset, onPoll, configure).
Reloads == INSTANCE ReloadTimer WITH
  clock <- now, due <- reconfigPending,
  Delay <- ReconfigDelay, Slack <- 1 + PullInterval

IsReloadTimer == Reloads!Spec

=============================================================================
