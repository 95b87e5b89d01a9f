# fty-metric-tpower in TLA+

fty-metric-tpower adds up the power of racks and data centers. It reads from a
database which power devices feed a rack or a data center, reads what these
devices measure from a metric store in shared memory (the SHM), and writes the
totals back to the SHM. This directory models the agent in TLA+, checks the
models with TLC and proves the safety properties that matter most with TLAPS.
Source paths below are relative to the repository; `src/` there holds the code.

## The system

| part | state | operations | who calls it |
| --- | --- | --- | --- |
| `MetricInfo`, `MetricList` (src/metricinfo.h, src/metriclist.cc) | topic -> metric with value, timestamp, ttl | add, get, find, remove old ones | `TPUnit` |
| `TPUnit` (src/tp_unit.cc) | per device a list of measurements; per quantity the last total, its changed flag, the times of its last change and last sending | set a measurement, calculate a total, purge, "is it to be advertised", "advertised" | `TotalPowerConfiguration` |
| `TotalPowerConfiguration` (src/tpowerconfiguration.cc) | racks and data centers, device -> owner maps, when to reload, how long to sleep | processMetric, setPollInterval, onPoll, processAsset, configure | the two threads of the server |
| power source search (src/calc_power.cc) | none: a function of the database | the power sources of every rack, of every data center | configure |
| server (src/fty_metric_tpower_server.cc) | the poller, the time of the last poll | wake, poll when the timeout has passed, handle an asset message or a command | main |
| metrics puller (same file) | none | every polling interval: read all power metrics, hand them over one by one, set the poll interval | its timer |
| watchdog (src/watchdog.cc) | the time of the last tick | tick, check, send the process SIGTERM | the server, its own timer |
| main (src/fty_metric_tpower.cc) | none | start the server, wait for a message of it or a signal, end it | the operating system |

The server's thread and the puller's share one `TotalPowerConfiguration` and one
mutex, taken around each call. The environment is the database and the ASSETS
stream (an asset agent changes the one and tells on the other), the SHM, and the
wall clock. main, server, puller and watchdog are four threads; the last three are
czmq actors, each with a pipe to the thread that made it, and all four look at
`zsys_interrupted`.

What is hard here: the puller's batches interleave with polls, asset messages
and reloads; `configure()` reads the database in two halves of many selects each,
while it may change, and can throw or be told of an error in each half; totals are sent on change, on a schedule, at most once a
second, and again after a write that failed; every age is an unsigned difference
of wall clock times; one object decides how long a thread sleeps that another
thread gives reasons to wake; the threads end each other by messages that not all of
them read, and by a flag that not all of them look at; and the process can die
anywhere, with everything in memory; a signal cuts whatever wait it meets, also
that of one thread for the end of another. `PROJECT.json` lists these hazards with their lines.

What makes each part correct:

* `TPUnit` and the publishing half of `TotalPowerConfiguration`: the SHM shows
  the current totals, no change is lost, nothing old is shown for ever.
* The topology half: a change of the database is reloaded, soon, and nothing
  puts that off for ever; the device -> owner maps fit the units; no total is
  published that lacks a device.
* The power source search: exactly the first smart device of every chain, and it
  ends.
* The server and the puller: polls come in time, so a total is refreshed before
  its TTL ends, old measurements go and a scheduled reload starts.
* Watchdog and life cycle: the agent ends when it is told to, when its broker is
  gone and when its server has given up, and no thread outlives what it works on.

## The modules

`MetricList.tla` and `TPUnit.tla` are modules of operators, since these classes
have no thread of their own. A topic is `<quantity>@<asset>` and every list of
the program holds the topics of one asset, so a list is a function from
quantities to metrics. What `_lastValue`, `_changed`, `_changetimestamp` and
`_advertisedtimestamp` hold for one quantity is one record, a *slot*. A method
that throws is a total of `NaN`. Values are integers, and `Epsilon` stands for
the 0.00001 below which a difference is no change. Ages are taken modulo
`UintRange`, as the code subtracts `uint64_t`.

`TotalPowerConfiguration.tla` is the state machine.

| variable | code |
| --- | --- |
| `powerdevices` | the `_powerdevices` of every unit in `_racks` and `_DCs`; a unit exists when it has a device |
| `total` | the slots of these units |
| `affectedRacks`, `affectedDCs` | `_affectedRacks`, `_affectedDCs` |
| `reconfigPending`, `timeout` | `_reconfigPending`, `_timeout` (in seconds) |
| `phase` | where the server's thread is, as `configure()` is not one step |
| `now`, `published`, `db`, `inbox` | the environment: wall clock, SHM, database, unread messages of the ASSETS stream |
| `torn` | the owners that the database changed since the half of `configure()` that reads them began |

Each call made under the mutex is one action, whole: `ProcessMetric` stores the
measurement in the units the maps name, calculates, writes and marks as
advertised; `OnPoll` purges, calculates and sends every total, then either
starts the reload or sets the timeout. `configure()` is `ConfigureRacks`, then
`ConfigureDCs`, as it reads the database twice; `ConfigureThrows` is an exception
in either half. A half is a select for the list of owners and two for each of
them, outside of a transaction, and is one step at its end: `Reads(lost)` is what
the selects may return. An owner in `torn`, which changed while they ran, may be
read as any mixture of before and after, so as anything; an error that is told by a
status, not by an exception, looks like an owner without devices. `Configure` is
either half with such a reading. A message that cannot be decoded (`Garbled`), or
is about no asset or an operation that does not matter, leaves the reload as it
is. `Crash`
can happen anywhere; `Start` subscribes to the stream before the database is
read, as the code does. A step reads the clock once.

`CalcPower.tla` is the search of one container: `ReadContainer` or `ReadFails`,
a `SearchLevel` per round of the loop, `Return`. It was kept apart from
`TotalPowerConfiguration`, whose `Topologies` (owner -> set of devices) are its
results: the search only depends on what the database holds, and `Reads` already
covers its failures. The vector of results is a set, because `addDeviceToMap`
drops order and duplicates.

`TPowerServer.tla` says when these calls are made: the loop of the server (`Boot`,
`Sleep`, `Wake`, `Poll`, `Reload`, `Handle`) and that of the puller (`Pull`,
`HandOver` per metric, `EndPull`) with their timers. It extends
`TotalPowerConfiguration` and uses its actions as they are. `HandOver` ignores a
metric whose value is no number (`Texts`), as `s_processMetrics` does; `Handle` is
the handling of a message, decodable or not.

| variable | code |
| --- | --- |
| `loop`, `message` | where the server is between `zpoller_wait` and the end of the loop, and whether a message woke it |
| `wake` | when its `zpoller_wait` expires: the timeout as it was read for the sleep |
| `last` | `last`, the time of the last poll |
| `pulling`, `batch`, `pullAt` | the puller's metrics not handed over yet, and when its `zpoller_wait` expires |
| `shm` | external: what the devices measured, as the SHM keeps it |

The poll interval is read without the mutex, once to sleep and again after it, and
the puller or an asset message may have changed it in between: `Wake` compares
with the timeout of now, not with the one slept for. The threads run in no time,
and time passes while both sleep: the module shows what the timers do, and leaves
slow databases out. The server's monotonic clock and the wall clock are one, and
the process does not die, which `TotalPowerConfiguration` covers.

`ReloadTimer.tla` is what all this promises about reloads, in 20 lines: a timer
that the first change starts, that later ones neither move nor stop, and that is
served when it is due and at most `Slack` late. `TPowerServer` implements it
(`IsReloadTimer`), with `reconfigPending` as the timer and a slack of a second
and a pull interval: no stream of messages can starve a reload, whatever the
threads do in which order.

`AgentLifecycle.tla` is the agent seen from outside: how the four threads start
and end. What they do between is not in it, and any of its steps may come at any
time.

| variable | code |
| --- | --- |
| `main` | where main is, from the options to the end |
| `at` | where the server, the puller and the watchdog's thread are |
| `woke` | why the server's `zpoller_wait` returned |
| `down`, `up` | per actor, "$TERM" unread in its pipe, and what its owner has not yet received: "$TERM" of a server that gives up, the exit signal |
| `interrupted` | `zsys_interrupted` |
| `left` | the actors whose `zactor_destroy` was cut by a signal, so that their thread may be left behind |
| `quiet` | the time of the monotonic clock since `last_tick_` |
| `malamute` | external: the broker answers, or is gone |

Its actions follow the loops statement by statement where another thread can
come between: the test of `zsys_interrupted`, the wait, the handling of what
woke it, the two halves of `zactor_destroy`. An actor returns in two steps: it
sends its exit signal, and then its side of the pipe is closed (`ClosePipe`). What
main sends in between is still accepted, which is the state `Deaf`: main took the
exit signal in its loop, saw the flag, and now waits in `zactor_destroy` for an
exit signal it has had. `HandleMessage` is a message of any kind, one that is NULL
or cannot be decoded included; only a `fty_proto` ticks the watchdog.

`Interrupt` is a signal: it sets the flag and cuts the wait of one thread, or of
none, since the system gives it to any thread. It cuts `zstr_recv` of main and
the waits inside `zactor_destroy` (of main for the server, of the server for the puller
and for the watchdog's thread), whose owner then goes on without the actor
(`left`). There may be any number of signals. The watchdog asks every
60 ms (`zpoller_wait` takes `WATCHDOG_INTERVAL` in milliseconds), hence at any
moment. The contract of czmq, as far as the code relies on it, is stated at the
head of the module. `configure()` and `onPoll()`
return when the database lets them (`ServerLoads`), which may be never.

`TotalPowerProperties.tla` states what `TotalPowerConfiguration` guarantees;
the other modules hold their properties at their end. `MCTotalPower.tla`,
`MCTPowerServer.tla` and `MCCalcPower.tla` hold the values of the TLC instances;
the modules named `...Proofs` hold the proofs: `TotalPowerProofs.tla` and
`TotalsProofs.tla` of the totals, `TopologyProofs.tla` of the reloads,
`TPowerServerProofs.tla` of the timers and `FreshProofs.tla` of what a reader of the
SHM sees, `CalcPowerProofs.tla` and `AgentLifecycleProofs.tla` of the modules they
are named for. `FiniteSums.tla` has the facts about sums over finite sets, and about
least and minimal elements, that these proofs share.

Operators called mutants in a comment are not used by any specification. Each
is a definition with a plausible bug in it; putting it in the place of the
definition makes TLC find one property violated, which shows that the property
tells something about the code (`PROJECT.json`, "mutants").

## What is checked

| run | instance | shows |
| --- | --- | --- |
| `rack_totals` | one rack, one device, values 0 and 2, writes that fail, crashes, a clock that is set back by 2, 5 seconds | after every step the total is worth the sum of the measurements (`TotalsTrack`), also when its date goes back; a total not marked as changed is in the SHM (`NoLostUpdate`), whichever writes fail; a poll leaves nothing in the SHM that is older than the repeat interval (`PollRefreshes`) and no stale total (`StaleTotalsExpire`) |
| `server_totals` | the two threads with their timers, one rack, two devices that report when they like, values 0 and 1 with `Epsilon` 1, 9 seconds | a total that moves twice in a second really is held back: what is unsent moved in the second of its last sending (`HeldBackOneSecond`) and is sent by the next pull (`ShownInSHM`); while the devices report, a total in the SHM is less old than a repeat and a pull interval, which is within its TTL (`FreshInSHM`); it is the sum of what the SHM has of the devices, or younger than a pull interval (`TotalInSHMAddsUp`); `NoLostUpdate` and `TotalsTrack` with two devices |
| `topology` | two racks and a data center, one device that they share and pass on, relevant and irrelevant messages, a database that changes while it is read, exceptions, crashes, 4 seconds | `NoLostReconfiguration`, `ReloadIsSoon`, `ReloadIsKept`, `ReverseMapsAgree`, `KnownTotalsAreFed` |
| `dc_totals` | one data center, two devices with one to three output phases, 2 seconds | a poll brings the default total, here made of the phases, and the outputs up to date (`PollRecomputesAll`), with mixed phases, missing phases and purged measurements; whatever comes or goes first, the second and the third phase get no new total while the devices differ in their number of phases (`UpperPhasesMatch`), counted apart from the code's tests |
| `server_timers` | the two threads with their timers, one rack with a device or without, messages about it of which some cannot be decoded, values 0, 1 and a text, 9 seconds | polls are less than two repeat intervals apart (`PollsKeepComing`); a measurement is kept no longer than its time to live and two repeat intervals (`OldMeasurementsGo`); a reload starts at most a second and a pull interval late (`ReloadsInTime`); reloads are those of the abstract timer (`IsReloadTimer`) |
| `life_cycle` | the four threads, clients that fail to connect or to subscribe, any number of signals to any thread, a broker that goes away, a database that may never answer | no thread outlives what it works on, unless a signal cut the very wait for it (`ThreadsNest`), which the first signal never does to the puller (`OneSignalIsSafe`); main never waits for a server that ended without a word (`MainIsTold`); the puller, which never reads its pipe, is only ended when the flag is set (`PullerStopIsInterrupted`); the agent ends when it is told to (`StopsWhenTold`), when the broker is gone (`AWOLEndsAgent`) and when its server has ended (`EndsTogether`) |
| `calc_power` | every container of three devices of three types (and the empty one), every set of links among them and one asset outside | the search is right (`FindsFirstSmart`), leaves a device behind for good in every round unless there is a circle (`EveryLevelIsLeft`), and then ends (`EndsUnlessLoop`) |

Five runs show where the code does not do what a document or comment says; each
is a finding in `PROJECT.json`, with the quoted line.

| run | shows |
| --- | --- |
| `silent_database_errors` | a select that reports an error by its status counts as a successful reload of an empty topology, and nothing brings another |
| `mixed_phases` | tp_unit.h:140 has a null total for incompatible phases; when the first device has two output phases and a later one has a single phase, the first phase of the data center is their sum |
| `power_loop` | power links in a circle of devices that are not smart: the search never returns |
| `premature_end` | when `mlm_client_new` fails the server returns without "$TERM"; main takes the exit signal for an empty message and waits for ever, without a server |
| `quiet_stream` | watchdog.h:28 has the watchdog end an agent whose broker is gone; it ends one whose broker is there when no asset message comes for ten minutes |

Three more sentences of the repository's README.md are not what the code does. Line
49 has a timer that runs each minute; it runs after the poll interval, five minutes
when nothing else is due. Line 100 has "its power metrics" recomputed for a metric;
`processMetric` recomputes the one of the metric's own quantity, so a data center's
`realpower.default` that falls back on the output phases waits for the next poll
(`PollRecomputesAll`; `EveryTotalTracks` is not an invariant). Line 105 has asset
messages postpone a reload; they do not, which is why asset traffic cannot starve
it (`ReloadIsKept` and `IsReloadTimer`, checked and proved, say the opposite of that
line).

### Bounds

The durations keep the order of the real ones, `PollingInterval` (5 s) <
`ReconfigDelay` (60 s) < `RepeatAfter` (300 s) < `TTL` (360 s), with small
numbers; `PullInterval` (30 s) lies between the first two. In `rack_totals` the first
two are both 1: no reload happens there while the process lives. `MaxNow` bounds the
clock: it is past the first time at which a total is repeated, a measurement is
dropped and a total expires (`rack_totals`), past a reload delay (`topology`), so
that a reload is scheduled, runs, fails and is scheduled again, and past the two
repeat intervals, and the repeat and pull interval, that the bounds of `server_timers`
and `server_totals` speak of. The runs divide what would be too many states at once:
`server_totals` has two devices, which a total needs to move twice in a second, and a
topology that stays; `server_timers` has the messages and the reloads, with one device;
`topology` has one device, as the maps treat every device by itself, two racks to fight for it, and a data center that has
it as well; `dc_totals` has the output phases only, so that the default total is the
one that falls back on them. `MaxInbox` bounds the unread messages: one is enough for
a change to be unheard of, and more come one after the other. Values are few because
totals only tell apart "the same", "within Epsilon" and "further than Epsilon"; two
small moves in the same direction (0, 1, 2 with `Epsilon` 1) are sums of two devices
in `server_totals`. `UintRange` is larger than any age and makes an age that went
negative a huge one.

Deadlock checking is on in every run of `TotalPowerConfiguration`, whose process can
always be polled or crash, and in `server_timers`, where messages keep coming.
`server_totals` has no messages, so there the end of the clock leaves both threads
asleep for good; `CalcPower` is a function that ends, and the agent of
`AgentLifecycle` ends as well.

`AgentLifecycle` has no bound: pipes hold each message once, as the code sends
it once, and `quiet` stops at the limit. `Limit` is 2 seconds for 600, which
tells a stream that was just heard, one that was quiet for a while and one that
was quiet for too long apart; nothing in the code looks at the time between.
`Failures` are the calls to malamute that can fail; `premature_end` adds the
one that the other runs leave out.

### Fairness

`TotalPowerConfiguration` and `TPowerServer` have none: their checked properties
are safety properties, and those of `TPowerServer` bound times, since time passes
only when both threads sleep, so "in time" is part of them. `CalcPower` has weak
fairness of its next step, because the function runs on one thread, takes no
lock, and a select either returns or throws.

`AgentLifecycle` has weak fairness of each of the four threads and of the clock:
the system runs every thread that can go on, and every wait in the module ends
for a reason the module has (a message, a signal, a timeout of `zpoller_wait`).
It has none of `ServerLoads`, because nothing limits the time of a select, so
`StopsWhenTold` and `AWOLEndsAgent` except an agent that waits for the database for
ever (`[]Loading`; one that polls and gets its answers has to end). They and
`EndsTogether` also except the state `Deaf`, which the code can be in and, but for
another signal, stays in. There is no fairness of `Stop` and `GoAWOL`, and none of
the choice between the ends of a wait: a broker that is there need not send anything.

## What is proved

TLAPS checks these for every number of racks, data centers and devices, every
topology, and all values of the durations that satisfy the named assumptions
(`UintRangeAssumption`, `UnitAssumption`, `ConfigurationAssumption`,
`ServerAssumption`, `CalcPowerAssumption`, `LifecycleAssumption`,
`NoMetricAssumption`: no metric is not a metric). A theorem that needs more
names it as a premise.

| theorem | says | argument |
| --- | --- | --- |
| `TypeCorrect` | `[]TypeOK` | inductive as it stands; the timeout is positive because the least of a set of naturals exists and 0 is not in it |
| `NoLostUpdateHolds` | `[]NoLostUpdate` | inductive, slot by slot: calculating marks what it changes, only a write that succeeded clears the mark, a purge only forgets |
| `HeldBackHolds` | `[]HeldBackOneSecond` if no write fails | inductive, slot by slot: every calculation is followed by a sending in the same step, and a total that is changed and not sent was sent this second |
| `NoLostReconfigurationHolds` | `[]NoLostReconfiguration` if no read fails silently and every message can be decoded | strengthened by `RacksAreCurrent`, between the halves of `configure()` the racks are current or a message about them is unread, and by `TornIsAnnounced`: a change while a half reads is, too |
| `ReverseMapsAgreeHolds` | `[]ReverseMapsAgree` | strengthened per map (`MapsAgree`); a reverse map made from what the owners were loaded with agrees with them (`ReverseMapAgrees`) |
| `ReloadIsSoonHolds` | `ReloadIsSoon`, however the clock is set | with `TypeOK` and the timeout before the first poll (`InitialTimeout`); the poll interval is at most the time to the reload plus one second (`GetPollIntervalPending`) |
| `ReloadIsKeptHolds` | `ReloadIsKept` | strengthened by "nothing is pending before the first configure()" |
| `KnownTotalsAreFedHolds` | `[]KnownTotalsAreFed` | strengthened by `MeasuresAreFed` (a unit only has measurements of devices the maps send to it) and `CentersAreUnread`; a total that can be computed has a measurement of every device (`TotalledIsMeasured`) |
| `ServerImplements` | `ServerSpec => Spec` | the server's steps are steps of `Next` or leave its variables alone; that a metric is no older than its TTL when it is handed over takes `ThreadsInv` |
| `PollsKeepComingHolds` | `[]PollsKeepComing` | `TimerInv`: the server goes to sleep less than a repeat interval after a poll, and sleeps for a repeat interval at most |
| `ReloadsInTimeHolds` | `[]ReloadsInTime` | `PendingInv`: the timeout counts down to the reload from the last poll (so the comparison succeeds) and from the last pull (so the sleep is not much too long) |
| `OldMeasurementsGoHolds` | `[]OldMeasurementsGo` | `MeasuresInv`: what is stored was not old at the last poll; with `PollsKeepComing` |
| `ServerIsReloadTimer` | `ServerSpec => IsReloadTimer` | each step maps to one of the timer or to a stutter (`ReloadTimerStep`): `DueInv`, a reload that has begun is due until it is through, and `ReloadsInTime` for the clock |
| `OldTotalsGoHolds` | `[]OldTotalsGo`: a total is used for no longer than its TTL and two repeat intervals | `AgesInv`, the same of totals: calculating dates them, only a poll forgets them |
| `FreshInSHMHolds` | `[]FreshInSHM` if no write fails and all values are numbers | `FreshInv`: a known total was sent when it was dated (`AllSent`); what is stored came from the SHM, which has something at least as new (`AllCovered`); so while the devices report every pull hands over a metric that renews the total, and a total that is not recent has one in the batch (`RenewedByPull`) |
| `ShownInSHMHolds` | `[]ShownInSHM` if no write fails and all values are numbers | `RenewedByPull` also says it of a total that is held back since before the pull; with `NoLostUpdate` for the ones that are not |
| `TotalInSHMAddsUpHolds` | `[]TotalInSHMAddsUp` if no write fails and all values are numbers | `CurrentInv`: what is stored and not old is what the SHM has, or has a newer one in the batch, or was overtaken since the last pull (`UnitsAreCurrent`); with `ShownInSHM`, `TotalsTrack`, and `TotalIsSum`, that the total of a rack falls back on nothing when every device has a value |
| `TotalsTrackHolds` | `[]TotalsTrack` | inductive with `AllNumbers`: every calculation makes a total worth the sum (`CalculateWorth`), and a step that does not calculate it changes none of its measurements, as totals of racks and of input phases depend on one quantity |
| `PollRecomputesAllHolds` | `PollRecomputesAll` | the same of every total, since a poll calculates them all from measurements it has purged |
| `UpperPhasesMatchHolds` | `UpperPhasesMatch` | `UpperTotal`: if the second or third phase can be totalled then every device has it, and the first device's number of phases decides whether a third is wanted; a total that moves in a step was calculated from the measurements of that step (`CalculateMoves`), or was forgotten |
| `TotalsAreNumbers` | `[]AllNumbers`: a known total is a number, which `TypeOK` leaves open | with the same invariant: what is summed up has no NaN (`SumOrNaNType`), and a sum of integers is one (`SumType` of `FiniteSums`, with a minimal counterexample in place of an induction over the set, since the induction theorems of the library take an operator) |
| `PollRefreshesHolds` | `PollRefreshes` if `1 <= MaxNow` and `MaxNow + RepeatAfter < UintRange` | `DatesInv`: no date is past the bound of the clock, so an age that went negative is huge and the total is sent; with `NoLostUpdate` for the ones that are not |
| `StaleTotalsExpireHolds` | `StaleTotalsExpire` if `1 <= MaxNow < UintRange` | `DatesInv` again: what a poll keeps is no older than its TTL, also after the clock was set back |
| `CalcPowerTypeCorrect` | `[]TypeOK` of the search | inductive |
| `FindsFirstSmartHolds` | `[]FindsFirstSmart` for any container and links, circles included | `Searching`: what is found already, and what can be reached from the border, are what could be reached at the start; one round keeps that by `NextLevel` |
| `EveryLevelIsLeftHolds` | `EveryLevelIsLeft`: so a search without a circle makes no more rounds than there are devices | what can be reached from the new border could be reached from the old one; if all of it still could, every device of it would be fed by another one of it, and a minimal set of such devices is a circle (`LeavesOrCircles`) |
| `LoopsNeverEnd` | with a circle of devices that are not smart before it, the search never ends: the finding of `power_loop` for any container | `OnTheWay`: the circle can be reached from every border (`CircleStays`), so no border is empty |
| `LifecycleTypeCorrect`, `ThreadsNestHolds`, `PullerStopIsInterruptedHolds` | three invariants of `AgentLifecycle`, for every limit, any set of failing calls and any number of signals | one inductive invariant, `LifecycleInv`: what is in the pipes fits where the actors are (`Pipes`), who is told to end was interrupted or gave up (`Signals`), and nobody runs before it was made (`Making`) |
| `OneSignalIsSafeHolds` | `OneSignalIsSafe` | from the same invariant: the server is in that wait only when the flag is set |
| `MainIsToldHolds` | `[]MainIsTold` if `mlm_client_new` does not fail | `MainWillKnow`: while main may still wait, a server that gives up has told it, or the flag is set, and main has taken neither yet |

The premises on `MaxNow` say that the clock does not wrap around. That no write
fails is a premise where the property speaks of what is in the SHM and when:
a store that refuses every write can be given no bound. That `mlm_client_new`
does not fail is the premise that `premature_end` shows to be needed, and that no
read fails silently the one that `silent_database_errors` does; a message that cannot
be decoded is lost to the agent, so a change it tells of is too.

Only model-checked: the liveness properties `EndsUnlessLoop`, `StopsWhenTold`,
`AWOLEndsAgent` and `EndsTogether`, as liveness under fairness is out of reach of
the provers too. What a proof can say of them is their safety half, and that is
proved: a search makes progress in every round (`EveryLevelIsLeft`), nobody waits
for a message that is not to come (`MainIsTold`) but in the state `Deaf`, and the
puller is told to end only when it can (`PullerStopIsInterrupted`). Every other property of
the passing runs is proved.

## What is not modelled

* Wording, logging, the text of topics and of values, infinite values: a value is a
  number, `NaN`, or something that `strtod` refuses.
* The rounding of sums of doubles and of `std::to_string`.
* `TPUnit::get` and `calculate(vector)`, which nothing calls, and
  `devicesInUnknownState`, which only feeds a log line.
* The inside of czmq: `AgentLifecycle` has its contract only. A signal that cuts the
  short waits inside `zactor_new` is not modelled.
* What a puller that was left behind does with a configuration that is no more:
  undefined behaviour, of which `ThreadsNest` and `OneSignalIsSafe` say when it can
  come about. A watchdog's thread that was left may find any last tick.
* A command to the server or to the watchdog other than "$TERM" (nothing sends
  one), and the SIGKILL after a SIGTERM that was refused (a process may always
  signal itself).
* The restart by the service manager: `TotalPowerConfiguration` starts again
  after a crash at any time; `AgentLifecycle` ends.
* Whether the search of calc_power keeps `configure()` from ending inside the
  server: `AgentLifecycle` counts it as a database that does not answer.
* Packaging, build files, the unit test.

## The plan

Done: every part of the system that has a state, the abstract reload timer and
its refinement, the life cycle, and the proofs of every safety property that a
run checks.

Worth doing next:

1. An abstract specification of the totals themselves, as `ReloadTimer` is of
   the reloads: a store whose totals follow the measurements within a pull
   interval. `TotalInSHMAddsUp`, `FreshInSHM` and `OldTotalsGo` are its parts.
2. How long a change takes when writes fail for a bounded time: `NoLostUpdate` and
   `PollRefreshes` say that the next poll catches up, `PollsKeepComing` when that is.
3. How far the default total of a data center can be from its output phases
   between two polls (a poll brings it back, `PollRecomputesAll`).
