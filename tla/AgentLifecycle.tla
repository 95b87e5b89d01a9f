---------------------------- MODULE AgentLifecycle ----------------------------
(***************************************************************************)
(* How the agent starts and ends: main (src/src/fty_metric_tpower.cc), the *)
(* server and the puller (fty_metric_tpower_server.cc) and the watchdog    *)
(* (watchdog.cc), four threads that only share zsys_interrupted, the time  *)
(* of the watchdog's last tick and the pipes of their actors.              *)
(*                                                                         *)
(* An actor of czmq is a thread with a pipe to the thread that made it.    *)
(* zactor_new returns when the actor has told that it runs; when the actor *)
(* returns, first an exit signal is sent, then its side of the pipe is     *)
(* closed; zactor_destroy sends "$TERM", does not wait if the other side   *)
(* is closed already, and otherwise discards what it receives up to the    *)
(* exit signal.  A signal of the system sets zsys_interrupted and cuts the *)
(* wait of one thread, whichever the system picks: zstr_recv returns NULL, *)
(* and zactor_destroy returns though the actor has not ended.  Only the    *)
(* short waits inside zactor_new are taken to last to their end.           *)
(***************************************************************************)
EXTENDS Naturals

CONSTANTS
  Limit,      \* WATCHDOG_LIMIT, 600 s
  Unset,      \* a time that was not set
  Failures    \* the calls of the server to malamute that can fail

ASSUME LifecycleAssumption ==
  /\ Limit \in Nat \ {0}
  /\ Unset \notin Nat
  /\ Failures \subseteq {"mlm_client_new", "mlm_client_connect",
                         "mlm_client_set_consumer"}

VARIABLES
  main,         \* where main is
  at,           \* where each actor is
  woke,         \* why the server's zpoller_wait returned
  down,         \* "$TERM" of the owner is in the pipe of the actor
  up,           \* what the actor told its owner, not yet received
  interrupted,  \* zsys_interrupted
  quiet,        \* seconds since the last tick, up to Limit; Unset before one
  left,         \* the actors whose zactor_destroy was cut by a signal
  malamute      \* external, the broker: "up" or "awol"

vars == <<main, at, woke, down, up, interrupted, quiet, left, malamute>>

Actor == {"server", "puller", "watchdog"}

\* What an actor tells its owner, in this order.
Told == {"$TERM", "exit"}

MainPlaces == {"options", "new", "handshake", "test", "recv", "destroy", "join",
               "ended"}

Places == [server   |-> {"none", "start", "connect", "configure", "test", "wait",
                         "poll", "handle", "stop", "joinPuller", "cleanup",
                         "joinWatchdog", "closing", "ended"},
           puller   |-> {"none", "test", "wait", "closing", "ended"},
           watchdog |-> {"none", "test", "wait", "kill", "closing", "ended"}]

Place == UNION {Places[a] : a \in Actor}

-----------------------------------------------------------------------------
(* Actors and signals.                                                     *)

Goes(a, place) == at' = [at EXCEPT ![a] = place]

\* The actor returns: the exit signal,
Ends(a) ==
  /\ at' = [at EXCEPT ![a] = "closing"]
  /\ up' = [up EXCEPT ![a] = @ \cup {"exit"}]

\* and then its side of the pipe is closed.
ClosePipe(a) ==
  /\ at[a] = "closing"
  /\ Goes(a, "ended")
  /\ UNCHANGED <<main, woke, down, up, interrupted, quiet, left, malamute>>

SendTerm(a) == down' = [down EXCEPT ![a] = (at[a] # "ended")]

HasExited(a) == "exit" \in up[a]

Returned(a) == at[a] \in {"closing", "ended"}

Running(a) == at[a] # "none" /\ ~ Returned(a)

\* SIGTERM, with the actors where `places` has them.  It wakes one of the threads
\* that wait for a message, or none: the system gives it to another thread, or
\* the thread was only about to wait.
Interrupt(places) ==
  /\ interrupted' = TRUE
  /\ \/ at' = places /\ UNCHANGED <<main, up, left>>
     \/ /\ main = "recv"
        /\ main' = "destroy"
        /\ at' = places /\ UNCHANGED <<up, left>>
     \/ /\ main = "join"
        /\ main' = "ended" /\ left' = left \cup {"server"}
        /\ at' = places /\ UNCHANGED up
     \/ /\ at["server"] = "joinPuller"
        /\ at' = [places EXCEPT !["server"] = "cleanup"]
        /\ left' = left \cup {"puller"}
        /\ UNCHANGED <<main, up>>
     \/ /\ at["server"] = "joinWatchdog"
        /\ at' = [places EXCEPT !["server"] = "closing"]
        /\ up' = [up EXCEPT !["server"] = @ \cup {"exit"}]
        /\ left' = left \cup {"watchdog"}
        /\ UNCHANGED main

-----------------------------------------------------------------------------
(* main.                                                                   *)

\* --help, or an unknown option, ends the program.
GetOptions ==
  /\ main = "options"
  /\ main' \in {"new", "ended"}
  /\ UNCHANGED <<at, woke, down, up, interrupted, quiet, left, malamute>>

\* zactor_new may fail, then main exits.
NewServer ==
  /\ main = "new"
  /\ \/ main' = "handshake" /\ Goes("server", "start")
     \/ main' = "ended" /\ UNCHANGED at
  /\ UNCHANGED <<woke, down, up, interrupted, quiet, left, malamute>>

ServerIsNew ==
  /\ main = "handshake"
  /\ at["server"] # "start"
  /\ main' = "test"
  /\ UNCHANGED <<at, woke, down, up, interrupted, quiet, left, malamute>>

MainTest ==
  /\ main = "test"
  /\ main' = IF interrupted THEN "destroy" ELSE "recv"
  /\ UNCHANGED <<at, woke, down, up, interrupted, quiet, left, malamute>>

\* zstr_recv returns "actor returned prematurely",
ReceiveTerm ==
  /\ main = "recv"
  /\ "$TERM" \in up["server"]
  /\ up' = [up EXCEPT !["server"] = @ \ {"$TERM"}]
  /\ main' = "destroy"
  /\ UNCHANGED <<at, woke, down, interrupted, quiet, left, malamute>>

\* Mutant: main waits for the next message without a look at the flag.
ReceiveExitOn ==
  /\ main = "recv"
  /\ up["server"] = {"exit"}
  /\ up' = [up EXCEPT !["server"] = {}]
  /\ main' = "recv"
  /\ UNCHANGED <<at, woke, down, interrupted, quiet, left, malamute>>

\* or the exit signal, which it takes for an empty string.
ReceiveExit ==
  /\ main = "recv"
  /\ up["server"] = {"exit"}
  /\ up' = [up EXCEPT !["server"] = {}]
  /\ main' = "test"
  /\ UNCHANGED <<at, woke, down, interrupted, quiet, left, malamute>>

\* Mutant: it waits for a server that has ended before, too.
DestroyAlways ==
  /\ main = "destroy"
  /\ SendTerm("server")
  /\ main' = "join"
  /\ UNCHANGED <<at, woke, up, interrupted, quiet, left, malamute>>

DestroyServer ==
  /\ main = "destroy"
  /\ SendTerm("server")
  /\ main' = IF at["server"] = "ended" THEN "ended" ELSE "join"
  /\ UNCHANGED <<at, woke, up, interrupted, quiet, left, malamute>>

JoinServer ==
  /\ main = "join"
  /\ HasExited("server")
  /\ up' = [up EXCEPT !["server"] = {}]
  /\ main' = "ended"
  /\ UNCHANGED <<at, woke, down, interrupted, quiet, left, malamute>>

Main ==
  \/ GetOptions \/ NewServer \/ ServerIsNew
  \/ MainTest \/ ReceiveTerm \/ ReceiveExit \/ DestroyServer \/ JoinServer

-----------------------------------------------------------------------------
(* The server.                                                             *)

\* Mutant: the thread runs before the first tick.
StartUnticked ==
  /\ at["server"] = "start"
  /\ at' = [at EXCEPT !["server"] = "connect", !["watchdog"] = "test"]
  /\ UNCHANGED <<main, woke, down, up, interrupted, quiet, left, malamute>>

\* Watchdog::start(): a tick, then the thread.  Then zactor_new of main returns.
StartWatchdog ==
  /\ at["server"] = "start"
  /\ quiet' = 0
  /\ at' = [at EXCEPT !["server"] = "connect", !["watchdog"] = "test"]
  /\ UNCHANGED <<main, woke, down, up, interrupted, left, malamute>>

\* Mutant: no failure is told to main.
FailSilently(failed) ==
  /\ at["server"] = "connect"
  /\ Goes("server", "cleanup")
  /\ UNCHANGED <<main, woke, down, up, interrupted, quiet, left, malamute>>

\* The early returns: main is told, except of a client that cannot be made.
Fail(failed) ==
  /\ at["server"] = "connect"
  /\ up' = IF failed = "mlm_client_new" THEN up
           ELSE [up EXCEPT !["server"] = @ \cup {"$TERM"}]
  /\ Goes("server", "cleanup")
  /\ UNCHANGED <<main, woke, down, interrupted, quiet, left, malamute>>

Connect ==
  /\ at["server"] = "connect"
  /\ malamute = "up"
  /\ Goes("server", "configure")
  /\ UNCHANGED <<main, woke, down, up, interrupted, quiet, left, malamute>>

\* configure() has returned, and the puller is started.
StartPuller ==
  /\ at["server"] = "configure"
  /\ at' = [at EXCEPT !["server"] = "test", !["puller"] = "test"]
  /\ UNCHANGED <<main, woke, down, up, interrupted, quiet, left, malamute>>

ServerTest ==
  /\ at["server"] = "test"
  /\ Goes("server", IF interrupted THEN "stop" ELSE "wait")
  /\ UNCHANGED <<main, woke, down, up, interrupted, quiet, left, malamute>>

\* zpoller_wait returns; the time for a poll may have come.
ServerWakes ==
  /\ at["server"] = "wait"
  /\ \/ woke' = "expired" /\ ~ down["server"]
     \/ woke' = "terminated" /\ interrupted
     \/ woke' = "command" /\ down["server"]
     \/ woke' = "message" /\ malamute = "up"
  /\ \/ Goes("server", "poll")
     \/ Goes("server", "handle")
  /\ UNCHANGED <<main, down, up, interrupted, quiet, left, malamute>>

\* onPoll() has returned.
ServerPolled ==
  /\ at["server"] = "poll"
  /\ Goes("server", "handle")
  /\ UNCHANGED <<main, woke, down, up, interrupted, quiet, left, malamute>>

HandleExpired ==
  /\ at["server"] = "handle"
  /\ woke = "expired"
  /\ Goes("server", "test")
  /\ UNCHANGED <<main, woke, down, up, interrupted, quiet, left, malamute>>

\* The poller was terminated, or "$TERM" was received.
HandleTerm ==
  /\ at["server"] = "handle"
  /\ woke \in {"terminated", "command"}
  /\ Goes("server", "stop")
  /\ down' = IF woke = "command" THEN [down EXCEPT !["server"] = FALSE] ELSE down
  /\ UNCHANGED <<main, woke, up, interrupted, quiet, left, malamute>>

\* Mutant: a message that cannot be received or decoded ends the loop.
HandleOrBreak ==
  /\ at["server"] = "handle"
  /\ woke = "message"
  /\ \/ quiet' = 0 /\ Goes("server", "test")
     \/ UNCHANGED quiet /\ Goes("server", "stop")
  /\ UNCHANGED <<main, woke, down, up, interrupted, left, malamute>>

\* A message of the ASSETS stream; only one that is a fty_proto ticks.
HandleMessage ==
  /\ at["server"] = "handle"
  /\ woke = "message"
  /\ quiet' \in {0, quiet}
  /\ Goes("server", "test")
  /\ UNCHANGED <<main, woke, down, up, interrupted, left, malamute>>

\* Mutant: the puller is told to end, and not waited for.
StopPullerOnly ==
  /\ at["server"] = "stop"
  /\ SendTerm("puller")
  /\ Goes("server", "cleanup")
  /\ UNCHANGED <<main, woke, up, interrupted, quiet, left, malamute>>

StopPuller ==
  /\ at["server"] = "stop"
  /\ SendTerm("puller")
  /\ Goes("server", IF at["puller"] = "ended" THEN "cleanup" ELSE "joinPuller")
  /\ UNCHANGED <<main, woke, up, interrupted, quiet, left, malamute>>

JoinPuller ==
  /\ at["server"] = "joinPuller"
  /\ HasExited("puller")
  /\ up' = [up EXCEPT !["puller"] = {}]
  /\ Goes("server", "cleanup")
  /\ UNCHANGED <<main, woke, down, interrupted, quiet, left, malamute>>

\* The destructors: the configuration, the poller, the client, then ~Watchdog().
Cleanup ==
  /\ at["server"] = "cleanup"
  /\ SendTerm("watchdog")
  /\ IF at["watchdog"] = "ended" THEN Ends("server")
     ELSE Goes("server", "joinWatchdog") /\ UNCHANGED up
  /\ UNCHANGED <<main, woke, interrupted, quiet, left, malamute>>

JoinWatchdog ==
  /\ at["server"] = "joinWatchdog"
  /\ HasExited("watchdog")
  /\ at' = [at EXCEPT !["server"] = "closing"]
  /\ up' = [up EXCEPT !["watchdog"] = {}, !["server"] = @ \cup {"exit"}]
  /\ UNCHANGED <<main, woke, down, interrupted, quiet, left, malamute>>

\* What takes as long as the database does.
ServerLoads == StartPuller \/ ServerPolled

Server ==
  \/ StartWatchdog \/ Connect \/ (\E failed \in Failures : Fail(failed))
  \/ ServerTest \/ ServerWakes
  \/ HandleExpired \/ HandleTerm \/ HandleMessage
  \/ StopPuller \/ JoinPuller \/ Cleanup \/ JoinWatchdog \/ ClosePipe("server")

-----------------------------------------------------------------------------
(* The puller.                                                             *)

PullerTest ==
  /\ at["puller"] = "test"
  /\ IF interrupted THEN Ends("puller") ELSE Goes("puller", "wait") /\ UNCHANGED up
  /\ UNCHANGED <<main, woke, down, interrupted, quiet, left, malamute>>

\* zpoller_wait returns nothing, or the pipe, which is never read: then it will
\* return at once the next time as well.
PullerWakes ==
  /\ at["puller"] = "wait"
  /\ \/ interrupted /\ Ends("puller")
     \/ (~ interrupted \/ down["puller"]) /\ Goes("puller", "test") /\ UNCHANGED up
  /\ UNCHANGED <<main, woke, down, interrupted, quiet, left, malamute>>

Puller == PullerTest \/ PullerWakes \/ ClosePipe("puller")

-----------------------------------------------------------------------------
(* The watchdog.                                                           *)

WatchdogTest ==
  /\ at["watchdog"] = "test"
  /\ IF interrupted THEN Ends("watchdog")
     ELSE Goes("watchdog", "wait") /\ UNCHANGED up
  /\ UNCHANGED <<main, woke, down, interrupted, quiet, left, malamute>>

\* Mutant: off by one.
CheckLate == quiet <= Limit

\* check(): last_tick + WATCHDOG_LIMIT > now
Check == quiet < Limit

\* A thread that was left reads the last tick of an object that is no more.
WatchdogWakes ==
  /\ at["watchdog"] = "wait"
  /\ \/ down["watchdog"] /\ Ends("watchdog")
     \/ /\ ~ down["watchdog"] \/ interrupted
        /\ \/ Goes("watchdog", IF Check THEN "test" ELSE "kill")
           \/ "watchdog" \in left /\ \E place \in {"test", "kill"} : Goes("watchdog", place)
        /\ UNCHANGED up
  /\ UNCHANGED <<main, woke, down, interrupted, quiet, left, malamute>>

\* "watchdog expired": SIGTERM to the own process, which is not refused.
Kill ==
  /\ at["watchdog"] = "kill"
  /\ Interrupt([at EXCEPT !["watchdog"] = "test"])
  /\ UNCHANGED <<woke, down, quiet, malamute>>

WatchdogThread == WatchdogTest \/ WatchdogWakes \/ Kill \/ ClosePipe("watchdog")

-----------------------------------------------------------------------------
(* The environment.                                                        *)

\* The agent is told to stop, maybe again.
Stop ==
  /\ main \notin {"options", "new", "ended"}
  /\ Interrupt(at)
  /\ UNCHANGED <<woke, down, quiet, malamute>>

GoAWOL ==
  /\ malamute = "up"
  /\ malamute' = "awol"
  /\ UNCHANGED <<main, at, woke, down, up, interrupted, quiet, left>>

TimePasses ==
  /\ quiet # Unset /\ quiet < Limit
  /\ quiet' = quiet + 1
  /\ UNCHANGED <<main, at, woke, down, up, interrupted, left, malamute>>

-----------------------------------------------------------------------------
Init ==
  /\ main = "options"
  /\ at = [a \in Actor |-> "none"]
  /\ woke = "expired"
  /\ down = [a \in Actor |-> FALSE]
  /\ up = [a \in Actor |-> {}]
  /\ interrupted = FALSE
  /\ quiet = Unset
  /\ left = {}
  /\ malamute \in {"up", "awol"}

Next ==
  \/ Main \/ Server \/ ServerLoads \/ Puller \/ WatchdogThread
  \/ Stop \/ GoAWOL \/ TimePasses

\* A thread that can go on does, and time passes; the database need not answer.
Fairness ==
  /\ WF_vars(Main) /\ WF_vars(Server) /\ WF_vars(Puller)
  /\ WF_vars(WatchdogThread) /\ WF_vars(TimePasses)

Spec == Init /\ [][Next]_vars /\ Fairness

-----------------------------------------------------------------------------
(* Properties.                                                             *)

\* The type of every variable; the watchdog's thread never reads a last tick
\* that was not set, which the constructor leaves open.
TypeOK ==
  /\ main \in MainPlaces
  /\ at \in [Actor -> Place]
  /\ \A a \in Actor : at[a] \in Places[a]
  /\ woke \in {"expired", "terminated", "command", "message"}
  /\ down \in [Actor -> BOOLEAN]
  /\ up \in [Actor -> SUBSET Told]
  /\ interrupted \in BOOLEAN
  /\ quiet \in (0 .. Limit) \cup {Unset}
  /\ at["watchdog"] # "none" => quiet # Unset
  /\ left \subseteq Actor
  /\ malamute \in {"up", "awol"}

\* No thread outlives what it works on: the configuration, which the puller
\* uses and the server destroys, the Watchdog object, and the process
\* (zactor_destroy of the server and of main, ~Watchdog).  The one way to leave
\* a thread behind is a signal in the very wait for it.
ThreadsNest ==
  /\ Running("puller") => \/ at["server"] \in {"test", "wait", "poll", "handle",
                                               "stop", "joinPuller"}
                          \/ "puller" \in left
  /\ Running("watchdog") => \/ Running("server") /\ at["server"] # "start"
                            \/ "watchdog" \in left
  /\ main = "ended" => \A a \in Actor : Running(a) => left # {}

\* main does not wait for a message of a server that has returned and left none:
\* one that gives up has told main, and any other ends after a signal, so main
\* sees the flag when it has taken the exit signal (main, the early returns).
MainIsTold ==
  main = "recv" /\ Returned("server") => up["server"] # {}

\* The puller is stopped only when zsys_interrupted is set: it ends on the flag
\* alone, and "$TERM" by itself would keep it spinning for ever.
PullerStopIsInterrupted ==
  down["puller"] \/ at["server"] \in {"stop", "joinPuller"} => interrupted

\* One signal alone never makes the server destroy the configuration while the
\* puller may still use it: whatever ends the server's loop, it waits for the
\* puller only after an interruption, so that only a further one can cut that wait.
OneSignalIsSafe ==
  [][("puller" \in left') /\ ("puller" \notin left) => interrupted]_vars

\* The database does not answer, or the search of calc_power does not end.
Loading == at["server"] \in {"configure", "poll"}

\* main took the exit signal in its loop, and then its "$TERM" was still sent,
\* as the pipe was not closed yet: it waits for an exit signal that was before.
Deaf ==
  /\ main = "join"
  /\ Returned("server") /\ ~ HasExited("server")
  /\ down["server"]

\* An agent that is told to stop ends, wherever its threads are and whichever
\* of them the signal wakes, unless it waits for the database for ever, or main
\* for an exit signal it has had (main, the server, the puller, the watchdog).
StopsWhenTold == interrupted ~> (main = "ended" \/ Deaf \/ []Loading)

\* watchdog.h:28, "Band-aid for malamute going AWOL": then the agent ends, or is
\* in one of the same two waits, out of which one SIGTERM does not bring it.
AWOLEndsAgent == malamute = "awol" ~> (main = "ended" \/ Deaf \/ []Loading)

\* fty_metric_tpower.cc:103, "actor returned prematurely": then main ends too.
EndsTogether == Returned("server") ~> (main = "ended" \/ Deaf)

\* watchdog.h:28: the watchdog is for malamute going AWOL, so it ends no server
\* that waits for the messages of a malamute that is there.
OnlyAWOLKills == [][Kill /\ at["server"] = "wait" => malamute = "awol"]_vars

=============================================================================
