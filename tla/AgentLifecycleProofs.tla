-------------------------- MODULE AgentLifecycleProofs --------------------------
(***************************************************************************)
(* The safety of AgentLifecycle for every limit of the watchdog, and       *)
(* whichever calls to malamute fail.                                       *)
(***************************************************************************)
EXTENDS AgentLifecycle, TLAPS

USE DEF Actor

\* An exit signal comes from an actor that has returned, and before it is sent
\* only a server that could not connect has told anything.
GivesUp == at["server"] \in {"cleanup", "joinWatchdog", "closing", "ended"}

Pipes ==
  /\ \A a \in Actor : HasExited(a) => Returned(a)
  /\ ~ GivesUp => up["server"] = {}
  /\ \A a \in {"puller", "watchdog"} : ~ Returned(a) => up[a] = {}

\* Who tells the server to end, or will, was interrupted or has been told that
\* it gives up.
Signals ==
  /\ woke \in {"terminated", "command"} => interrupted
  /\ main \in {"destroy", "join"} \/ down["server"] => interrupted \/ GivesUp

\* No actor runs before its owner has made it.
Making ==
  /\ main \in {"options", "new"} => at["server"] = "none"
  /\ at["server"] \in {"none", "start"} => at["watchdog"] = "none"
  /\ at["server"] \in {"none", "start", "connect", "configure"} =>
       at["puller"] = "none"

LifecycleInv ==
  /\ TypeOK /\ Pipes /\ Signals /\ Making
  /\ ThreadsNest /\ PullerStopIsInterrupted

\* The initial states satisfy the invariant.
LEMMA InitLifecycle == Init => LifecycleInv
  <1> SUFFICES ASSUME Init PROVE LifecycleInv
    OBVIOUS
  <1>1. \A a \in Actor : at[a] = "none" /\ up[a] = {} /\ ~ down[a]
    BY DEF Init
  <1>2. TypeOK
    <2>1. at \in [Actor -> Place] /\ \A a \in Actor : at[a] \in Places[a]
      BY DEF Init, Place, Places
    <2> QED  BY <2>1 DEF Init, TypeOK, Told, MainPlaces
  <1>3. Pipes /\ Signals /\ Making
    BY <1>1 DEF Init, Pipes, Signals, Making, GivesUp, HasExited
  <1>4. ThreadsNest /\ PullerStopIsInterrupted
    BY <1>1 DEF Init, ThreadsNest, PullerStopIsInterrupted, Running, Returned
  <1> QED  BY <1>2, <1>3, <1>4 DEF LifecycleInv

\* A signal moves threads to places they have.
LEMMA InterruptTypes ==
  ASSUME TypeOK,
         NEW places \in [Actor -> Place], \A a \in Actor : places[a] \in Places[a],
         Interrupt(places)
  PROVE  /\ main' \in MainPlaces
         /\ at' \in [Actor -> Place] /\ \A a \in Actor : at'[a] \in Places[a]
         /\ \A a \in Actor : places[a] # "none" => at'[a] # "none"
         /\ at'["watchdog"] = places["watchdog"]
         /\ up' \in [Actor -> SUBSET Told]
         /\ interrupted' /\ left' \subseteq Actor
  <1>1. \A p \in {"cleanup", "closing"} :
          /\ [places EXCEPT !["server"] = p] \in [Actor -> Place]
          /\ \A a \in Actor : [places EXCEPT !["server"] = p][a] \in Places[a]
          /\ \A a \in Actor : places[a] # "none" =>
                              [places EXCEPT !["server"] = p][a] # "none"
          /\ [places EXCEPT !["server"] = p]["watchdog"] = places["watchdog"]
    BY DEF Place, Places
  <1>2. \E p \in {"cleanup", "closing"} :
          at' = places \/ at' = [places EXCEPT !["server"] = p]
    BY DEF Interrupt
  <1>3. /\ at' \in [Actor -> Place] /\ \A a \in Actor : at'[a] \in Places[a]
        /\ \A a \in Actor : places[a] # "none" => at'[a] # "none"
        /\ at'["watchdog"] = places["watchdog"]
    BY <1>1, <1>2
  <1>4. main' \in MainPlaces /\ up' \in [Actor -> SUBSET Told]
    BY DEF Interrupt, TypeOK, MainPlaces, Told
  <1>5. interrupted' /\ left' \subseteq Actor
    BY DEF Interrupt, TypeOK
  <1> QED  BY <1>3, <1>4, <1>5

\* The steps keep the invariant, part by part.
LEMMA TypeStep ==
  ASSUME LifecycleInv, [Next]_vars
  PROVE  TypeOK'
  <1> USE LifecycleAssumption DEF LifecycleInv, TypeOK, Pipes, GivesUp, HasExited, Told, Place, Places, MainPlaces, Returned
  <1>1. CASE GetOptions
    BY <1>1 DEF GetOptions
  <1>2. CASE NewServer
    BY <1>2 DEF NewServer, Goes
  <1>3. CASE ServerIsNew
    BY <1>3 DEF ServerIsNew
  <1>4. CASE MainTest
    BY <1>4 DEF MainTest
  <1>5. CASE ReceiveTerm
    BY <1>5 DEF ReceiveTerm
  <1>6. CASE ReceiveExit
    BY <1>6 DEF ReceiveExit
  <1>7. CASE DestroyServer
    BY <1>7 DEF DestroyServer, SendTerm
  <1>8. CASE JoinServer
    BY <1>8 DEF JoinServer
  <1>9. CASE StartWatchdog
    BY <1>9 DEF StartWatchdog
  <1>10. CASE Connect
    BY <1>10 DEF Connect, Goes
  <1>11. ASSUME NEW failed \in Failures, Fail(failed) PROVE TypeOK'
    BY <1>11 DEF Fail, Goes
  <1>12. CASE ServerTest
    BY <1>12 DEF ServerTest, Goes
  <1>13. CASE ServerWakes
    BY <1>13 DEF ServerWakes, Goes
  <1>14. CASE HandleExpired
    BY <1>14 DEF HandleExpired, Goes
  <1>15. CASE HandleTerm
    BY <1>15 DEF HandleTerm, Goes
  <1>16. CASE HandleMessage
    BY <1>16 DEF HandleMessage, Goes
  <1>17. CASE StopPuller
    BY <1>17 DEF StopPuller, SendTerm, Goes
  <1>18. CASE JoinPuller
    BY <1>18 DEF JoinPuller, Goes
  <1>19. CASE Cleanup
    BY <1>19 DEF Cleanup, SendTerm, Ends, Goes
  <1>20. CASE JoinWatchdog
    BY <1>20 DEF JoinWatchdog
  <1>21. CASE StartPuller
    BY <1>21 DEF StartPuller
  <1>22. CASE ServerPolled
    BY <1>22 DEF ServerPolled, Goes
  <1>23. CASE PullerTest
    BY <1>23 DEF PullerTest, Ends, Goes
  <1>24. CASE PullerWakes
    BY <1>24 DEF PullerWakes, Ends, Goes
  <1>25. CASE WatchdogTest
    BY <1>25 DEF WatchdogTest, Ends, Goes
  <1>26. CASE WatchdogWakes
    BY <1>26 DEF WatchdogWakes, Ends, Goes, Check
  <1>27. CASE Kill
    <2> DEFINE places == [at EXCEPT !["watchdog"] = "test"]
    <2>1. places \in [Actor -> Place] /\ \A a \in Actor : places[a] \in Places[a]
      OBVIOUS
    <2>2. Interrupt(places) /\ UNCHANGED <<woke, down, quiet, malamute>>
      BY <1>27 DEF Kill
    <2>3. quiet # Unset
      BY <1>27 DEF Kill
    <2> HIDE DEF places, Place, Places, Told, MainPlaces, Pipes, GivesUp, HasExited, Returned
    <2> QED  BY <2>1, <2>2, <2>3, InterruptTypes
  <1>28. CASE Stop
    <2>1. Interrupt(at) /\ UNCHANGED <<woke, down, quiet, malamute>>
      BY <1>28 DEF Stop
    <2> HIDE DEF Place, Places, Told, MainPlaces, Pipes, GivesUp, HasExited, Returned
    <2> QED  BY <2>1, InterruptTypes
  <1>29. CASE GoAWOL
    BY <1>29 DEF GoAWOL
  <1>30. CASE TimePasses
    BY <1>30 DEF TimePasses
  <1>31. CASE UNCHANGED vars
    BY <1>31 DEF vars
  <1>32. ASSUME NEW a \in Actor, ClosePipe(a) PROVE TypeOK'
    BY <1>32 DEF ClosePipe, Goes
  <1> QED
    BY <1>1, <1>2, <1>3, <1>4, <1>5, <1>6, <1>7, <1>8, <1>9, <1>10, <1>11, <1>12, <1>13, <1>14, <1>15, <1>16, <1>17, <1>18, <1>19, <1>20, <1>21, <1>22, <1>23, <1>24, <1>25, <1>26, <1>27, <1>28, <1>29, <1>30, <1>31, <1>32
    DEF Next, Main, Server, ServerLoads, Puller, WatchdogThread

\* Pipes: only Ends and JoinWatchdog send an exit signal, and only Fail a message.
LEMMA PipesStep ==
  ASSUME LifecycleInv, [Next]_vars
  PROVE  Pipes'
  <1> USE LifecycleAssumption DEF LifecycleInv, TypeOK, Pipes, Making, GivesUp, HasExited, Places, Returned
  <1>1. CASE GetOptions
    BY <1>1 DEF GetOptions
  <1>2. CASE NewServer
    BY <1>2 DEF NewServer, Goes
  <1>3. CASE ServerIsNew
    BY <1>3 DEF ServerIsNew
  <1>4. CASE MainTest
    BY <1>4 DEF MainTest
  <1>5. CASE ReceiveTerm
    BY <1>5 DEF ReceiveTerm
  <1>6. CASE ReceiveExit
    BY <1>6 DEF ReceiveExit
  <1>7. CASE DestroyServer
    BY <1>7 DEF DestroyServer, SendTerm
  <1>8. CASE JoinServer
    BY <1>8 DEF JoinServer
  <1>9. CASE StartWatchdog
    BY <1>9 DEF StartWatchdog
  <1>10. CASE Connect
    BY <1>10 DEF Connect, Goes
  <1>11. ASSUME NEW failed \in Failures, Fail(failed) PROVE Pipes'
    BY <1>11 DEF Fail, Goes
  <1>12. CASE ServerTest
    BY <1>12 DEF ServerTest, Goes
  <1>13. CASE ServerWakes
    BY <1>13 DEF ServerWakes, Goes
  <1>14. CASE HandleExpired
    BY <1>14 DEF HandleExpired, Goes
  <1>15. CASE HandleTerm
    BY <1>15 DEF HandleTerm, Goes
  <1>16. CASE HandleMessage
    BY <1>16 DEF HandleMessage, Goes
  <1>17. CASE StopPuller
    BY <1>17 DEF StopPuller, SendTerm, Goes
  <1>18. CASE JoinPuller
    BY <1>18 DEF JoinPuller, Goes
  <1>19. CASE Cleanup
    BY <1>19 DEF Cleanup, SendTerm, Ends, Goes
  <1>20. CASE JoinWatchdog
    BY <1>20 DEF JoinWatchdog
  <1>21. CASE StartPuller
    BY <1>21 DEF StartPuller
  <1>22. CASE ServerPolled
    BY <1>22 DEF ServerPolled, Goes
  <1>23. CASE PullerTest
    BY <1>23 DEF PullerTest, Ends, Goes
  <1>24. CASE PullerWakes
    BY <1>24 DEF PullerWakes, Ends, Goes
  <1>25. CASE WatchdogTest
    BY <1>25 DEF WatchdogTest, Ends, Goes
  <1>26. CASE WatchdogWakes
    BY <1>26 DEF WatchdogWakes, Ends, Goes, Check
  <1>27. CASE Kill
    BY <1>27 DEF Kill, Interrupt
  <1>28. CASE Stop
    BY <1>28 DEF Stop, Interrupt
  <1>29. CASE GoAWOL
    BY <1>29 DEF GoAWOL
  <1>30. CASE TimePasses
    BY <1>30 DEF TimePasses
  <1>31. CASE UNCHANGED vars
    BY <1>31 DEF vars
  <1>32. ASSUME NEW a \in Actor, ClosePipe(a) PROVE Pipes'
    BY <1>32 DEF ClosePipe, Goes
  <1> QED
    BY <1>1, <1>2, <1>3, <1>4, <1>5, <1>6, <1>7, <1>8, <1>9, <1>10, <1>11, <1>12, <1>13, <1>14, <1>15, <1>16, <1>17, <1>18, <1>19, <1>20, <1>21, <1>22, <1>23, <1>24, <1>25, <1>26, <1>27, <1>28, <1>29, <1>30, <1>31, <1>32
    DEF Next, Main, Server, ServerLoads, Puller, WatchdogThread

\* Signals: main stops the server when it sees the flag, is woken by a signal, or
\* receives "$TERM", which by Pipes comes from a server that gives up.
LEMMA SignalsStep ==
  ASSUME LifecycleInv, [Next]_vars
  PROVE  Signals'
  <1> USE LifecycleAssumption DEF LifecycleInv, TypeOK, Pipes, Signals, Making, GivesUp, Places, Returned
  <1>1. CASE GetOptions
    BY <1>1 DEF GetOptions
  <1>2. CASE NewServer
    BY <1>2 DEF NewServer, Goes
  <1>3. CASE ServerIsNew
    BY <1>3 DEF ServerIsNew
  <1>4. CASE MainTest
    BY <1>4 DEF MainTest
  <1>5. CASE ReceiveTerm
    BY <1>5 DEF ReceiveTerm
  <1>6. CASE ReceiveExit
    BY <1>6 DEF ReceiveExit
  <1>7. CASE DestroyServer
    BY <1>7 DEF DestroyServer, SendTerm
  <1>8. CASE JoinServer
    BY <1>8 DEF JoinServer
  <1>9. CASE StartWatchdog
    BY <1>9 DEF StartWatchdog
  <1>10. CASE Connect
    BY <1>10 DEF Connect, Goes
  <1>11. ASSUME NEW failed \in Failures, Fail(failed) PROVE Signals'
    BY <1>11 DEF Fail, Goes
  <1>12. CASE ServerTest
    BY <1>12 DEF ServerTest, Goes
  <1>13. CASE ServerWakes
    BY <1>13 DEF ServerWakes, Goes
  <1>14. CASE HandleExpired
    BY <1>14 DEF HandleExpired, Goes
  <1>15. CASE HandleTerm
    BY <1>15 DEF HandleTerm, Goes
  <1>16. CASE HandleMessage
    BY <1>16 DEF HandleMessage, Goes
  <1>17. CASE StopPuller
    BY <1>17 DEF StopPuller, SendTerm, Goes
  <1>18. CASE JoinPuller
    BY <1>18 DEF JoinPuller, Goes
  <1>19. CASE Cleanup
    BY <1>19 DEF Cleanup, SendTerm, Ends, Goes
  <1>20. CASE JoinWatchdog
    BY <1>20 DEF JoinWatchdog
  <1>21. CASE StartPuller
    BY <1>21 DEF StartPuller
  <1>22. CASE ServerPolled
    BY <1>22 DEF ServerPolled, Goes
  <1>23. CASE PullerTest
    BY <1>23 DEF PullerTest, Ends, Goes
  <1>24. CASE PullerWakes
    BY <1>24 DEF PullerWakes, Ends, Goes
  <1>25. CASE WatchdogTest
    BY <1>25 DEF WatchdogTest, Ends, Goes
  <1>26. CASE WatchdogWakes
    BY <1>26 DEF WatchdogWakes, Ends, Goes, Check
  <1>27. CASE Kill
    BY <1>27 DEF Kill, Interrupt
  <1>28. CASE Stop
    BY <1>28 DEF Stop, Interrupt
  <1>29. CASE GoAWOL
    BY <1>29 DEF GoAWOL
  <1>30. CASE TimePasses
    BY <1>30 DEF TimePasses
  <1>31. CASE UNCHANGED vars
    BY <1>31 DEF vars
  <1>32. ASSUME NEW a \in Actor, ClosePipe(a) PROVE Signals'
    BY <1>32 DEF ClosePipe, Goes
  <1> QED
    BY <1>1, <1>2, <1>3, <1>4, <1>5, <1>6, <1>7, <1>8, <1>9, <1>10, <1>11, <1>12, <1>13, <1>14, <1>15, <1>16, <1>17, <1>18, <1>19, <1>20, <1>21, <1>22, <1>23, <1>24, <1>25, <1>26, <1>27, <1>28, <1>29, <1>30, <1>31, <1>32
    DEF Next, Main, Server, ServerLoads, Puller, WatchdogThread

\* Making.
LEMMA MakingStep ==
  ASSUME LifecycleInv, [Next]_vars
  PROVE  Making'
  <1> USE LifecycleAssumption DEF LifecycleInv, TypeOK, Making, Places, Returned
  <1>1. CASE GetOptions
    BY <1>1 DEF GetOptions
  <1>2. CASE NewServer
    BY <1>2 DEF NewServer, Goes
  <1>3. CASE ServerIsNew
    BY <1>3 DEF ServerIsNew
  <1>4. CASE MainTest
    BY <1>4 DEF MainTest
  <1>5. CASE ReceiveTerm
    BY <1>5 DEF ReceiveTerm
  <1>6. CASE ReceiveExit
    BY <1>6 DEF ReceiveExit
  <1>7. CASE DestroyServer
    BY <1>7 DEF DestroyServer, SendTerm
  <1>8. CASE JoinServer
    BY <1>8 DEF JoinServer
  <1>9. CASE StartWatchdog
    BY <1>9 DEF StartWatchdog
  <1>10. CASE Connect
    BY <1>10 DEF Connect, Goes
  <1>11. ASSUME NEW failed \in Failures, Fail(failed) PROVE Making'
    BY <1>11 DEF Fail, Goes
  <1>12. CASE ServerTest
    BY <1>12 DEF ServerTest, Goes
  <1>13. CASE ServerWakes
    BY <1>13 DEF ServerWakes, Goes
  <1>14. CASE HandleExpired
    BY <1>14 DEF HandleExpired, Goes
  <1>15. CASE HandleTerm
    BY <1>15 DEF HandleTerm, Goes
  <1>16. CASE HandleMessage
    BY <1>16 DEF HandleMessage, Goes
  <1>17. CASE StopPuller
    BY <1>17 DEF StopPuller, SendTerm, Goes
  <1>18. CASE JoinPuller
    BY <1>18 DEF JoinPuller, Goes
  <1>19. CASE Cleanup
    BY <1>19 DEF Cleanup, SendTerm, Ends, Goes
  <1>20. CASE JoinWatchdog
    BY <1>20 DEF JoinWatchdog
  <1>21. CASE StartPuller
    BY <1>21 DEF StartPuller
  <1>22. CASE ServerPolled
    BY <1>22 DEF ServerPolled, Goes
  <1>23. CASE PullerTest
    BY <1>23 DEF PullerTest, Ends, Goes
  <1>24. CASE PullerWakes
    BY <1>24 DEF PullerWakes, Ends, Goes
  <1>25. CASE WatchdogTest
    BY <1>25 DEF WatchdogTest, Ends, Goes
  <1>26. CASE WatchdogWakes
    BY <1>26 DEF WatchdogWakes, Ends, Goes, Check
  <1>27. CASE Kill
    BY <1>27 DEF Kill, Interrupt
  <1>28. CASE Stop
    BY <1>28 DEF Stop, Interrupt
  <1>29. CASE GoAWOL
    BY <1>29 DEF GoAWOL
  <1>30. CASE TimePasses
    BY <1>30 DEF TimePasses
  <1>31. CASE UNCHANGED vars
    BY <1>31 DEF vars
  <1>32. ASSUME NEW a \in Actor, ClosePipe(a) PROVE Making'
    BY <1>32 DEF ClosePipe, Goes
  <1> QED
    BY <1>1, <1>2, <1>3, <1>4, <1>5, <1>6, <1>7, <1>8, <1>9, <1>10, <1>11, <1>12, <1>13, <1>14, <1>15, <1>16, <1>17, <1>18, <1>19, <1>20, <1>21, <1>22, <1>23, <1>24, <1>25, <1>26, <1>27, <1>28, <1>29, <1>30, <1>31, <1>32
    DEF Next, Main, Server, ServerLoads, Puller, WatchdogThread

\* The server leaves its loop on the flag or on "$TERM", which by Signals comes
\* with the flag as long as the server has not given up.
LEMMA StopStep ==
  ASSUME LifecycleInv, [Next]_vars
  PROVE  PullerStopIsInterrupted'
  <1> USE LifecycleAssumption DEF LifecycleInv, TypeOK, Signals, PullerStopIsInterrupted, GivesUp, Places, Returned
  <1>1. CASE GetOptions
    BY <1>1 DEF GetOptions
  <1>2. CASE NewServer
    BY <1>2 DEF NewServer, Goes
  <1>3. CASE ServerIsNew
    BY <1>3 DEF ServerIsNew
  <1>4. CASE MainTest
    BY <1>4 DEF MainTest
  <1>5. CASE ReceiveTerm
    BY <1>5 DEF ReceiveTerm
  <1>6. CASE ReceiveExit
    BY <1>6 DEF ReceiveExit
  <1>7. CASE DestroyServer
    BY <1>7 DEF DestroyServer, SendTerm
  <1>8. CASE JoinServer
    BY <1>8 DEF JoinServer
  <1>9. CASE StartWatchdog
    BY <1>9 DEF StartWatchdog
  <1>10. CASE Connect
    BY <1>10 DEF Connect, Goes
  <1>11. ASSUME NEW failed \in Failures, Fail(failed) PROVE PullerStopIsInterrupted'
    BY <1>11 DEF Fail, Goes
  <1>12. CASE ServerTest
    BY <1>12 DEF ServerTest, Goes
  <1>13. CASE ServerWakes
    BY <1>13 DEF ServerWakes, Goes
  <1>14. CASE HandleExpired
    BY <1>14 DEF HandleExpired, Goes
  <1>15. CASE HandleTerm
    BY <1>15 DEF HandleTerm, Goes
  <1>16. CASE HandleMessage
    BY <1>16 DEF HandleMessage, Goes
  <1>17. CASE StopPuller
    BY <1>17 DEF StopPuller, SendTerm, Goes
  <1>18. CASE JoinPuller
    BY <1>18 DEF JoinPuller, Goes
  <1>19. CASE Cleanup
    BY <1>19 DEF Cleanup, SendTerm, Ends, Goes
  <1>20. CASE JoinWatchdog
    BY <1>20 DEF JoinWatchdog
  <1>21. CASE StartPuller
    BY <1>21 DEF StartPuller
  <1>22. CASE ServerPolled
    BY <1>22 DEF ServerPolled, Goes
  <1>23. CASE PullerTest
    BY <1>23 DEF PullerTest, Ends, Goes
  <1>24. CASE PullerWakes
    BY <1>24 DEF PullerWakes, Ends, Goes
  <1>25. CASE WatchdogTest
    BY <1>25 DEF WatchdogTest, Ends, Goes
  <1>26. CASE WatchdogWakes
    BY <1>26 DEF WatchdogWakes, Ends, Goes, Check
  <1>27. CASE Kill
    BY <1>27 DEF Kill, Interrupt
  <1>28. CASE Stop
    BY <1>28 DEF Stop, Interrupt
  <1>29. CASE GoAWOL
    BY <1>29 DEF GoAWOL
  <1>30. CASE TimePasses
    BY <1>30 DEF TimePasses
  <1>31. CASE UNCHANGED vars
    BY <1>31 DEF vars
  <1>32. ASSUME NEW a \in Actor, ClosePipe(a) PROVE PullerStopIsInterrupted'
    BY <1>32 DEF ClosePipe, Goes
  <1> QED
    BY <1>1, <1>2, <1>3, <1>4, <1>5, <1>6, <1>7, <1>8, <1>9, <1>10, <1>11, <1>12, <1>13, <1>14, <1>15, <1>16, <1>17, <1>18, <1>19, <1>20, <1>21, <1>22, <1>23, <1>24, <1>25, <1>26, <1>27, <1>28, <1>29, <1>30, <1>31, <1>32
    DEF Next, Main, Server, ServerLoads, Puller, WatchdogThread

\* An exit signal that was received means by Pipes that the actor has returned.
LEMMA NestStep ==
  ASSUME LifecycleInv, [Next]_vars
  PROVE  ThreadsNest'
  <1> USE LifecycleAssumption DEF LifecycleInv, TypeOK, Pipes, Making, ThreadsNest, Running, HasExited, Places, Returned
  <1>1. CASE GetOptions
    BY <1>1 DEF GetOptions
  <1>2. CASE NewServer
    BY <1>2 DEF NewServer, Goes
  <1>3. CASE ServerIsNew
    BY <1>3 DEF ServerIsNew
  <1>4. CASE MainTest
    BY <1>4 DEF MainTest
  <1>5. CASE ReceiveTerm
    BY <1>5 DEF ReceiveTerm
  <1>6. CASE ReceiveExit
    BY <1>6 DEF ReceiveExit
  <1>7. CASE DestroyServer
    BY <1>7 DEF DestroyServer, SendTerm
  <1>8. CASE JoinServer
    BY <1>8 DEF JoinServer
  <1>9. CASE StartWatchdog
    BY <1>9 DEF StartWatchdog
  <1>10. CASE Connect
    BY <1>10 DEF Connect, Goes
  <1>11. ASSUME NEW failed \in Failures, Fail(failed) PROVE ThreadsNest'
    BY <1>11 DEF Fail, Goes
  <1>12. CASE ServerTest
    BY <1>12 DEF ServerTest, Goes
  <1>13. CASE ServerWakes
    BY <1>13 DEF ServerWakes, Goes
  <1>14. CASE HandleExpired
    BY <1>14 DEF HandleExpired, Goes
  <1>15. CASE HandleTerm
    BY <1>15 DEF HandleTerm, Goes
  <1>16. CASE HandleMessage
    BY <1>16 DEF HandleMessage, Goes
  <1>17. CASE StopPuller
    BY <1>17 DEF StopPuller, SendTerm, Goes
  <1>18. CASE JoinPuller
    BY <1>18 DEF JoinPuller, Goes
  <1>19. CASE Cleanup
    BY <1>19 DEF Cleanup, SendTerm, Ends, Goes
  <1>20. CASE JoinWatchdog
    BY <1>20 DEF JoinWatchdog
  <1>21. CASE StartPuller
    BY <1>21 DEF StartPuller
  <1>22. CASE ServerPolled
    BY <1>22 DEF ServerPolled, Goes
  <1>23. CASE PullerTest
    BY <1>23 DEF PullerTest, Ends, Goes
  <1>24. CASE PullerWakes
    BY <1>24 DEF PullerWakes, Ends, Goes
  <1>25. CASE WatchdogTest
    BY <1>25 DEF WatchdogTest, Ends, Goes
  <1>26. CASE WatchdogWakes
    BY <1>26 DEF WatchdogWakes, Ends, Goes, Check
  <1>27. CASE Kill
    BY <1>27 DEF Kill, Interrupt
  <1>28. CASE Stop
    BY <1>28 DEF Stop, Interrupt
  <1>29. CASE GoAWOL
    BY <1>29 DEF GoAWOL
  <1>30. CASE TimePasses
    BY <1>30 DEF TimePasses
  <1>31. CASE UNCHANGED vars
    BY <1>31 DEF vars
  <1>32. ASSUME NEW a \in Actor, ClosePipe(a) PROVE ThreadsNest'
    BY <1>32 DEF ClosePipe, Goes
  <1> QED
    BY <1>1, <1>2, <1>3, <1>4, <1>5, <1>6, <1>7, <1>8, <1>9, <1>10, <1>11, <1>12, <1>13, <1>14, <1>15, <1>16, <1>17, <1>18, <1>19, <1>20, <1>21, <1>22, <1>23, <1>24, <1>25, <1>26, <1>27, <1>28, <1>29, <1>30, <1>31, <1>32
    DEF Next, Main, Server, ServerLoads, Puller, WatchdogThread

\* All of it is an invariant.
THEOREM LifecycleInvariant == Spec => []LifecycleInv
  <1>1. LifecycleInv /\ [Next]_vars => LifecycleInv'
    BY TypeStep, PipesStep, SignalsStep, MakingStep, StopStep, NestStep
    DEF LifecycleInv
  <1> QED  BY InitLifecycle, <1>1, PTL DEF Spec

-----------------------------------------------------------------------------
(* The properties of the run.                                              *)

\* Every variable keeps its type, and the watchdog never reads a last tick that
\* was not set.
THEOREM LifecycleTypeCorrect == Spec => []TypeOK
  BY LifecycleInvariant, PTL DEF LifecycleInv

\* Whatever fails and whatever signals come, no thread outlives the configuration,
\* the Watchdog object or the process that it works in, but one whose
\* zactor_destroy a signal has cut.
THEOREM ThreadsNestHolds == Spec => []ThreadsNest
  BY LifecycleInvariant, PTL DEF LifecycleInv

\* The puller is stopped only after an interruption, whichever calls fail.
THEOREM PullerStopIsInterruptedHolds == Spec => []PullerStopIsInterrupted
  BY LifecycleInvariant, PTL DEF LifecycleInv

\* The signal that makes the server leave the puller behind is never the first
\* one: the server waits for the puller only when it was interrupted before.
THEOREM OneSignalIsSafeHolds == Spec => OneSignalIsSafe
  <1>1. ASSUME LifecycleInv, [Next]_vars
        PROVE  [("puller" \in left') /\ ("puller" \notin left) => interrupted]_vars
    <2> SUFFICES ASSUME left' # left, "puller" \in left', "puller" \notin left
                 PROVE  interrupted
      BY DEF vars
    <2>1. \E places \in {at, [at EXCEPT !["watchdog"] = "test"]} : Interrupt(places)
      <3>1. Kill \/ Stop
        BY <1>1 DEF vars, Next, Main, Server, ServerLoads, Puller, WatchdogThread,
           GetOptions, NewServer, ServerIsNew, MainTest, ReceiveTerm, ReceiveExit,
           DestroyServer, JoinServer, StartWatchdog, Connect, Fail, ServerTest,
           ServerWakes, HandleExpired, HandleTerm, HandleMessage, StopPuller,
           JoinPuller, Cleanup, JoinWatchdog, StartPuller, ServerPolled, PullerTest,
           PullerWakes, WatchdogTest, WatchdogWakes, ClosePipe, GoAWOL, TimePasses
      <3> QED  BY <3>1 DEF Kill, Stop
    <2>2. at["server"] = "joinPuller"
      BY <2>1 DEF Interrupt
    <2> QED  BY <1>1, <2>2 DEF LifecycleInv, PullerStopIsInterrupted
  <1> QED  BY <1>1, LifecycleInvariant, PTL DEF Spec, OneSignalIsSafe

-----------------------------------------------------------------------------
(* main is told.                                                           *)

\* Until main knows better, a server that gives up has told it or was
\* interrupted, and what it told is there as long as main waits.
MainWillKnow ==
  /\ main \in {"handshake", "test", "recv"} /\ GivesUp =>
       "$TERM" \in up["server"] \/ interrupted
  /\ MainIsTold

\* A step of neither the server nor main, but a signal, moves neither of them
\* and takes nothing from main.
LEMMA OthersStep ==
  ASSUME LifecycleInv,
         Puller \/ WatchdogTest \/ WatchdogWakes \/ ClosePipe("watchdog")
                \/ GoAWOL \/ TimePasses
  PROVE  /\ at'["server"] = at["server"] /\ up'["server"] = up["server"]
         /\ interrupted' = interrupted
         /\ main' = main
  <1> USE DEF LifecycleInv, TypeOK, Goes, Ends
  <1>1. CASE Puller
    BY <1>1 DEF Puller, PullerTest, PullerWakes, ClosePipe
  <1>2. CASE WatchdogTest \/ WatchdogWakes
    BY <1>2 DEF WatchdogTest, WatchdogWakes
  <1>3. CASE ClosePipe("watchdog")
    BY <1>3 DEF ClosePipe
  <1>4. CASE GoAWOL \/ TimePasses
    BY <1>4 DEF GoAWOL, TimePasses
  <1> QED  BY <1>1, <1>2, <1>3, <1>4

\* A signal can only take the server on to the end of its destructors, and then
\* the exit signal is there for main, if main still waits.
LEMMA SignalStep ==
  ASSUME LifecycleInv, Kill \/ Stop
  PROVE  /\ interrupted'
         /\ up["server"] \subseteq up'["server"]
         /\ Returned("server")' => Returned("server") \/ "exit" \in up'["server"]
         /\ main' = "recv" => main = "recv"
  <1> DEFINE places == IF Kill THEN [at EXCEPT !["watchdog"] = "test"] ELSE at
  <1>1. Interrupt(places) /\ places["server"] = at["server"]
    BY DEF LifecycleInv, TypeOK, Kill, Stop
  <1>2. places \in [Actor -> Place]
    BY DEF LifecycleInv, TypeOK, Place, Places
  <1> HIDE DEF places
  <1> QED  BY <1>1, <1>2 DEF Interrupt, LifecycleInv, TypeOK, Returned

LEMMA MainWillKnowStep ==
  ASSUME "mlm_client_new" \notin Failures, LifecycleInv, MainWillKnow, [Next]_vars
  PROVE  MainWillKnow'
  <1> USE DEF LifecycleInv, TypeOK, Pipes, Making, MainWillKnow, MainIsTold, GivesUp,
              Goes, SendTerm, Returned
  <1>1. CASE GetOptions \/ NewServer
    BY <1>1 DEF GetOptions, NewServer
  <1>2. CASE ServerIsNew \/ MainTest
    BY <1>2 DEF ServerIsNew, MainTest
  <1>3. CASE ReceiveTerm \/ ReceiveExit
    BY <1>3 DEF ReceiveTerm, ReceiveExit, HasExited
  <1>4. CASE DestroyServer \/ JoinServer
    BY <1>4 DEF DestroyServer, JoinServer
  <1>5. CASE StartWatchdog \/ Connect \/ StartPuller
    BY <1>5 DEF StartWatchdog, Connect, StartPuller
  <1>6. ASSUME NEW failed \in Failures, Fail(failed) PROVE MainWillKnow'
    BY <1>6 DEF Fail, Told
  <1>7. CASE ServerTest \/ ServerWakes \/ ServerPolled
    BY <1>7 DEF ServerTest, ServerWakes, ServerPolled
  <1>8. CASE HandleExpired \/ HandleTerm \/ HandleMessage
    BY <1>8 DEF HandleExpired, HandleTerm, HandleMessage
  <1>9. CASE StopPuller \/ JoinPuller
    BY <1>9 DEF StopPuller, JoinPuller, PullerStopIsInterrupted
  <1>10. CASE Cleanup \/ JoinWatchdog
    BY <1>10 DEF Cleanup, JoinWatchdog, Ends
  <1>11. CASE Puller \/ WatchdogTest \/ WatchdogWakes \/ ClosePipe("watchdog")
              \/ GoAWOL \/ TimePasses
    BY <1>11, OthersStep
  <1>12. CASE Kill \/ Stop
    BY <1>12, SignalStep
  <1>13. CASE ClosePipe("server")
    BY <1>13 DEF ClosePipe
  <1>14. CASE UNCHANGED vars
    BY <1>14 DEF vars
  <1> QED
    BY <1>1, <1>2, <1>3, <1>4, <1>5, <1>6, <1>7, <1>8, <1>9, <1>10, <1>11, <1>12,
       <1>13, <1>14
    DEF Next, Main, Server, ServerLoads, WatchdogThread

\* Where the client can always be made, main never waits for a server that has
\* ended and left it no message, whichever other calls fail, whatever signals
\* come and whichever threads they wake.
THEOREM MainIsToldHolds ==
  ASSUME "mlm_client_new" \notin Failures
  PROVE  Spec => []MainIsTold
  <1>1. Init => MainWillKnow
    BY DEF Init, MainWillKnow, MainIsTold, GivesUp
  <1>2. LifecycleInv /\ MainWillKnow /\ [Next]_vars => MainWillKnow'
    BY MainWillKnowStep
  <1>3. MainWillKnow => MainIsTold
    BY DEF MainWillKnow
  <1> QED  BY <1>1, <1>2, <1>3, LifecycleInvariant, PTL DEF Spec

=============================================================================
