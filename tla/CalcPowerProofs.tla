---------------------------- MODULE CalcPowerProofs ----------------------------
(***************************************************************************)
(* The search for power sources finds the right ones, in any container     *)
(* with any links, and each of its rounds brings it nearer to its end, if  *)
(* and only if there is no circle of devices in its way.  That it ends     *)
(* then is for TLC, being a liveness property.                             *)
(***************************************************************************)
EXTENDS CalcPower, FiniteSums

LEMMA InContainer ==
  /\ Smart \subseteq Devices
  /\ Border \subseteq Devices
  /\ \A border : update_border_devices(border) \subseteq Devices
BY DEF Smart, Border, update_border_devices

-----------------------------------------------------------------------------
(* The types.                                                              *)

LEMMA TypeStep == TypeOK /\ [Next]_vars => TypeOK'
<1> SUFFICES ASSUME TypeOK, [Next]_vars PROVE TypeOK'
  OBVIOUS
<1> USE DEF database
<1>1. UNCHANGED database => Smart' = Smart /\ Devices' = Devices
  BY DEF Smart, Devices, is_epdu, is_ups, is_powering_other_rack, find_dests
<1>2. CASE ReadContainer
  BY <1>1, <1>2, InContainer DEF ReadContainer, TypeOK
<1>3. CASE ReadFails
  BY <1>1, <1>3 DEF ReadFails, TypeOK
<1>4. CASE SearchLevel
  BY <1>1, <1>4, InContainer DEF SearchLevel, TypeOK
<1>5. CASE Return
  BY <1>1, <1>5 DEF Return, TypeOK
<1>6. CASE UNCHANGED vars
  BY <1>1, <1>6 DEF vars, TypeOK
<1> QED
  BY <1>2, <1>3, <1>4, <1>5, <1>6 DEF Next

\* The type invariant of the search.
THEOREM CalcPowerTypeCorrect == Spec => []TypeOK
<1>1. Init => TypeOK
  BY DEF Init, TypeOK
<1> QED
  BY <1>1, TypeStep, PTL DEF Spec

-----------------------------------------------------------------------------
(* What is reached from a border, and from the next one.                   *)

LEMMA NothingReached == Reached({}) = {}
<1>1. {} \in SUBSET Devices /\ Closed({})
  BY DEF Closed
<1> QED
  BY <1>1 DEF Reached

LEMMA ReachedIsClosed ==
  ASSUME NEW start \in SUBSET Devices
  PROVE  start \subseteq Reached(start) /\ Closed(Reached(start))
<1>1. start \subseteq Reached(start)
  BY DEF Reached
<1>2. ASSUME NEW d \in Reached(start) \ Smart, NEW e \in find_dests(d) \cap Devices
      PROVE  e \in Reached(start)
  <2>1. ASSUME NEW S \in SUBSET Devices, start \subseteq S, Closed(S)
        PROVE  e \in S
    <3>1. d \in S
      BY <1>2, <2>1 DEF Reached
    <3> QED
      BY <1>2, <2>1, <3>1 DEF Closed
  <2> QED
    BY <2>1 DEF Reached
<1> QED
  BY <1>1, <1>2 DEF Closed

\* One level of the search: what is reached from a border is the border and
\* what is reached from the next one.
LEMMA NextLevel ==
  ASSUME NEW border \in SUBSET Devices
  PROVE  Reached(border) =
           border \cup Reached(update_border_devices(border \ Smart))
<1> DEFINE next == update_border_devices(border \ Smart)
           S == border \cup Reached(next)
<1>1. next \in SUBSET Devices
  BY InContainer
<1>2. S \in SUBSET Devices
  BY DEF Reached
<1>3. Closed(S)
  <2>1. ASSUME NEW d \in S \ Smart PROVE find_dests(d) \cap Devices \subseteq S
    <3>1. CASE d \in border
      <4>1. find_dests(d) \cap Devices \subseteq next
        BY <2>1, <3>1 DEF update_border_devices
      <4>2. next \subseteq Reached(next)
        BY <1>1, ReachedIsClosed
      <4> QED
        BY <4>1, <4>2
    <3>2. CASE d \in Reached(next)
      BY <1>1, <2>1, <3>2, ReachedIsClosed DEF Closed
    <3> QED
      BY <2>1, <3>1, <3>2
  <2> QED
    BY <2>1 DEF Closed
<1>4. Reached(border) \subseteq S
  BY <1>2, <1>3 DEF Reached
<1>5. Reached(next) \subseteq Reached(border)
  <2>1. next \subseteq Reached(border)
    <3>1. border \subseteq Reached(border) /\ Closed(Reached(border))
      BY ReachedIsClosed
    <3> QED
      BY <3>1 DEF Closed, update_border_devices
  <2>2. Closed(Reached(border)) /\ Reached(border) \in SUBSET Devices
    BY ReachedIsClosed DEF Reached
  <2> QED
    BY <2>1, <2>2 DEF Reached
<1>6. border \subseteq Reached(border)
  BY ReachedIsClosed
<1> QED
  BY <1>4, <1>5, <1>6

-----------------------------------------------------------------------------
(* The search.                                                             *)

\* The strengthening: what is found already, and what can be reached from
\* where the search is, are what can be reached from the border.
Searching ==
  /\ pc \in {"read", "failed"} => dvc = {}
  /\ pc = "search" => links # {} /\ Reached(Border) \cap Smart
                                      = dvc \cup (Reached(border_devices) \cap Smart)

SearchInv == Searching /\ FindsFirstSmart

LEMMA SearchStep == TypeOK /\ SearchInv /\ [Next]_vars => SearchInv'
<1> SUFFICES ASSUME TypeOK, SearchInv, [Next]_vars PROVE SearchInv'
  OBVIOUS
<1> USE DEF database
<1>1. UNCHANGED database =>
        /\ Smart' = Smart
        /\ Border' = Border
        /\ Devices' = Devices
        /\ \A start : Reached(start)' = Reached(start)
  BY DEF Smart, Border, Reached, Closed, Devices, is_epdu, is_ups,
         is_powering_other_rack, find_dests
<1>2. CASE ReadContainer
  <2>1. CASE Devices = {} \/ links = {}
    <3>1. dvc' = {} /\ pc' = "done" /\ UNCHANGED database
      BY <1>2, <2>1 DEF ReadContainer, SearchInv, Searching
    <3>2. links # {} => Reached(Border) = {}
      BY <2>1 DEF Reached
    <3> QED
      BY <1>1, <3>1, <3>2 DEF SearchInv, Searching, FindsFirstSmart
  <2>2. CASE Devices # {} /\ links # {}
    <3>1. /\ dvc' = {} /\ pc' = "search" /\ border_devices' = Border
          /\ UNCHANGED database
      BY <1>2, <2>2 DEF ReadContainer, SearchInv, Searching
    <3> QED
      BY <1>1, <2>2, <3>1 DEF SearchInv, Searching, FindsFirstSmart
  <2> QED
    BY <2>1, <2>2
<1>3. CASE ReadFails
  BY <1>1, <1>3 DEF ReadFails, SearchInv, Searching, FindsFirstSmart
<1>4. CASE SearchLevel
  <2> DEFINE next == update_border_devices(border_devices \ Smart)
  <2>1. /\ pc = "search" /\ pc' = "search" /\ links' = links
        /\ dvc' = dvc \cup (border_devices \cap Smart)
        /\ border_devices' = next
        /\ UNCHANGED database
    BY <1>4 DEF SearchLevel
  <2>2. Reached(border_devices) = border_devices \cup Reached(next)
    BY NextLevel DEF TypeOK
  <2>3. Reached(Border) \cap Smart = dvc \cup (Reached(border_devices) \cap Smart)
    BY <2>1 DEF SearchInv, Searching
  <2>4. Reached(Border) \cap Smart = dvc' \cup (Reached(next) \cap Smart)
    BY <2>1, <2>2, <2>3
  <2>5. (Reached(Border) \cap Smart)' = dvc' \cup (Reached(border_devices) \cap Smart)'
    BY <1>1, <2>1, <2>4
  <2> QED
    BY <2>1, <2>5 DEF SearchInv, Searching, FindsFirstSmart
<1>5. CASE Return
  <2>1. dvc = Reached(Border) \cap Smart /\ links # {}
    BY <1>5, NothingReached DEF Return, SearchInv, Searching
  <2> QED
    BY <1>1, <1>5, <2>1 DEF Return, SearchInv, Searching, FindsFirstSmart
<1>6. CASE UNCHANGED vars
  BY <1>1, <1>6 DEF vars, SearchInv, Searching, FindsFirstSmart
<1> QED
  BY <1>2, <1>3, <1>4, <1>5, <1>6 DEF Next

\* In any container, with any links, also in circles: if the search ends, it
\* has found the first smart device of every chain, and nothing else.
THEOREM FindsFirstSmartHolds == Spec => []FindsFirstSmart
<1>1. Init => SearchInv
  BY DEF Init, SearchInv, Searching, FindsFirstSmart
<1>2. SearchInv => FindsFirstSmart
  BY DEF SearchInv
<1> QED
  BY <1>1, <1>2, SearchStep, CalcPowerTypeCorrect, PTL DEF Spec

-----------------------------------------------------------------------------
(* Circles.                                                                *)

\* The database does not change in a search, nor does what is said of it.
LEMMA DatabaseStays ==
  UNCHANGED database =>
    /\ Smart' = Smart /\ Border' = Border /\ Circling' = Circling
    /\ HasLoop' = HasLoop
    /\ \A start : Reached(start)' = Reached(start)
BY DEF database, Smart, Border, Circling, HasLoop, Reached, Closed, Devices,
       is_epdu, is_ups, is_powering_other_rack, find_dests

\* In a finite set of devices in which each is fed by another or itself, some
\* feed each other in a circle: a smallest such set has nothing else in it.
LEMMA FedInACircle ==
  ASSUME NEW T \in SUBSET (Devices \ Smart), IsFiniteSet(T), T # {},
         \A e \in T : \E d \in T : e \in find_dests(d)
  PROVE  T \cap Circling # {}
<1> DEFINE Fed(X) == \A e \in X : \E d \in X : e \in find_dests(d)
           Family == {X \in SUBSET T : X # {} /\ Fed(X)}
<1>1. PICK X \in Family : \A Y \in Family : Y \subseteq X => Y = X
  <2>1. Family \in SUBSET SUBSET T /\ T \in Family
    OBVIOUS
  <2> HIDE DEF Family
  <2> QED
    BY <2>1, MinimalSet
<1>2. ASSUME NEW e \in X PROVE find_dests(e) \cap X # {}
  <2>1. SUFFICES ASSUME find_dests(e) \cap X = {} PROVE FALSE
    OBVIOUS
  <2>2. PICK d \in X : e \in find_dests(d)
    BY <1>1
  <2>3. d # e /\ Fed(X \ {e})
    BY <1>1, <2>1, <2>2
  <2>4. X \ {e} \in Family
    BY <1>1, <2>3
  <2> QED
    BY <1>1, <2>4
<1>3. PICK d \in X : TRUE
  BY <1>1
<1>4. d \in T /\ d \in Circling
  BY <1>1, <1>2, <1>3 DEF Circling
<1> QED
  BY <1>4

\* What is reached from the devices that a set feeds is fed by what is reached.
LEMMA ReachedIsFed ==
  ASSUME NEW border \in SUBSET Devices,
         NEW e \in Reached(update_border_devices(border \ Smart))
  PROVE  \E d \in Reached(border) \ Smart : e \in find_dests(d)
<1> DEFINE next == update_border_devices(border \ Smart)
           Fed == {x \in Devices : \E d \in Reached(border) \ Smart : x \in find_dests(d)}
<1>1. border \subseteq Reached(border) /\ Closed(Reached(border))
  BY ReachedIsClosed
<1>2. next \subseteq Fed
  BY <1>1 DEF update_border_devices
<1>3. Closed(Fed)
  <2>1. Fed \subseteq Reached(border)
    BY <1>1 DEF Closed
  <2> QED
    BY <2>1 DEF Closed
<1> QED
  BY <1>2, <1>3 DEF Reached

\* A round that leaves nothing behind has walked into a circle.
LEMMA LeavesOrCircles ==
  ASSUME NEW border \in SUBSET Devices, border # {}, IsFiniteSet(Devices),
         Reached(update_border_devices(border \ Smart)) = Reached(border)
  PROVE  Reached(border) \cap Circling # {}
<1> DEFINE T == Reached(border) \ Smart
<1>1. Reached(border) # {}
  BY ReachedIsClosed
<1>2. \A e \in Reached(border) : \E d \in T : e \in find_dests(d)
  BY ReachedIsFed
<1>3. T # {} /\ T \in SUBSET (Devices \ Smart) /\ IsFiniteSet(T)
  BY <1>1, <1>2, FS_Subset DEF Reached
<1> HIDE DEF T
<1>4. T \cap Circling # {}
  BY <1>2, <1>3, FedInACircle DEF T
<1> QED
  BY <1>4 DEF T

\* What can be reached from where the search is could be reached from the start,
\* and a circle that could be is still before it.
OnTheWay ==
  /\ pc = "search" => Reached(border_devices) \subseteq Reached(Border)
  /\ pc = "search" /\ HasLoop => Reached(border_devices) \cap Circling # {}
  /\ HasLoop => pc # "done"

\* A circle leads the search back into itself.
LEMMA CircleStays ==
  ASSUME NEW border \in SUBSET Devices, Reached(border) \cap Circling # {}
  PROVE  Reached(update_border_devices(border \ Smart)) \cap Circling # {}
<1> DEFINE next == update_border_devices(border \ Smart)
<1>1. PICK d \in Reached(border) \cap Circling : TRUE
  OBVIOUS
<1>2. next \in SUBSET Devices
  BY InContainer
<1>3. CASE d \in border
  <2>1. PICK S \in SUBSET (Devices \ Smart) :
          d \in S /\ \A e \in S : find_dests(e) \cap S # {}
    BY <1>1 DEF Circling
  <2>2. PICK e \in find_dests(d) : e \in S
    BY <2>1
  <2>3. e \in Circling
    BY <2>1, <2>2 DEF Circling
  <2>4. e \in next
    BY <1>3, <2>1, <2>2 DEF update_border_devices
  <2> QED
    BY <1>2, <2>3, <2>4, ReachedIsClosed
<1>4. CASE d \notin border
  BY <1>1, <1>4, NextLevel
<1> QED
  BY <1>3, <1>4

LEMMA OnTheWayStep == TypeOK /\ OnTheWay /\ [Next]_vars => OnTheWay'
<1> SUFFICES ASSUME TypeOK, OnTheWay, [Next]_vars PROVE OnTheWay'
  OBVIOUS
<1>1. CASE ReadContainer
  <2>1. HasLoop => Devices # {} /\ links # {}
    BY DEF HasLoop, Circling, Reached, find_dests
  <2> QED
    BY <1>1, <2>1, DatabaseStays DEF ReadContainer, OnTheWay, HasLoop
<1>2. CASE ReadFails
  BY <1>2, DatabaseStays DEF ReadFails, OnTheWay
<1>3. CASE SearchLevel
  <2>1. /\ pc = "search" /\ pc' = "search" /\ UNCHANGED database
        /\ border_devices' = update_border_devices(border_devices \ Smart)
    BY <1>3 DEF SearchLevel
  <2>2. Reached(border_devices') \subseteq Reached(border_devices)
    BY <2>1, NextLevel DEF TypeOK
  <2>3. HasLoop => Reached(border_devices') \cap Circling # {}
    BY <2>1, CircleStays DEF OnTheWay, TypeOK
  <2>4. Reached(border_devices)' = Reached(border_devices')
    BY <2>1, DatabaseStays
  <2> QED
    BY <2>1, <2>2, <2>3, <2>4, DatabaseStays DEF OnTheWay
<1>4. CASE Return
  <2>1. ~ HasLoop
    BY <1>4, NothingReached DEF Return, OnTheWay
  <2> QED
    BY <1>4, <2>1, DatabaseStays DEF Return, OnTheWay
<1>5. CASE UNCHANGED vars
  BY <1>5, DatabaseStays DEF vars, database, OnTheWay
<1> QED
  BY <1>1, <1>2, <1>3, <1>4, <1>5 DEF Next

LEMMA OnTheWayInit == Init => OnTheWay
BY DEF Init, OnTheWay

\* A search that has a circle of devices before it, none of them smart, never
\* returns: whatever the container, the links and the length of the way there.
THEOREM LoopsNeverEnd == Spec => [](HasLoop => pc # "done")
<1>1. OnTheWay => (HasLoop => pc # "done")
  BY DEF OnTheWay
<1> QED
  BY <1>1, OnTheWayInit, OnTheWayStep, CalcPowerTypeCorrect, PTL DEF Spec

\* Every other search has less before it after each round, so it makes no more
\* rounds than there are devices.
THEOREM EveryLevelIsLeftHolds == Spec => EveryLevelIsLeft
<1>1. TypeOK /\ OnTheWay /\ SearchLevel /\ ~ HasLoop =>
        /\ Reached(border_devices') \subseteq Reached(border_devices)
        /\ Reached(border_devices') # Reached(border_devices)
  <2> SUFFICES ASSUME TypeOK, OnTheWay, SearchLevel, ~ HasLoop
               PROVE  /\ Reached(border_devices') \subseteq Reached(border_devices)
                      /\ Reached(border_devices') # Reached(border_devices)
    OBVIOUS
  <2>1. /\ pc = "search" /\ border_devices # {} /\ border_devices \in SUBSET Devices
        /\ border_devices' = update_border_devices(border_devices \ Smart)
    BY DEF SearchLevel, TypeOK
  <2>2. Reached(border_devices') \subseteq Reached(border_devices)
    BY <2>1, NextLevel
  <2>3. IsFiniteSet(Devices)
    BY CalcPowerAssumption DEF TypeOK, Devices
  <2>4. Reached(border_devices) \cap Circling = {}
    BY <2>1 DEF OnTheWay, HasLoop
  <2> QED
    BY <2>1, <2>2, <2>3, <2>4, LeavesOrCircles
<1>2. TypeOK /\ OnTheWay =>
        [SearchLevel /\ ~ HasLoop =>
           /\ Reached(border_devices') \subseteq Reached(border_devices)
           /\ Reached(border_devices') # Reached(border_devices)]_vars
  BY <1>1
<1> QED
  BY <1>2, OnTheWayInit, OnTheWayStep, CalcPowerTypeCorrect, PTL DEF Spec, EveryLevelIsLeft

=============================================================================
