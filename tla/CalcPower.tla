------------------------------- MODULE CalcPower -------------------------------
(***************************************************************************)
(* The search for the power sources of one rack or data center             *)
(* (src/src/calc_power.cc): which of its devices are measured for its      *)
(* total.  The search walks the power links from the "border" of the       *)
(* container, level by level, up to the first "smart" device of each       *)
(* chain.  TotalPowerConfiguration takes what it returns, for every rack   *)
(* and data center, as a topology.                                         *)
(*                                                                         *)
(* The vector dvc is a set here: addDeviceToMap() drops its order and its  *)
(* duplicates.  todelete holds the very devices that were put into dvc.    *)
(***************************************************************************)
EXTENDS Naturals, FiniteSets

CONSTANTS
  Asset,        \* the elements that power links join
  Containers,   \* the containers: device -> device type
  LinkSets      \* the sets of power links, pairs of source and destination

DeviceType == {"epdu", "ups", "other"}

ASSUME CalcPowerAssumption ==
  /\ \A c \in Containers : c \in [DOMAIN c -> DeviceType] /\ DOMAIN c \subseteq Asset
                             /\ IsFiniteSet(DOMAIN c)
  /\ LinkSets \subseteq SUBSET (Asset \X Asset)

VARIABLES
  container,       \* container_devices, from the database
  links,           \* the power links of the container, from the database
  pc,              \* "read", "search", "done", or "failed" for a failed read
  border_devices,  \* where the search is
  dvc              \* the power sources found so far

vars == <<container, links, pc, border_devices, dvc>>
database == <<container, links>>

Devices == DOMAIN container

is_epdu(d) == container[d] = "epdu"
is_ups(d)  == container[d] = "ups"

find_dests(d) == {e \in Asset : <<d, e>> \in links}

is_powering_other_rack(d) == \E e \in find_dests(d) : e \notin Devices

Smart ==
  {d \in Devices : is_epdu(d) \/ (is_ups(d) /\ ~ is_powering_other_rack(d))}

\* Devices that are fed from outside, and those that nothing feeds.
Border ==
  {d \in Devices : \/ \E e \in Asset \ Devices : <<e, d>> \in links
                   \/ \A e \in Asset : <<e, d>> \notin links}

\* Mutant: what is fed outside of the container counts as well.
DestsAnywhere(border) == {e \in Asset : \E d \in border : e \in find_dests(d)}

\* What the devices of the border feed inside of the container.
update_border_devices(border) ==
  {e \in Devices : \E d \in border : e \in find_dests(d)}

-----------------------------------------------------------------------------
\* The selects of one container succeed; one without devices or without links
\* has no power sources.
ReadContainer ==
  /\ pc = "read"
  /\ IF Devices = {} \/ links = {}
     THEN /\ pc' = "done"
          /\ UNCHANGED border_devices
     ELSE /\ pc' = "search"
          /\ border_devices' = Border
  /\ UNCHANGED <<database, dvc>>

\* One of them reports an error: an empty list of power sources is returned.
ReadFails ==
  /\ pc = "read"
  /\ pc' = "failed"
  /\ UNCHANGED <<database, border_devices, dvc>>

\* Mutants: the search goes on behind a smart device; the border keeps the
\* devices it has left.
SearchOn ==
  /\ pc = "search"
  /\ border_devices # {}
  /\ dvc' = dvc \cup (border_devices \cap Smart)
  /\ border_devices' = update_border_devices(border_devices)
  /\ UNCHANGED <<database, pc>>

SearchKeepingBorder ==
  /\ pc = "search"
  /\ border_devices # {}
  /\ dvc' = dvc \cup (border_devices \cap Smart)
  /\ border_devices' =
       (border_devices \ Smart) \cup update_border_devices(border_devices \ Smart)
  /\ UNCHANGED <<database, pc>>

\* One round of compute_total_power_v2: the smart devices of the border are
\* power sources, and the search goes on behind the others.
SearchLevel ==
  /\ pc = "search"
  /\ border_devices # {}
  /\ dvc' = dvc \cup (border_devices \cap Smart)
  /\ border_devices' = update_border_devices(border_devices \ Smart)
  /\ UNCHANGED <<database, pc>>

Return ==
  /\ pc = "search"
  /\ border_devices = {}
  /\ pc' = "done"
  /\ UNCHANGED <<database, border_devices, dvc>>

Init ==
  /\ container \in Containers
  /\ links \in LinkSets
  /\ pc = "read"
  /\ border_devices = {}
  /\ dvc = {}

Next == ReadContainer \/ ReadFails \/ SearchLevel \/ Return

\* A function that runs on one thread and waits for nothing after its reads.
Spec == Init /\ [][Next]_vars /\ WF_vars(Next)

-----------------------------------------------------------------------------
(* What the search has to find, said without searching.                    *)

TypeOK ==
  /\ container \in Containers
  /\ links \in LinkSets
  /\ pc \in {"read", "search", "done", "failed"}
  /\ border_devices \subseteq Devices
  /\ dvc \subseteq Smart

\* A set of devices that no chain leaves but behind a smart device.
Closed(S) == \A d \in S \ Smart : find_dests(d) \cap Devices \subseteq S

\* The devices on the chains from one of start, up to the first smart one.
Reached(start) ==
  {d \in Devices : \A S \in SUBSET Devices : start \subseteq S /\ Closed(S) => d \in S}

\* The power sources of a container are, of every chain that enters it or
\* starts in it, the first smart device: none is missed because of the length
\* of its chain, and none is taken that only smart devices feed
\* (compute_total_power_v2).
FindsFirstSmart ==
  pc = "done" => dvc = IF links = {} THEN {} ELSE Reached(Border) \cap Smart

\* Devices that feed one another in a circle without a smart one in it, or
\* feed such a circle.
Circling ==
  {d \in Devices : \E S \in SUBSET (Devices \ Smart) :
                     d \in S /\ \A e \in S : find_dests(e) \cap S # {}}

HasLoop == Reached(Border) \cap Circling # {}

\* Every round leaves devices behind that the search does not come back to,
\* unless it walks into a circle: so there are at most as many rounds as there
\* are devices (the loop of compute_total_power_v2).
EveryLevelIsLeft ==
  [][SearchLevel /\ ~ HasLoop =>
       /\ Reached(border_devices') \subseteq Reached(border_devices)
       /\ Reached(border_devices') # Reached(border_devices)]_vars

\* The search of a container comes to an end, unless the chains it walks hold
\* a circle (the loop of compute_total_power_v2).
EndsUnlessLoop == <>(HasLoop \/ pc \in {"done", "failed"})

\* calc_power.cc:105: "Repeat until chain ends or until all chains are
\* processed", so it ends whatever the links are.
AlwaysEnds == <>(pc \in {"done", "failed"})

=============================================================================
