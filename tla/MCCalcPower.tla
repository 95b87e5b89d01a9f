----------------------------- MODULE MCCalcPower -----------------------------
(* Containers of three devices of any type, or none; the asset 4 is outside *)
(* of all of them.                                                          *)
EXTENDS CalcPower

MCAsset == 1 .. 4
ThreeDevices == [1 .. 3 -> DeviceType]
AnyContainer == ThreeDevices \cup {[d \in {} |-> "other"]}

\* Any links inside, into and out of the container, none from a device to
\* itself and none between devices outside.
AnyLinks == SUBSET {l \in MCAsset \X MCAsset : l[1] # l[2]}

\* Two dumb devices that are linked either way.
TwoDumb == {[d \in 1 .. 2 |-> "other"]}
LinksOfTwo == SUBSET {l \in {1, 2, 4} \X {1, 2} : l[1] # l[2]}

=============================================================================
