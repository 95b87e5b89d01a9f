----------------------------- MODULE MCTotalPower -----------------------------
(* Small instances of TotalPowerConfiguration.  Racks are numbered from 1, *)
(* data centers from 11, power devices from 1.                             *)
EXTENDS TotalPowerProperties, TLC

\* One rack with one power device, or two.
OneDevice  == {1 :> {1}}
TwoDevices == {1 :> {1, 2}}

\* One data center with two power devices.
CenterDevices == {11 :> {1, 2}}

\* Two racks and a data center: rack 2 claims the device of rack 1, and then
\* has it alone.
MovingDevice ==
  {1 :> {1} @@ 2 :> {}  @@ 11 :> {1},
   1 :> {1} @@ 2 :> {1} @@ 11 :> {1},
   1 :> {}  @@ 2 :> {1} @@ 11 :> {}}

\* Nothing fails; every write of a step fails, or none; every read of a step
\* fails without an exception, or none.
Reliable        == {{}}
AnyWriteFailure == {{}, Slot}
AnyReadLost     == {{}, Owner}

=============================================================================
