---------------------------- MODULE MCTPowerServer ----------------------------
(* Small instances of TPowerServer, with one rack.                         *)
EXTENDS TPowerServer, TotalPowerProperties, TLC

\* It has a power device or not; it has two.
MaybeADevice == {1 :> {1}, 1 :> {}}
TwoDevices   == {1 :> {1, 2}}

Reliable == {{}}

=============================================================================
