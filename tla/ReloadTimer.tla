----------------------------- MODULE ReloadTimer -----------------------------
(***************************************************************************)
(* What the agent promises about the reload of the topology, without any   *)
(* of its threads, messages and timeouts: a timer that is started by the   *)
(* first change, is neither moved nor stopped by later ones, and is served *)
(* not before it is due and at most Slack seconds late.  A reload that     *)
(* failed starts it again.                                                 *)
(***************************************************************************)
EXTENDS Naturals

CONSTANTS
  Delay,   \* from the first change to the reload
  Slack    \* by how much the reload may be late

VARIABLES
  clock,   \* the time, in seconds
  due      \* when to reload, 0 for never

Init == clock \in Nat \ {0} /\ due = 0

Change ==
  /\ due = 0
  /\ due' = clock + Delay
  /\ UNCHANGED clock

Reload ==
  /\ due # 0 /\ due <= clock
  /\ due' \in {0, clock + Delay}
  /\ UNCHANGED clock

\* Time does not pass the last moment for the reload.
Tick ==
  /\ due # 0 => clock < due + Slack
  /\ clock' = clock + 1
  /\ UNCHANGED due

Next == Change \/ Reload \/ Tick

Spec == Init /\ [][Next]_<<clock, due>>

=============================================================================
