------------------------------- MODULE Clock --------------------------------
(***************************************************************************)
(* The time a strategy compares its deadline with.                         *)
(***************************************************************************)
EXTENDS Naturals

CONSTANT Duration  \* when the deadline of the job is

ASSUME ClockAssumption == Duration \in Nat

VARIABLE now       \* bound: no time is told apart after the deadline

Expired  == now >= Duration
PassTime == now < Duration /\ now' = now + 1
=============================================================================
