------------------------------ MODULE MCExits -------------------------------
(***************************************************************************)
(* Exits for TLC: the trails, one of each unit.                            *)
(***************************************************************************)
EXTENDS Exits

MCTrails == {[unit |-> "amount", distance |-> 2], [unit |-> "percent", distance |-> 50]}
=============================================================================
