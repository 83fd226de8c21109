------------------------------ MODULE MCTakers ------------------------------
(***************************************************************************)
(* Takers for TLC: the plans of a rebalance.  Each has a sell that is      *)
(* larger than the holding; the buy of the first is below the minimum.     *)
(***************************************************************************)
EXTENDS Takers

MCLeg(side, delta, held, minimum) ==
  [side |-> side, deltaUsd |-> delta, heldQuantity |-> held, minOrderSize |-> minimum]

MCPlans ==
  {<<MCLeg("buy", 8, 0, 6), MCLeg("sell", 8, 3, 0)>>,
   <<MCLeg("buy", 4, 0, 0), MCLeg("sell", 4, 4, 0), MCLeg("sell", 8, 3, 0)>>}
=============================================================================
