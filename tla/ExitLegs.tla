------------------------------ MODULE ExitLegs ------------------------------
(***************************************************************************)
(* The orders of a bracket and of an OCO, by the client order ids their    *)
(* init mints.  Every order is for the whole position, which is one unit;  *)
(* its price plays no part.                                                *)
(***************************************************************************)
EXTENDS StrategyHost

ExitLegs   == {"take_profit", "stop"}
PairLegs   == {"entry"} \union ExitLegs
Twin(l)    == CHOOSE t \in ExitLegs : t # l
Exit       == Limit("sell", 1, 0)
Entry(type) == IF type = "market" THEN Market("buy", 1) ELSE Limit("buy", 1, 0)
=============================================================================
