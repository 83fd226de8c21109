------------------------------- MODULE Sizes --------------------------------
(***************************************************************************)
(* Sizes count a unit finer than the increment the venue trades in, so     *)
(* that rounding shows.                                                    *)
(***************************************************************************)
EXTENDS StrategyHost

CONSTANT Increment  \* asset_increment

ASSUME SizesAssumption == Increment \in Nat \ {0}

\* Wrong: a size is rounded up.
RoundUp(quantity) == Increment * ((quantity + Increment - 1) \div Increment)

\* roundToIncrement rounds down; the tolerance for binary fractions is not needed here.
RoundDown(quantity) == quantity - (quantity % Increment)

\* An order without an id of its own gets one when it is submitted; here it takes its
\* id when the step is returned.
FreshLeg == {l \in FreshLegs({}) : l = CHOOSE fresh \in FreshLegs({}) : TRUE}
=============================================================================
