----------------------------- MODULE Accumulate -----------------------------
(***************************************************************************)
(* Accumulate: buy slices of a target, only while the price is below the   *)
(* average of its window by a percentage and below a ceiling, until a      *)
(* deadline.  A slice counts as acquired when it is released.              *)
(***************************************************************************)
EXTENDS Sizes, Samples, Clock

CONSTANTS
  TargetQuantities,  \* bound: target_quantity
  SliceQuantity, BuyBelowPct, MaxPrice,
  SliceMinimums      \* bound: what the venue's minimum may be

ASSUME AccumulateAssumption ==
  /\ SliceQuantity \in Nat \ {0} /\ SliceQuantity % Increment = 0
  /\ \A target \in TargetQuantities : target \in Nat /\ target >= SliceQuantity
  /\ SliceMinimums \subseteq 0 .. SliceQuantity
  /\ BuyBelowPct \in 1 .. 99

AccumulateState ==
  [target : TargetQuantities, minOrderSize : SliceMinimums, prices : Windows,
   acquiredQuantity : Nat]

AccumulateInit ==
  \E target \in TargetQuantities, minimum \in SliceMinimums :
    state = [target |-> target, minOrderSize |-> minimum, prices |-> <<>>,
             acquiredQuantity |-> 0]

Remaining == state.target - state.acquiredQuantity

AccumulateReached ==
  /\ Called("accumulate")
  /\ Remaining = 0
  /\ Return(state, <<>>, Ending("completed", FALSE))
  /\ ReadsNothing

AccumulateExpire ==
  /\ Called("accumulate")
  /\ Remaining > 0
  /\ Expired
  /\ Return(state, <<>>, Ending("completed", TRUE))
  /\ ReadsNothing

AccumulateReads == Called("accumulate") /\ Remaining > 0 /\ ~Expired

AccumulateNoPrice ==
  /\ AccumulateReads
  /\ Return(state, <<>>, NotDone)
  /\ ReadsNothing

\* price is weak: below the ceiling, and below the average by the percentage.
IsWeak(price, prices) ==
  /\ IsWarm(prices)
  /\ price <= MaxPrice
  /\ 100 * LookbackTicks * price <= (100 - BuyBelowPct) * SumOf(prices)

AccumulateSample ==
  /\ AccumulateReads
  /\ \E price \in Quotes :
       /\ ~IsWeak(price, state.prices)
       /\ Return([state EXCEPT !.prices = PushWindow(@, price)], <<>>, NotDone)
  /\ ReadsNothing

NextSlice == RoundDown(IF SliceQuantity < Remaining THEN SliceQuantity ELSE Remaining)

TooSmall(slice) == slice = 0 \/ slice < state.minOrderSize

AccumulateBuy ==
  /\ AccumulateReads
  /\ \E price \in Quotes :
       LET sampled == [state EXCEPT !.prices = PushWindow(@, price)]
           next    == [sampled EXCEPT !.acquiredQuantity = @ + NextSlice]
       IN /\ IsWeak(price, state.prices)
          /\ \/ /\ TooSmall(NextSlice)
                /\ Return(sampled, <<>>, Ending("completed", TRUE))
             \/ /\ ~TooSmall(NextSlice)
                /\ \E l \in FreshLeg :
                     Return(next, <<Submit(l, Limit("buy", NextSlice, price))>>,
                            IF next.acquiredQuantity = state.target
                            THEN Ending("completed", FALSE) ELSE NotDone)
  /\ ReadsNothing

AccumulateAdvance ==
  AccumulateReached \/ AccumulateExpire \/ AccumulateNoPrice \/ AccumulateSample \/ AccumulateBuy
=============================================================================
