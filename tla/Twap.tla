-------------------------------- MODULE Twap --------------------------------
(***************************************************************************)
(* TWAP: one order split into slices, each an even share of what is left.  *)
(* A slice counts as filled when it is released.                           *)
(***************************************************************************)
EXTENDS Sizes

CONSTANTS
  TwapTotals,  \* bound: total_quantity
  Slices

ASSUME TwapAssumption == TwapTotals \subseteq Nat \ {0} /\ Slices \in Nat /\ Slices >= 2

\* limited: limitPrice is not null.
TwapState ==
  [total : TwapTotals, limited : BOOLEAN, slicesDone : 0 .. Slices, filledQuantity : Nat]

TwapInit ==
  \E total \in TwapTotals, limited \in BOOLEAN :
    state = [total |-> total, limited |-> limited, slicesDone |-> 0, filledQuantity |-> 0]

TwapIsDone == state.slicesDone = Slices

\* Wrong: the slices are equal shares of the total.
EqualShare(s) == s.total \div Slices

Share(s) == (s.total - s.filledQuantity) \div (Slices - s.slicesDone)

TwapDone ==
  /\ Called("twap")
  /\ TwapIsDone
  /\ Return(state, <<>>, Ending("completed", FALSE))
  /\ ReadsNothing

TwapRoundsToZero ==
  /\ Called("twap")
  /\ ~TwapIsDone
  /\ RoundDown(Share(state)) = 0
  /\ Return(state, <<>>, Ending("completed", TRUE))
  /\ ReadsNothing

TwapReads == Called("twap") /\ ~TwapIsDone /\ state.limited /\ RoundDown(Share(state)) > 0

\* The price is past the limit: the slice is not consumed.
TwapSkip ==
  /\ TwapReads
  /\ Return(state, <<>>, NotDone)
  /\ ReadsNothing

\* The last slice ends the job in the step that sends it.
TwapSlice ==
  /\ Called("twap")
  /\ ~TwapIsDone
  /\ LET size == RoundDown(Share(state))
         next == [state EXCEPT !.slicesDone = @ + 1, !.filledQuantity = @ + size]
     IN /\ size > 0
        /\ \E l \in FreshLeg :
             Return(next,
                    <<Submit(l, IF state.limited THEN Limit("buy", size, 1)
                                ELSE Market("buy", size))>>,
                    IF next.slicesDone = Slices THEN Ending("completed", FALSE) ELSE NotDone)
  /\ ReadsNothing

TwapAdvance == TwapDone \/ TwapRoundsToZero \/ TwapSkip \/ TwapSlice
=============================================================================
