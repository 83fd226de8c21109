------------------------------ MODULE Iceberg -------------------------------
(***************************************************************************)
(* The iceberg: a large order shown one slice at a time, each placed after *)
(* the one before has left the book, until a deadline.                     *)
(***************************************************************************)
EXTENDS Sizes, Legs, Clock

CONSTANTS
  TotalQuantity, VisibleQuantity,
  MinOrderSizes  \* bound: what the venue's minimum may be

ASSUME IcebergAssumption ==
  /\ TotalQuantity \in Nat /\ VisibleQuantity \in 1 .. TotalQuantity - 1
  /\ MinOrderSizes \subseteq 0 .. VisibleQuantity

NoSlice == "none"

Slice ==
  [id : Legs \union {NoSlice}, quantity : 0 .. VisibleQuantity, seenOpen : BOOLEAN,
   missedChecks : 0 .. ABSENCE_GRACE_CHECKS]

Shown(l, quantity) ==
  [id |-> l, quantity |-> quantity, seenOpen |-> FALSE, missedChecks |-> 0]

\* pegged: there is no limit price, and each slice rests at the touch; fresh: checks = 0.
IcebergState ==
  [pegged : BOOLEAN, minOrderSize : MinOrderSizes, filledQuantity : 0 .. TotalQuantity,
   working : Slice, fresh : BOOLEAN]

IcebergInit ==
  \E pegged \in BOOLEAN, minimum \in MinOrderSizes :
    state = [pegged |-> pegged, minOrderSize |-> minimum, filledQuantity |-> 0,
             working |-> Shown(NoSlice, 0), fresh |-> TRUE]

IsWorking        == state.working.id # NoSlice
IcebergCalled    == Called("iceberg") /\ ~Expired
SliceWasRejected == IsWorking /\ state.fresh /\ row.lastError

\* The deadline cancels the slice only if its order id is known.
IcebergExpire ==
  /\ Called("iceberg")
  /\ Expired
  /\ Return(state, IF state.working.seenOpen THEN <<Cancel(state.working.id)>> ELSE <<>>,
            Ending("completed", TRUE))
  /\ ReadsNothing

IcebergSliceRejected ==
  /\ IcebergCalled
  /\ SliceWasRejected
  /\ Return(state, <<>>, Ending("failed", TRUE))
  /\ ReadsNothing

\* The next slice is whole increments of what is left; a rest below one comes to nothing.
NextSlice(current) ==
  LET remaining == TotalQuantity - current.filledQuantity
  IN RoundDown(IF remaining < VisibleQuantity THEN remaining ELSE VisibleQuantity)

IsPlaceable(slice, minOrderSize) == 0 < slice /\ slice >= minOrderSize

\* Place the next slice, or stop: nothing left to place, too little left, no quote.
Refill(current) ==
  LET slice == NextSlice(current)
  IN \/ /\ slice = 0
        /\ Return(current, <<>>, Ending("completed", FALSE))
     \/ /\ 0 < slice /\ slice < current.minOrderSize
        /\ Return(current, <<>>, Ending("completed", TRUE))
     \/ /\ IsPlaceable(slice, current.minOrderSize)
        /\ \/ /\ current.pegged
              /\ Return(current, <<>>, NotDone)
           \/ \E l \in FreshLeg :
                Return([current EXCEPT !.working = Shown(l, slice), !.fresh = TRUE],
                       <<Submit(l, Limit("buy", slice, 0))>>, NotDone)

IcebergOpening ==
  /\ IcebergCalled
  /\ ~IsWorking
  /\ Refill(state)
  /\ ReadsNothing

\* What the iceberg makes of its slice when it reads the open orders, and what remains of
\* the job when the slice has left the book.
SliceIn(listing) == Observe(state.working, state.working.id \in listing)

Credited(credit) ==
  [state EXCEPT !.working = Shown(NoSlice, 0), !.fresh = TRUE, !.filledQuantity = @ + credit]

IcebergWatch ==
  /\ IcebergCalled
  /\ IsWorking
  /\ ~SliceWasRejected
  /\ \E listing \in Listings :
       LET slice == SliceIn(listing)
       IN /\ Reads(listing)
          /\ \/ /\ ~IsResolved(slice, ABSENCE_GRACE_CHECKS)
                /\ Return([state EXCEPT !.working = slice, !.fresh = FALSE], <<>>, NotDone)
             \/ /\ IsResolved(slice, ABSENCE_GRACE_CHECKS)
                /\ \E credit \in Credits(slice.id, slice.quantity, slice.seenOpen) :
                     Refill(Credited(credit))

\* The advances that await the open orders or a quote.
AwaitsQuote(current) ==
  current.pegged /\ IsPlaceable(NextSlice(current), current.minOrderSize)

IcebergReads ==
  /\ IcebergCalled
  /\ ~SliceWasRejected
  /\ \/ ~IsWorking /\ AwaitsQuote(state)
     \/ IsWorking /\ Known # {}
     \/ /\ IsWorking
        /\ \E listing \in Listings :
             LET slice == SliceIn(listing)
             IN /\ IsResolved(slice, ABSENCE_GRACE_CHECKS)
                /\ \E credit \in Credits(slice.id, slice.quantity, slice.seenOpen) :
                     AwaitsQuote(Credited(credit))

IcebergAdvance == IcebergExpire \/ IcebergSliceRejected \/ IcebergOpening \/ IcebergWatch
=============================================================================
