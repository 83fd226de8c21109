------------------------------- MODULE Chase --------------------------------
(***************************************************************************)
(* The chase: one resting order, cancelled and posted again where the book *)
(* went, at most maxChases times.                                          *)
(*                                                                         *)
(* A price is measured in basis points in the direction in which the book  *)
(* runs away from the order: up for a buy and down for a sell, so that one *)
(* model serves both sides.                                                *)
(***************************************************************************)
EXTENDS StrategyHost, Legs

CONSTANTS
  Quotes,      \* bound: where the touch, moved by the offset, may be
  BoundPrice,  \* the caller's limit_price
  Quantity,    \* the size to trade
  MaxChases

REPOST_THRESHOLD_BPS      == 2
MAX_CANCEL_CONFIRM_CHECKS == 3

ASSUME ChaseAssumption ==
  /\ Quotes \subseteq Nat
  /\ BoundPrice \in Nat
  /\ Quantity \in Nat \ {0}
  /\ MaxChases \in Nat \ {0}

NoId == "none"

ChaseLeg ==
  [id : Legs \union {NoId}, price : Nat, seenOpen : BOOLEAN,
   missedChecks : 0 .. ABSENCE_GRACE_CHECKS, cancelRequested : BOOLEAN,
   cancelChecks : 0 .. MAX_CANCEL_CONFIRM_CHECKS]

Posted(l, price) ==
  [id |-> l, price |-> price, seenOpen |-> FALSE, missedChecks |-> 0,
   cancelRequested |-> FALSE, cancelChecks |-> 0]

NoLeg == Posted(NoId, 0)

\* sized: the quantity does not round to zero; fresh: checks = 0.
ChaseState ==
  [sized : BOOLEAN, chasesUsed : 0 .. MaxChases, resting : ChaseLeg, fresh : BOOLEAN]

ChaseInit ==
  \E sized \in BOOLEAN :
    state = [sized |-> sized, chasesUsed |-> 0, resting |-> NoLeg, fresh |-> TRUE]

\* targetPrice: never through the bound.
Target(quote) == IF quote > BoundPrice THEN BoundPrice ELSE quote

HasMovedAway(target) == target >= state.resting.price + REPOST_THRESHOLD_BPS

ChaseOrder(price) == Limit("buy", Quantity, price)

\* post: with no quote the job waits, having forgotten the order it had.
Post(from, chaseCost) ==
  \/ Return(from, <<>>, NotDone)
  \/ /\ FreshLegs({}) # {}
     /\ \E quote \in Quotes :
          LET l == CHOOSE l \in FreshLegs({}) : TRUE
          IN Return([from EXCEPT !.resting = Posted(l, Target(quote)),
                                 !.chasesUsed = @ + chaseCost, !.fresh = TRUE],
                    <<Submit(l, ChaseOrder(Target(quote)))>>, NotDone)

ChaseCalled == Called("chase") /\ state.sized
Resting     == ChaseCalled /\ state.resting # NoLeg /\ ~state.resting.cancelRequested
Cancelling  == ChaseCalled /\ state.resting.cancelRequested

ChaseRoundedToZero ==
  /\ Called("chase")
  /\ ~state.sized
  /\ Return(state, <<>>, Ending("failed", TRUE))
  /\ ReadsNothing

ChaseOpening ==
  /\ ChaseCalled
  /\ state.resting = NoLeg
  /\ Post(state, 0)
  /\ ReadsNothing

PostWasRejected == state.fresh /\ row.lastError

ChasePostRejected ==
  /\ Resting
  /\ PostWasRejected
  /\ Return(state, <<>>, Ending("failed", TRUE))
  /\ ReadsNothing

ChaseObserved(listing) == Observe(state.resting, state.resting.id \in listing)

\* The book is left alone: no quote, no move worth a chase, or nothing that can be
\* cancelled; or it has moved and the budget is spent, and the order is left resting.
Follow(next) ==
  \/ Return(next, <<>>, NotDone)
  \/ \E quote \in Quotes :
       /\ HasMovedAway(Target(quote))
       /\ \/ /\ state.chasesUsed >= MaxChases
             /\ Return(next, <<>>, Ending("completed", TRUE))
          \/ /\ state.chasesUsed < MaxChases
             /\ next.resting.seenOpen
             /\ Return([next EXCEPT !.resting.cancelRequested = TRUE,
                                    !.resting.cancelChecks = 0],
                       <<Cancel(next.resting.id)>>, NotDone)

ChaseWatch ==
  /\ Resting
  /\ ~PostWasRejected
  /\ \E listing \in Listings :
       LET leg  == ChaseObserved(listing)
           next == [state EXCEPT !.resting = leg, !.fresh = FALSE]
       IN /\ Reads(listing)
          /\ IF IsResolved(leg, ABSENCE_GRACE_CHECKS)
             THEN Return(next, <<>>, Ending("completed", TRUE))
             ELSE Follow(next)

CancelWasRefused == state.resting.cancelChecks = 0 /\ row.lastError

\* A refused cancel is taken for a fill.
ChaseCancelRefused ==
  /\ Cancelling
  /\ CancelWasRefused
  /\ Return([state EXCEPT !.resting.cancelRequested = FALSE], <<>>, Ending("completed", TRUE))
  /\ ReadsNothing

\* Wrong: the wait for a cancel is not counted.
StillWaiting(leg) == leg

\* One more advance spent waiting for the cancel to be confirmed.
OneMoreWait(leg) == [leg EXCEPT !.cancelChecks = @ + 1]

\* Wrong: an accepted cancel is taken for one that has taken effect.
AcceptedIsLanded(leg) == TRUE

CancelLanded(leg) == IsResolved(leg, ABSENCE_GRACE_CHECKS)

ChaseConfirm ==
  /\ Cancelling
  /\ ~CancelWasRefused
  /\ \E listing \in Listings :
       LET leg == ChaseObserved(listing)
       IN /\ Reads(listing)
          /\ \/ /\ CancelLanded(leg)
                /\ Post([state EXCEPT !.resting = NoLeg], 1)
             \/ /\ ~CancelLanded(leg)
                /\ leg.cancelChecks >= MAX_CANCEL_CONFIRM_CHECKS
                /\ Return([state EXCEPT !.resting = leg], <<>>, Ending("failed", TRUE))
             \/ /\ ~CancelLanded(leg)
                /\ leg.cancelChecks < MAX_CANCEL_CONFIRM_CHECKS
                /\ Return([state EXCEPT !.resting = OneMoreWait(leg)], <<>>, NotDone)

\* The advances that await a quote or the open orders.
ChaseReads ==
  \/ ChaseCalled /\ state.resting = NoLeg
  \/ Resting /\ ~PostWasRejected
  \/ Cancelling /\ ~CancelWasRefused

ChaseAdvance == ChaseRoundedToZero \/ ChaseOpening \/ ChasePostRejected \/ ChaseWatch
                \/ ChaseCancelRefused \/ ChaseConfirm
=============================================================================
