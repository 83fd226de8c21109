------------------------------ MODULE Position ------------------------------
(***************************************************************************)
(* What momentum and mean reversion have in common: one position, entered  *)
(* and left with a market order, and a deadline that closes it.            *)
(***************************************************************************)
EXTENDS Sizes, Samples, Clock

CONSTANT PositionSize  \* quantity

ASSUME PositionAssumption == PositionSize \in Nat \ {0}

Phases == {"watching", "in_position", "exited"}

Opposite(side) == IF side = "buy" THEN "sell" ELSE "buy"

\* The step that returns newState and sends one market order.
Trades(newState, side, ending) ==
  \E l \in FreshLeg :
    Return(newState, <<Submit(l, Market(side, PositionSize))>>, ending)

Leaves(s, ending) == Trades([s EXCEPT !.phase = "exited"], Opposite(s.side), ending)

PositionClosed ==
  /\ state.phase = "exited"
  /\ Return(state, <<>>, Ending("completed", FALSE))

\* The deadline comes before the reading of last_error.
PositionExpires ==
  /\ state.phase # "exited"
  /\ Expired
  /\ \/ /\ state.phase = "watching"
        /\ Return([state EXCEPT !.phase = "exited"], <<>>, Ending("completed", TRUE))
     \/ /\ state.phase = "in_position"
        /\ Leaves(state, Ending("completed", TRUE))

PositionGoesOn == state.phase # "exited" /\ ~Expired

\* Wrong: a refused entry is not noticed.
EntryErrorIgnored == FALSE

\* fresh: ticksInPosition = 0.
EntryWasRejected == state.phase = "in_position" /\ state.fresh /\ row.lastError

PositionRejected ==
  /\ PositionGoesOn
  /\ EntryWasRejected
  /\ Return([state EXCEPT !.phase = "exited"], <<>>, Ending("failed", TRUE))

PositionReads == PositionGoesOn /\ ~EntryWasRejected

PositionNoPrice == PositionReads /\ Return(state, <<>>, NotDone)

PositionSteps == PositionClosed \/ PositionExpires \/ PositionRejected \/ PositionNoPrice

Sampled(price) == [state EXCEPT !.prices = PushWindow(@, price)]
=============================================================================
