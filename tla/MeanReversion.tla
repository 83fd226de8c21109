--------------------------- MODULE MeanReversion ----------------------------
(***************************************************************************)
(* Mean reversion: enter against a price that is EntryZ standard           *)
(* deviations from the mean of its window, exit when it has come back to   *)
(* ExitZ.                                                                  *)
(***************************************************************************)
EXTENDS Position

CONSTANTS EntryZ, ExitZ

ASSUME MeanReversionAssumption == EntryZ \in Nat /\ ExitZ \in Nat /\ ExitZ < EntryZ

\* sides: what side_mode allows; side: the direction, once there is one.
MeanReversionState ==
  [sides : SUBSET Sides, side : Sides \union {"none"}, phase : Phases, prices : Windows,
   fresh : BOOLEAN]

MeanReversionInit ==
  \E sides \in SUBSET Sides \ {{}} :
    state = [sides |-> sides, side |-> "none", phase |-> "watching", prices |-> <<>>,
             fresh |-> TRUE]

\* The variance of the window and the distance of a price below its mean (above it, for
\* a short), in units of one over LookbackTicks: what they are compared as is a ratio.
Spread == LookbackTicks * SquaresOf(state.prices) - SumOf(state.prices) * SumOf(state.prices)

Stretch(side, price) ==
  LET below == SumOf(state.prices) - LookbackTicks * price
  IN IF side = "buy" THEN below ELSE -below

IsSignal(price) == IsWarm(state.prices) /\ Spread > 0

Overstretched(side, price) ==
  LET d == Stretch(side, price) IN d > 0 /\ d * d >= EntryZ * EntryZ * Spread

Reverted(price) ==
  LET d == Stretch(state.side, price) IN d <= 0 \/ d * d <= ExitZ * ExitZ * Spread

\* Warming up, or a flat window.
MeanReversionSample(price) ==
  ~IsSignal(price) /\ Return(Sampled(price), <<>>, NotDone)

\* Before a short the holding is read again, and may be too small.
MeanReversionWatch(price) ==
  /\ state.phase = "watching"
  /\ IsSignal(price)
  /\ \/ /\ \A side \in state.sides \ {"sell"} : ~Overstretched(side, price)
        /\ Return(Sampled(price), <<>>, NotDone)
     \/ \E side \in state.sides :
          /\ Overstretched(side, price)
          /\ Trades([Sampled(price) EXCEPT !.phase = "in_position", !.side = side], side,
                    NotDone)

MeanReversionHold(price) ==
  /\ state.phase = "in_position"
  /\ IsSignal(price)
  /\ LET held == [Sampled(price) EXCEPT !.fresh = FALSE]
     IN \/ ~Reverted(price) /\ Return(held, <<>>, NotDone)
        \/ Reverted(price) /\ Leaves(held, Ending("completed", TRUE))

MeanReversionAdvance ==
  /\ Called("mean_reversion")
  /\ \/ PositionSteps
     \/ /\ PositionReads
        /\ \E price \in Quotes :
             \/ MeanReversionSample(price)
             \/ MeanReversionWatch(price)
             \/ MeanReversionHold(price)
  /\ ReadsNothing
=============================================================================
