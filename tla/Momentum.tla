------------------------------ MODULE Momentum ------------------------------
(***************************************************************************)
(* Momentum: enter when the price leaves its window by a percentage, exit  *)
(* when it gives back a percentage of the best price since.                *)
(***************************************************************************)
EXTENDS Position

CONSTANTS BreakoutPct, ExitPct

ASSUME MomentumAssumption == BreakoutPct \in Nat \ {0} /\ ExitPct \in 1 .. 99

MomentumState ==
  [side : Sides, phase : Phases, prices : Windows, peak : Quotes \union {0}, fresh : BOOLEAN]

MomentumInit ==
  \E side \in Sides :
    state = [side |-> side, phase |-> "watching", prices |-> <<>>, peak |-> 0, fresh |-> TRUE]

\* p is at least as far as q in the direction of the entry.
AsFar(p, q) == IF state.side = "buy" THEN p >= q ELSE p <= q
Sign        == IF state.side = "buy" THEN 1 ELSE -1

Broke(price) ==
  /\ IsWarm(state.prices)
  /\ \A i \in DOMAIN state.prices :
       AsFar(100 * price, (100 + Sign * BreakoutPct) * state.prices[i])

MomentumWatch(price) ==
  /\ state.phase = "watching"
  /\ \/ ~Broke(price) /\ Return(Sampled(price), <<>>, NotDone)
     \/ /\ Broke(price)
        /\ Trades([Sampled(price) EXCEPT !.phase = "in_position", !.peak = price], state.side,
                  NotDone)

Peak(price) == IF AsFar(price, state.peak) THEN price ELSE state.peak

GaveBack(price) == AsFar((100 - Sign * ExitPct) * Peak(price), 100 * price)

MomentumHold(price) ==
  /\ state.phase = "in_position"
  /\ LET carried == [Sampled(price) EXCEPT !.peak = Peak(price), !.fresh = FALSE]
     IN \/ ~GaveBack(price) /\ Return(carried, <<>>, NotDone)
        \/ GaveBack(price) /\ Leaves(carried, Ending("completed", TRUE))

MomentumAdvance ==
  /\ Called("momentum")
  /\ \/ PositionSteps
     \/ PositionReads /\ \E price \in Quotes : MomentumWatch(price) \/ MomentumHold(price)
  /\ ReadsNothing
=============================================================================
