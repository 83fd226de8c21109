------------------------------ MODULE Samples -------------------------------
(***************************************************************************)
(* The window of sampled prices three strategies keep in their state.      *)
(* Statistics are taken from the window before the current price enters.   *)
(***************************************************************************)
EXTENDS Integers, SequencesExt

CONSTANTS
  Quotes,         \* bound: the prices there are
  LookbackTicks   \* lookback_ticks

ASSUME SamplesAssumption ==
  /\ Quotes \subseteq Nat \ {0}
  /\ LookbackTicks \in Nat \ {0}

Windows == BoundedSeq(Quotes, LookbackTicks)

PushWindow(prices, price) ==
  LET next == Append(prices, price)
  IN IF Len(next) > LookbackTicks THEN Tail(next) ELSE next

IsWarm(prices) == Len(prices) = LookbackTicks

SumOf(prices)     == FoldLeft(LAMBDA sum, p : sum + p, 0, prices)
SquaresOf(prices) == FoldLeft(LAMBDA sum, p : sum + p * p, 0, prices)
=============================================================================
