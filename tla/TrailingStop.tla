---------------------------- MODULE TrailingStop ----------------------------
(***************************************************************************)
(* The trailing stop: a watermark that follows the quotes the job reads,   *)
(* and one market order once a quote has retraced past the trail.          *)
(***************************************************************************)
EXTENDS StrategyHost, Integers

CONSTANTS
  Prices,      \* bound: the quotes Robinhood may give (positive integers)
  ActivationPrices, \* those of them the caller may give as activation_price
  Trails       \* the trail distances: [unit : {"percent", "amount"}, distance : Nat]

\* NoPrice stands for null: no quote, no watermark, no activation price.
NoPrice == 0

ASSUME TrailingStopAssumption ==
  /\ Prices \subseteq Nat \ {0}
  /\ ActivationPrices \subseteq Prices
  /\ Trails \subseteq [unit : {"percent", "amount"}, distance : Nat]

TrailingStopState ==
  [side : {"sell", "buy"}, sized : BOOLEAN, trail : Trails,
   activationPrice : ActivationPrices \union {NoPrice}, activated : BOOLEAN,
   watermark : Prices \union {NoPrice}]

TrailingStopInit ==
  \E side \in {"sell", "buy"}, sized \in BOOLEAN, trail \in Trails,
     activationPrice \in ActivationPrices \union {NoPrice} :
    state = [side |-> side, sized |-> sized, trail |-> trail,
             activationPrice |-> activationPrice,
             activated |-> activationPrice = NoPrice, watermark |-> NoPrice]

\* p is at least as good for the position as q.
AtLeast(side, p, q) == IF side = "sell" THEN p >= q ELSE p <= q
Better(side, p, q)  == AtLeast(side, p, q) /\ p # q

\* trailStop: price is past the stop a watermark implies; in hundredths for a percentage.
Retraced(price, watermark) ==
  LET d == state.trail.distance
      sign == IF state.side = "sell" THEN -1 ELSE 1
  IN IF state.trail.unit = "percent"
     THEN AtLeast(state.side, watermark * (100 + sign * d), 100 * price)
     ELSE AtLeast(state.side, watermark + sign * d, price)

Trailing(price) == Called("trailing_stop") /\ price \in Prices /\ ReadsNothing

\* A missing quote is not a retracement.
TrailingNoPrice ==
  /\ Called("trailing_stop")
  /\ Return(state, <<>>, NotDone)
  /\ ReadsNothing

Dormant(price) ==
  /\ Trailing(price)
  /\ ~state.activated
  /\ IF AtLeast(state.side, price, state.activationPrice)
     THEN Return([state EXCEPT !.activated = TRUE, !.watermark = price], <<>>, NotDone)
     ELSE Return(state, <<>>, NotDone)

Arm(price) ==
  /\ Trailing(price)
  /\ state.activated
  /\ state.watermark = NoPrice
  /\ Return([state EXCEPT !.watermark = price], <<>>, NotDone)

\* Wrong: the watermark follows the price down.
LastPrice(price) == price

NewWatermark(price) ==
  IF Better(state.side, price, state.watermark) THEN price ELSE state.watermark

\* Wrong: the job goes on after its exit.
KeepsTrailing == NotDone

Exited == Ending("completed", FALSE)

\* The exit takes an id nobody has used; the job completes in the same advance.
Trail(price) ==
  /\ Trailing(price)
  /\ state.activated
  /\ state.watermark # NoPrice
  /\ LET next == [state EXCEPT !.watermark = NewWatermark(price)]
     IN \/ /\ ~Retraced(price, next.watermark)
           /\ Return(next, <<>>, NotDone)
        \/ /\ Retraced(price, next.watermark)
           /\ ~state.sized
           /\ Return(next, <<>>, Ending("failed", TRUE))
        \/ /\ Retraced(price, next.watermark)
           /\ state.sized
           /\ FreshLegs({}) # {}
           /\ LET l == CHOOSE l \in FreshLegs({}) : TRUE
              IN Return(next, <<Submit(l, Market(state.side, 1))>>, Exited)

TrailingReads == Called("trailing_stop")

TrailingAdvance == TrailingNoPrice \/ \E p \in Prices : Dormant(p) \/ Arm(p) \/ Trail(p)
=============================================================================
