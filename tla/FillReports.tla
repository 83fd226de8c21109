----------------------------- MODULE FillReports -----------------------------
(***************************************************************************)
(* What the reports make of the executions of an account: tax lots matched *)
(* first in first out, the profit curve and its worst decline, and the     *)
(* round trips of the journal. Quantities and prices are whole numbers.    *)
(***************************************************************************)
EXTENDS Integers, SequencesExt

CONSTANTS
  Assets,
  Fills,     \* the executions there may be: [asset, side, quantity, price, dated]
  Marks,     \* the live prices an asset may have
  MaxFills   \* bound: the length of the history

Fill ==
  [asset : Assets, side : {"buy", "sell"}, quantity : Nat \ {0}, price : Nat, dated : BOOLEAN]

ASSUME FillsAssumption ==
  /\ IsFiniteSet(Assets)
  /\ Fills \subseteq Fill
  /\ Marks \subseteq Nat

VARIABLE history  \* as it happened

Init == history = <<>>

Next == \E fill \in Fills : Len(history) < MaxFills /\ history' = Append(history, fill)

Spec == Init /\ [][Next]_history

-----------------------------------------------------------------------------
\* The venue lists the newest first, a fill without a readable time has time 0, and the
\* sort by time is stable: it puts those in front, the newest of them first.
Sorted(fills, fill) == IF fill.dated THEN Append(fills, fill) ELSE <<fill>> \o fills

Chronological == FoldLeft(Sorted, <<>>, history)

Lot(fill) == [quantity |-> fill.quantity, price |-> fill.price]

\* Wrong: the newest lot is matched first.
PutInFront(lots, lot) == <<lot>> \o lots

PutBehind(lots, lot) == Append(lots, lot)

\* One lot of the loop that matches a sell; nothing is left of it, or nothing
\* is left to match.
Consume(sell, lot) ==
  LET consumed == Min({lot.quantity, sell.left})
  IN [left  |-> sell.left - consumed,
      basis |-> sell.basis + consumed * lot.price,
      lots  |-> IF consumed = lot.quantity THEN sell.lots
                ELSE Append(sell.lots, [lot EXCEPT !.quantity = @ - consumed])]

Match(lots, quantity) ==
  FoldLeft(Consume, [left |-> quantity, basis |-> 0, lots |-> <<>>], lots)

Nil == [a \in Assets |-> 0]

EmptyBooks ==
  [lots |-> [a \in Assets |-> <<>>], disposed |-> Nil, realized |-> Nil, unmatched |-> Nil]

Buy(books, fill) == [books EXCEPT !.lots[fill.asset] = PutBehind(@, Lot(fill))]

Sell(books, fill) ==
  LET match    == Match(books.lots[fill.asset], fill.quantity)
      consumed == fill.quantity - match.left
  IN [books EXCEPT !.lots[fill.asset] = match.lots,
                   !.disposed[fill.asset] = @ + consumed,
                   !.realized[fill.asset] = @ + consumed * fill.price - match.basis,
                   !.unmatched[fill.asset] = @ + match.left]

Book(books, fill) == IF fill.side = "buy" THEN Buy(books, fill) ELSE Sell(books, fill)

computeCostBasis(fills) == FoldLeft(Book, EmptyBooks, fills)

\* The open position of an asset, as the lots add up.
AddQuantity(sum, lot) == sum + lot.quantity
AddCost(sum, lot)     == sum + lot.quantity * lot.price

Quantity(lots)  == FoldLeft(AddQuantity, 0, lots)
CostBasis(lots) == FoldLeft(AddCost, 0, lots)

-----------------------------------------------------------------------------
unrealized(lots, prices) ==
  SumFunctionOnSet(
    [a \in Assets |-> Quantity(lots[a]) * prices[a] - CostBasis(lots[a])], Assets)

Worth(books, prices) ==
  SumFunctionOnSet(books.realized, Assets) + unrealized(books.lots, prices)

\* The curve has a point for each fill, at the prices each asset last traded at.
CurvePoint(curve, fill) ==
  LET books  == Book(curve.books, fill)
      prices == [curve.prices EXCEPT ![fill.asset] = fill.price]
  IN [books |-> books, prices |-> prices, points |-> Append(curve.points, Worth(books, prices))]

buildPnlCurve(fills) ==
  FoldLeft(CurvePoint, [books |-> EmptyBooks, prices |-> Nil, points |-> <<>>], fills)

\* The last point is today's, at the live prices.
MarkedToLive(curve, prices) == Append(curve.points, Worth(curve.books, prices))

\* Wrong: the peak is the value before.
LastValue(peak, value) == value

RunningPeak(peak, value) == IF value > peak THEN value ELSE peak

Decline(walk, value) ==
  LET index == walk.index + 1
      peak  == IF index = 1 THEN value ELSE RunningPeak(walk.peak, value)
      from  == IF index = 1 \/ value > walk.peak THEN index ELSE walk.from
  IN [walk EXCEPT
        !.index = index, !.peak = peak, !.from = from,
        !.worst = IF peak - value > walk.worst.decline
                  THEN [decline |-> peak - value, peak |-> from, trough |-> index]
                  ELSE walk.worst]

peakToTrough(values) ==
  FoldLeft(Decline,
           [index |-> 0, peak |-> 0, from |-> 0,
            worst |-> [decline |-> 0, peak |-> 0, trough |-> 0]],
           values).worst

-----------------------------------------------------------------------------
NewTrade == [paid |-> 0, received |-> 0, position |-> 0, fills |-> 0, incomplete |-> FALSE]

\* Wrong: the tolerance lets a whole unit through.
NearlyFlat(position) == position \in -1..1

\* The code's tolerance is a billionth of the largest position: dust.
IsFlat(position) == position = 0

Counted(trade, fill) ==
  LET signed   == IF fill.side = "buy" THEN fill.quantity ELSE -fill.quantity
      position == trade.position + signed
      notional == fill.quantity * fill.price
  IN [paid       |-> trade.paid + (IF fill.side = "buy" THEN notional ELSE 0),
      received   |-> trade.received + (IF fill.side = "sell" THEN notional ELSE 0),
      position   |-> position,
      fills      |-> trade.fills + 1,
      incomplete |-> trade.incomplete \/ position < 0]

Review(journal, fill) ==
  LET trade == Counted(journal.open, fill)
  IN IF IsFlat(trade.position)
     THEN [open |-> NewTrade, closed |-> Append(journal.closed, trade)]
     ELSE [journal EXCEPT !.open = trade]

\* A fill without a time has no place in the sequence and is left out.
ReviewOf(asset, journal, fill) ==
  IF fill.asset = asset /\ fill.dated THEN Review(journal, fill) ELSE journal

EmptyJournal == [open |-> NewTrade, closed |-> <<>>]

buildRoundTrips(fills, asset) ==
  FoldLeft(LAMBDA journal, fill : ReviewOf(asset, journal, fill), EmptyJournal, fills)

Trades(journal) ==
  ToSet(journal.closed) \cup (IF journal.open.fills = 0 THEN {} ELSE {journal.open})

AddPnl(sum, trade) == sum + trade.received - trade.paid

ClosedPnl(journal) == FoldLeft(AddPnl, 0, journal.closed)

-----------------------------------------------------------------------------
(***************************************************************************)
(* The reference: each unit bought has its price, and the k-th unit sold   *)
(* that was there to sell is the k-th unit bought.                         *)
(***************************************************************************)
AddUnits(units, lot) == units \o [u \in 1..lot.quantity |-> lot.price]

UnitsOf(asset, side, units, fill) ==
  IF fill.asset = asset /\ fill.side = side THEN AddUnits(units, fill) ELSE units

Units(fills, asset, side) ==
  FoldLeft(LAMBDA units, fill : UnitsOf(asset, side, units, fill), <<>>, fills)

OpenUnits(lots) == FoldLeft(AddUnits, <<>>, lots)

AddPrice(sum, price) == sum + price

Total(units) == FoldLeft(AddPrice, 0, units)

\* Whatever is bought and sold in whatever order and pieces, the open lots are
\* the units bought last, nothing is lost or made up between bought, sold, open
\* and unmatched, and the profit of an asset with its whole history is what its
\* sales brought less what exactly the units bought first had cost.
LotsAreFirstInFirstOut ==
  LET fills == Chronological
      books == computeCostBasis(fills)
  IN \A a \in Assets :
       LET bought   == Units(fills, a, "buy")
           sold     == Units(fills, a, "sell")
           disposed == books.disposed[a]
       IN /\ disposed + books.unmatched[a] = Len(sold)
          /\ OpenUnits(books.lots[a]) = SubSeq(bought, disposed + 1, Len(bought))
          /\ books.unmatched[a] = 0 =>
               books.realized[a] = Total(sold) - Total(SubSeq(bought, 1, disposed))

\* The journal and the tax lots cut the same history differently and agree on
\* it: a trade is called incomplete exactly when a sale found no lot, and
\* without one the closed trades, and the open one less what it still holds,
\* make what the lots realized. Fills without a time are left out of the one and
\* put first in the other, so histories that hold one are not compared.
JournalAgreesWithLots ==
  (\A i \in DOMAIN history : history[i].dated) =>
    LET books == computeCostBasis(Chronological)
    IN \A a \in Assets :
         LET journal == buildRoundTrips(Chronological, a)
             open    == journal.open
         IN /\ (\E trade \in Trades(journal) : trade.incomplete) <=> books.unmatched[a] > 0
            /\ books.unmatched[a] = 0 =>
                 books.realized[a] =
                   ClosedPnl(journal) + open.received - open.paid + CostBasis(books.lots[a])

\* The decline one pass over the curve reports is the largest between any two of
\* its points in order, also with the last point at any live prices, and it is
\* the decline between the two points it names.
DeclineIsTheWorst ==
  LET curve == buildPnlCurve(Chronological)
  IN \A prices \in [Assets -> Marks] :
       LET values == MarkedToLive(curve, prices)
           worst  == peakToTrough(values)
           n      == Len(values)
       IN /\ worst.decline =
               Max({0} \cup {values[p[1]] - values[p[2]] : p \in {q \in (1..n) \X (1..n) : q[1] < q[2]}})
          /\ worst.decline > 0 =>
               /\ worst.peak < worst.trough
               /\ values[worst.peak] - values[worst.trough] = worst.decline
=============================================================================
