-------------------------------- MODULE Grid --------------------------------
(***************************************************************************)
(* The grid: buys rest below the market and sells above it, and an order   *)
(* that fills is answered by its opposite one level away.  Levels are      *)
(* numbered from the lowest, and the number stands for the price; the      *)
(* price each round trip entered at, and the profit, are reports.          *)
(***************************************************************************)
EXTENDS Sizes, Legs, Clock, Integers, SequencesExt

CONSTANTS
  LevelCount,       \* grid_levels
  QuantityPerGrid,
  MaxCycles,
  MaxPlacements,    \* MAX_PLACEMENTS_PER_ADVANCE, 4 in the code
  Minimums          \* bound: what the venue's minimum may be

ASSUME GridAssumption ==
  /\ LevelCount \in Nat /\ LevelCount >= 3
  /\ QuantityPerGrid \in Nat \ {0} /\ QuantityPerGrid % Increment = 0
  /\ MaxCycles \in Nat \ {0}
  /\ MaxPlacements \in Nat \ {0}
  /\ Minimums \subseteq 0 .. QuantityPerGrid

Levels    == 1 .. LevelCount
Placement == [level : Levels, side : Sides]
GridOrder ==
  [level : Levels, side : Sides, id : Legs, seenOpen : BOOLEAN,
   missedChecks : 0 .. ABSENCE_GRACE_CHECKS]

\* submitted: lastSubmitted is above zero.
GridState ==
  [hasStop : BOOLEAN, minOrderSize : Minimums, seeded : BOOLEAN,
   working : Seq(GridOrder), queue : Seq(Placement), cyclesDone : Nat, inventory : Nat,
   submitted : BOOLEAN]

GridInit ==
  \E hasStop \in BOOLEAN, minimum \in Minimums :
    state = [hasStop |-> hasStop, minOrderSize |-> minimum, seeded |-> FALSE,
             working |-> <<>>, queue |-> <<>>, cyclesDone |-> 0, inventory |-> 0,
             submitted |-> FALSE]

GridCalled == Called("grid") /\ ~(state.submitted /\ row.lastError)

GridOrderRejected ==
  /\ Called("grid")
  /\ state.submitted /\ row.lastError
  /\ Return([state EXCEPT !.submitted = FALSE], <<>>, Ending("failed", TRUE))
  /\ ReadsNothing

\* An order is cancelled only if its order id is known.
AddCancel(cancels, o) == IF o.seenOpen THEN Append(cancels, Cancel(o.id)) ELSE cancels

Cancels == FoldLeft(AddCancel, <<>>, state.working)

GridIsOver == Expired \/ state.cyclesDone >= MaxCycles

StopGrid ==
  /\ GridCalled
  /\ GridIsOver
  /\ Return([state EXCEPT !.submitted = FALSE], Cancels, Ending("completed", TRUE))
  /\ ReadsNothing

GridNoPrice ==
  /\ GridCalled
  /\ ~GridIsOver
  /\ Return([state EXCEPT !.submitted = FALSE], <<>>, NotDone)
  /\ ReadsNothing

\* The ids the grid has given to its orders.
Remembered == {state.working[i].id : i \in DOMAIN state.working}

\* The exit sells the inventory as it was when the grid last read its orders.
ExitQuantity == RoundDown(state.inventory)

BreachStop ==
  /\ GridCalled
  /\ ~GridIsOver
  /\ state.hasStop
  /\ LET sellable == ExitQuantity > 0 /\ ExitQuantity >= state.minOrderSize
         exit == {Submit(l, Market("sell", ExitQuantity)) :
                    l \in {CHOOSE l \in FreshLegs(Remembered) : TRUE}}
     IN /\ sellable => FreshLegs(Remembered) # {}
        /\ Return([state EXCEPT !.submitted = FALSE],
                  Cancels \o (IF sellable THEN SetToSeq(exit) ELSE <<>>),
                  Ending("completed", TRUE))
  /\ ReadsNothing
-----------------------------------------------------------------------------
Enqueue(queue, item) ==
  IF item \in ToSet(queue) \/ Len(queue) >= 2 * LevelCount THEN queue
  ELSE Append(queue, item)

\* Wrong: an order that left the book without trading leaves a hole.
AnswerFills(o, filledUnits) ==
  LET opposite == IF o.side = "buy" THEN [level |-> o.level + 1, side |-> "sell"]
                                    ELSE [level |-> o.level - 1, side |-> "buy"]
  IN {p \in {opposite} : filledUnits > 0 /\ p.level \in Levels}

\* What an order that left the book, filled units of it traded, is answered with.
Answer(o, filledUnits) ==
  CASE filledUnits = 0 -> {[level |-> o.level, side |-> o.side]}
    [] filledUnits > 0 /\ o.side = "buy" ->
         {[level |-> n, side |-> "sell"] : n \in {o.level + 1} \intersect Levels}
    [] filledUnits > 0 /\ o.side = "sell" ->
         {[level |-> n, side |-> "buy"] : n \in {o.level - 1} \intersect Levels}

NewInventory(inventory, o, filledUnits) ==
  IF o.side = "buy" THEN inventory + filledUnits
  ELSE IF inventory > filledUnits THEN inventory - filledUnits ELSE 0

EnqueueAll(queue, items) == FoldLeft(Enqueue, queue, items)

Settle(book, o, filledUnits) ==
  [book EXCEPT
     !.inventory = NewInventory(@, o, filledUnits),
     !.cyclesDone = @ + (IF o.side = "sell" /\ filledUnits > 0 THEN 1 ELSE 0),
     !.queue = EnqueueAll(@, SetToSeq(Answer(o, filledUnits)))]

\* An order occupies its level until it has conclusively left the book.
Review(book, o, isOpen, filledUnits) ==
  LET observed == Observe(o, isOpen)
  IN IF IsResolved(observed, ABSENCE_GRACE_CHECKS) THEN Settle(book, observed, filledUnits)
     ELSE [book EXCEPT !.working = Append(@, observed)]

\* The opening buys: every level below the market, the nearest to it first.
SeedBuys(below) == [i \in 1 .. below |-> [level |-> below + 1 - i, side |-> "buy"]]

NewGridOrder(item, l) ==
  [level |-> item.level, side |-> item.side, id |-> l, seenOpen |-> FALSE, missedChecks |-> 0]

\* Wrong: only the orders Robinhood has listed occupy a level.
ListedAt(level, working) == {o \in ToSet(working) : o.level = level /\ o.seenOpen}

RestingAt(level, working) == {o \in ToSet(working) : o.level = level}

\* A level that rests the same side drops the placement; one that waits is kept.
Place(placing, item) ==
  LET resting == RestingAt(item.level, placing.working)
      waits   == \/ resting # {}
                 \/ placing.placed >= MaxPlacements
                 \/ placing.placed >= Len(placing.ids)  \* bound: no id is left
                 \/ item.side = "sell" /\ placing.free < QuantityPerGrid
      new     == NewGridOrder(item, placing.ids[placing.placed + 1])
  IN IF \E o \in resting : o.side = item.side THEN placing
     ELSE IF waits THEN [placing EXCEPT !.pending = Append(@, item)]
     ELSE [placing EXCEPT !.working = Append(@, new),
                          !.placed = @ + 1,
                          !.free = IF item.side = "sell" THEN @ - QuantityPerGrid ELSE @]

\* Inventory promised to a resting sell cannot fund a second one.
SellsResting(working) == {i \in DOMAIN working : working[i].side = "sell"}

FreeInventory(inventory, working) ==
  inventory - QuantityPerGrid * Cardinality(SellsResting(working))

GridSubmit(o) == Submit(o.id, Limit(o.side, QuantityPerGrid, o.level))

\* The loop over the working orders, and the one over the queue.
ReviewAll(listing, credit) ==
  FoldLeft(LAMBDA book, o : Review(book, o, o.id \in listing, credit[o.id]),
           [working |-> <<>>, queue |-> state.queue, inventory |-> state.inventory,
            cyclesDone |-> state.cyclesDone],
           state.working)

PlaceAll(book, queue, ids) ==
  FoldLeft(Place,
           [working |-> book.working, pending |-> <<>>, placed |-> 0, ids |-> ids,
            free |-> FreeInventory(book.inventory, book.working)],
           queue)

\* Review every order, and place what can be placed.
Work(listing, below, credit) ==
  LET book    == ReviewAll(listing, credit)
      queue   == IF state.seeded THEN book.queue ELSE EnqueueAll(book.queue, SeedBuys(below))
      placing == PlaceAll(book, queue, SetToSeq(FreshLegs(Remembered)))
      placed  == SubSeq(placing.working, Len(book.working) + 1, Len(placing.working))
  IN Return([state EXCEPT !.seeded = TRUE, !.working = placing.working,
                          !.queue = placing.pending, !.cyclesDone = book.cyclesDone,
                          !.inventory = book.inventory, !.submitted = placed # <<>>],
            [i \in DOMAIN placed |-> GridSubmit(placed[i])], NotDone)

\* below: how many levels are below the price.
GridWork ==
  /\ GridCalled
  /\ ~GridIsOver
  /\ \E listing \in Listings, below \in IF state.seeded THEN {0} ELSE 0 .. LevelCount :
       /\ Reads(listing)
       /\ \E credit \in [Remembered -> 0 .. QuantityPerGrid] :
            /\ \A i \in DOMAIN state.working :
                 LET o == Observe(state.working[i], state.working[i].id \in listing)
                 IN IF IsResolved(o, ABSENCE_GRACE_CHECKS)
                    THEN credit[o.id] \in Credits(o.id, QuantityPerGrid, o.seenOpen)
                    ELSE credit[o.id] = 0
            /\ Work(listing, below, credit)

GridReads == GridCalled /\ ~GridIsOver

GridAdvance == GridOrderRejected \/ StopGrid \/ GridNoPrice \/ BreachStop \/ GridWork
=============================================================================
