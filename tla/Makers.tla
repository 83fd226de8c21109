------------------------------- MODULE Makers -------------------------------
(***************************************************************************)
(* A job of one of the strategies that rest orders in the book, run by the *)
(* engine through lost answers, refusals, restarts and halts.              *)
(***************************************************************************)
EXTENDS Chase, Iceberg, Grid

ASSUME MakersAssumption ==
  /\ "none" \notin Legs
  /\ Strategies \subseteq {"chase", "iceberg", "grid"}

Init ==
  /\ strategy \in Strategies
  /\ HostInit
  /\ now = 0
  /\ CASE strategy = "chase"   -> ChaseInit
       [] strategy = "iceberg" -> IcebergInit
       [] strategy = "grid"    -> GridInit

makerVars == <<hostVars, now>>

AdvanceThrows ==
  /\ "outage" \in Faults
  /\ ChaseReads \/ IcebergReads \/ GridReads
  /\ FailJob

Advance == ChaseAdvance \/ IcebergAdvance \/ GridAdvance \/ AdvanceThrows

TimePasses == strategy # "chase" /\ PassTime /\ UNCHANGED hostVars

Next ==
  \/ (HostNext \/ Advance) /\ UNCHANGED now
  \/ TimePasses

Spec == Init /\ [][Next]_makerVars

\* As in Exits; the clock is not stopped.
Fairness == /\ WF_makerVars((Process \/ Advance) /\ UNCHANGED now)
            /\ WF_makerVars((\E l \in Legs : Judge(l) \/ LoseRequest(l)) /\ UNCHANGED now)

FairSpec == Spec /\ Fairness
-----------------------------------------------------------------------------
\* The variables have their types, and the intents tell what the orders are.
TypeInv ==
  /\ strategy \in Strategies
  /\ status \in JobStatus
  /\ lastError \in BOOLEAN
  /\ CASE strategy = "chase"   -> state \in ChaseState
       [] strategy = "iceberg" -> state \in IcebergState
       [] strategy = "grid"    -> state \in GridState
  /\ intent \in [Legs -> {"none"} \union IntentStatus]
  /\ engaged \in BOOLEAN /\ pausedByHalt \in BOOLEAN
  /\ pc \in {"down", "idle", "called", "acting", "reserved", "sent"}
  /\ row \in [status : {"pending", "running"}, lastError : BOOLEAN]
  /\ actions \in Seq(Action)
  /\ done \in [status : {"none", "completed", "failed"}, reason : BOOLEAN]
  /\ order \in [Legs -> OrderStatus]
  /\ request \in [Legs -> Request]
  /\ filled \in [Legs -> Nat]
  /\ cancelSent \in SUBSET Legs
  /\ read \in SUBSET Legs
  /\ now \in 0 .. Duration
  /\ \A l \in Legs : intent[l] = "submitted" => order[l] \in Accepted

\* Through every fault, restart and halt a chase never has two orders in the book
\* (chase.ts:160-162); and an iceberg that no restart and no halt disturbed shows one
\* slice (iceberg.ts:170-171).
OneOrderAtATime ==
  strategy = "chase" \/ (strategy = "iceberg" /\ disturbed \intersect {"crash", "halt"} = {})
    => Cardinality(InTheBook) <= 1

\* Through every fault, restart and halt, and whatever it could not find out about its
\* slices, what an iceberg has traded and may still trade is within the total
\* (iceberg.ts:302-305).
IcebergNeverOverfills == strategy = "iceberg" => Exposed(Legs) <= TotalQuantity

\* An iceberg that nothing disturbed completes without a reason only when what it has not
\* traded is below the venue's increment (iceberg.ts:193-203); with slices below it, which
\* the start of the job admits, it completes without a reason having traded nothing.
IcebergLeavesNoSlice ==
  strategy = "iceberg" /\ disturbed = {} /\ status = "completed" /\ ~lastError
    /\ VisibleQuantity >= Increment
    => TotalQuantity - Traded(Legs) < Increment

\* A running chase does not wait for a cancel for ever, and an iceberg does not outlive
\* its deadline.
Waiting ==
  CASE strategy = "chase"   -> state.resting.cancelRequested
    [] strategy = "iceberg" -> Expired
    [] OTHER -> FALSE

NobodyWaitsForEver ==
  (status = "running" /\ Waiting) ~> (status \notin {"pending", "running"} \/ ~Waiting)

\* A grid never has two orders in the book at one level (grid.ts:14-16); with no restart
\* that lost sight of an order.
OneOrderPerLevel ==
  strategy = "grid" =>
    \A p, q \in InTheBook : request[p].price = request[q].price => p = q

\* The limit sells of a grid that nothing disturbed, filled and resting, are covered by
\* what its buys have really traded (grid.ts:16-19).
Buys       == {l \in Legs : request[l].side = "buy"}
LimitSells == {l \in Legs \ Buys : ~request[l].market}

SellsAreFunded ==
  strategy = "grid" /\ disturbed = {} => Exposed(LimitSells) <= Traded(Buys)

\* The pairs of levels a grid works: the buy at level n and the sell one level up.
Pairs(s) ==
  {n \in Levels :
     \E item \in ToSet(s.working) \union ToSet(s.queue) :
       \/ item.level = n /\ item.side = "buy"
       \/ item.level = n + 1 /\ item.side = "sell"}

\* Whatever becomes of its orders, a seeded grid goes on working, or waiting to work,
\* every pair of levels it has begun (grid.ts:296-299); nothing answers a buy at the top.
GridHasNoHoles ==
  [][strategy = "grid" => Pairs(state) \ {LevelCount} \subseteq Pairs(state')]_makerVars

\* A chase trades no more than the size it was asked for (chase.ts:260-265).
ChaseFillsItsQuantity == strategy = "chase" => Traded(Legs) <= Quantity
=============================================================================
