---------------------------- MODULE MakersProofs ----------------------------
(***************************************************************************)
(* Theorems about the strategies that rest one order at a time in the      *)
(* book, for every finite set of client order ids, every number of         *)
(* crashes, every fault, quote and quantity: the chase and the iceberg,    *)
(* and the grid, for every number of levels.                               *)
(***************************************************************************)
EXTENDS Makers, HostProofs

\* A chase has one order out at most, the one it remembers: it forgets an order only
\* when it is closed, because a cancel is asked for only of an order that was seen.
ChaseInv ==
  strategy = "chase" =>
    /\ state \in ChaseState
    /\ Due \subseteq {state.resting.id}
    /\ InTheBook \subseteq {state.resting.id}
    /\ state.resting.cancelRequested =>
         state.resting.seenOpen /\ state.chasesUsed < MaxChases
    /\ state.resting.seenOpen => state.resting.id \in Legs /\ Spotted(state.resting.id)

\* What the other orders of an iceberg have traded and may still trade is credited, and
\* the slice it works at is for no more than is left.
IcebergInv ==
  strategy = "iceberg" =>
    /\ state \in IcebergState
    /\ Due \subseteq {state.working.id}
    /\ \A i \in DOMAIN actions :
         actions[i].type = "submit" => actions[i].request.size = state.working.quantity
    /\ \A l \in Legs : l = state.working.id /\ order[l] # "absent" =>
         request[l].size = state.working.quantity
    /\ state.filledQuantity + state.working.quantity <= TotalQuantity
    /\ state.working.seenOpen => IsWorking /\ Spotted(state.working.id)
    /\ Exposed(Legs \ {state.working.id}) <= state.filledQuantity

\* Without a crash or a halt the slice is the only order in the book, and without any
\* disturbance all that was credited was traded.
IcebergCalmInv ==
  strategy = "iceberg" =>
    /\ Calm =>
         /\ InTheBook \subseteq {state.working.id}
         /\ Placed(Legs \intersect {state.working.id})
         /\ state.working.missedChecks > 0 => IsWorking /\ Spotted(state.working.id)
    /\ disturbed = {} =>
         /\ ~Over => cancelSent \union Cancelled = {}
         /\ Traded(Legs \ {state.working.id}) = state.filledQuantity
    /\ (done.status = "completed" /\ ~done.reason) \/ (status = "completed" /\ ~lastError)
         => ~IsWorking /\ NextSlice(state) = 0

IInv ==
  strategy \in {"chase", "iceberg"} =>
    HostInv /\ CalmInv /\ ChaseInv /\ IcebergInv /\ IcebergCalmInv

\* Every job of a chase or an iceberg begins in the invariant.
LEMMA MakersBegin == Init => IInv
<1> SUFFICES ASSUME Init, strategy \in {"chase", "iceberg"} PROVE IInv
  BY DEF IInv
<1>1. HostInv /\ CalmInv
  BY HostBegins, CalmBegins DEF Init
<1>2. /\ strategy = "chase" => ChaseInit
      /\ strategy = "iceberg" => IcebergInit
  BY DEF Init
<1>3. /\ Due = {} /\ Cancelled = {} /\ cancelSent = {} /\ done = NotDone /\ actions = <<>>
      /\ status = "pending" /\ InTheBook = {}
      /\ \A l \in Legs : order[l] = "absent" /\ filled[l] = 0
  BY DEF Init, HostInit, Due, Cancelled, InTheBook
<1>4. ChaseInv
  <2>1. SUFFICES ASSUME strategy = "chase" PROVE ChaseInv
    BY DEF ChaseInv
  <2>2. PICK sized \in BOOLEAN :
          state = [sized |-> sized, chasesUsed |-> 0, resting |-> NoLeg, fresh |-> TRUE]
    BY <1>2, <2>1 DEF ChaseInit
  <2>3. NoLeg \in ChaseLeg /\ ~NoLeg.seenOpen /\ ~NoLeg.cancelRequested
    BY DEF NoLeg, Posted, ChaseLeg, NoId, ABSENCE_GRACE_CHECKS, MAX_CANCEL_CONFIRM_CHECKS
  <2>4. 0 \in 0 .. MaxChases
    BY ChaseAssumption DEF ChaseAssumption
  <2>5. QED
    BY <1>3, <2>2, <2>3, <2>4 DEF ChaseInv, ChaseState
<1>5. ASSUME strategy = "iceberg" PROVE IcebergInv /\ IcebergCalmInv
  <2>1. PICK pegged \in BOOLEAN, minimum \in MinOrderSizes :
          state = [pegged |-> pegged, minOrderSize |-> minimum, filledQuantity |-> 0,
                   working |-> Shown(NoSlice, 0), fresh |-> TRUE]
    BY <1>2, <1>5 DEF IcebergInit
  <2>2. /\ 0 \in 0 .. TotalQuantity /\ 0 \in 0 .. VisibleQuantity /\ TotalQuantity \in Nat
        /\ NoSlice \notin Legs
    BY IcebergAssumption, MakersAssumption DEF IcebergAssumption, MakersAssumption, NoSlice
  <2>3. /\ Shown(NoSlice, 0) \in Slice /\ ~Shown(NoSlice, 0).seenOpen
        /\ Shown(NoSlice, 0).id = NoSlice /\ Shown(NoSlice, 0).quantity = 0
        /\ Shown(NoSlice, 0).missedChecks = 0
    BY <2>2 DEF Shown, Slice, ABSENCE_GRACE_CHECKS
  <2>4. state \in IcebergState
    BY <2>1, <2>2, <2>3 DEF IcebergState
  <2>5. /\ ~state.working.seenOpen /\ state.working.missedChecks = 0
        /\ state.working.quantity = 0 /\ state.filledQuantity = 0
        /\ Legs \intersect {state.working.id} = {}
    BY <2>1, <2>2, <2>3
  <2>6. PICK S \in SUBSET Legs : S = Legs \ {state.working.id}
    OBVIOUS
  <2>7. Exposed(S) = 0 /\ Traded(S) = 0
    <3>1. \A l \in S : filled[l] \in 0 .. 0 /\ [k \in Legs |-> Exposure(k)][l] \in 0 .. 0
      BY <1>3 DEF Exposure
    <3>2. IsFiniteSet(S) /\ Cardinality(S) \in Nat /\ Exposed(S) \in Nat /\ Traded(S) \in Nat
      BY <1>1, SumsAreTyped, FS_CardinalityType
    <3>3. Exposed(S) <= Cardinality(S) * 0
      BY <3>1, <3>2, SumBound DEF Exposed
    <3>4. Traded(S) <= Cardinality(S) * 0
      BY <3>1, <3>2, SumBound DEF Traded
    <3>5. QED
      BY <3>2, <3>3, <3>4
  <2>8. IcebergInv
    BY <1>3, <2>2, <2>4, <2>5, <2>6, <2>7 DEF IcebergInv
  <2>9. Placed(Legs \intersect {state.working.id})
    BY <2>5 DEF Placed
  <2>10. QED
    BY <1>3, <2>5, <2>6, <2>7, <2>8, <2>9 DEF IcebergCalmInv, NotDone
<1>6. IcebergInv /\ IcebergCalmInv
  BY <1>5 DEF IcebergInv, IcebergCalmInv
<1>7. QED
  BY <1>1, <1>4, <1>6 DEF IInv

\* Whatever the engine, Robinhood and the tools do between two steps, a chase has no
\* order out but the one it remembers.
LEMMA HostKeepsChase ==
  ASSUME HostInv, ChaseInv, HostNext \/ FailJob
  PROVE  ChaseInv'
<1> SUFFICES ASSUME strategy = "chase" PROVE ChaseInv'
  BY ActionsAreUsedUp DEF ChaseInv
<1>1. state' = state /\ strategy' = strategy /\ Due' \subseteq Due
  BY ActionsAreUsedUp
<1>2. InTheBook' \subseteq {state.resting.id}
  BY BookIsSent DEF ChaseInv, InTheBook
<1>3. ASSUME state.resting.seenOpen
      PROVE  state.resting.id \in Legs /\ Spotted(state.resting.id)'
  <2>1. state.resting.id \in Legs /\ Spotted(state.resting.id)
    BY <1>3 DEF ChaseInv
  <2>2. PICK l \in Legs : l = state.resting.id
    BY <2>1
  <2>3. Spotted(l)'
    BY <2>1, <2>2, OrdersMoveOn, SpottedStays
  <2>4. QED
    BY <1>1, <2>2, <2>3
<1>4. QED
  BY <1>1, <1>2, <1>3 DEF ChaseInv

\* It keeps what an iceberg has credited, and its slice is the only order it may send.
LEMMA HostKeepsIceberg ==
  ASSUME HostInv, IcebergInv, HostNext \/ FailJob
  PROVE  IcebergInv'
<1> SUFFICES ASSUME strategy = "iceberg" PROVE IcebergInv'
  BY ActionsAreUsedUp DEF IcebergInv
<1>1. state' = state /\ strategy' = strategy /\ Due' \subseteq Due
  BY ActionsAreUsedUp
<1>2. \A i \in DOMAIN actions' : \E j \in DOMAIN actions : actions[j] = actions'[i]
  BY ActionsAreUsedUp, TailsAreParts
<1>3. PICK w : w = state.working.id
  OBVIOUS
<1>4. ASSUME NEW l \in Legs, l = w, order'[l] # "absent"
      PROVE  request'[l].size = state.working.quantity
  BY <1>3, <1>4, OrdersAreAskedFor DEF IcebergInv
<1>5. ASSUME state.working.seenOpen PROVE IsWorking' /\ Spotted(w)'
  <2>1. IsWorking /\ Spotted(w)
    BY <1>3, <1>5 DEF IcebergInv
  <2>2. PICK l \in Legs : l = w
    BY <1>3, <2>1 DEF IcebergInv, IcebergState, Slice, IsWorking
  <2>3. Spotted(l)'
    BY <2>1, <2>2, OrdersMoveOn, SpottedStays
  <2>4. QED
    BY <1>1, <2>1, <2>2, <2>3 DEF IsWorking
<1>6. Exposed(Legs \ {w})' <= state.filledQuantity
  <2>1. PICK S \in SUBSET Legs : S = Legs \ {w}
    OBVIOUS
  <2>2. S \cap Due = {}
    BY <1>3, <2>1 DEF IcebergInv
  <2>3. Exposed(S)' <= Exposed(S) /\ Exposed(S) \in Nat
    BY <2>2, OthersExposeNoMore, SumsAreTyped
  <2>4. Exposed(S)' \in Nat
    BY <2>2, OthersExposeNoMore
  <2>5. Exposed(S) <= state.filledQuantity /\ state.filledQuantity \in Nat
    BY <1>3, <2>1 DEF IcebergInv, IcebergState
  <2>6. QED
    BY <2>1, <2>3, <2>4, <2>5
<1>7. QED
  BY <1>1, <1>2, <1>3, <1>4, <1>5, <1>6 DEF IcebergInv

\* While nothing disturbs it, its slice stays the only order in the book, placed, and what
\* the others have traded stays what is credited.
LEMMA HostKeepsIcebergCalm ==
  ASSUME HostInv, CalmInv, IcebergInv, IcebergCalmInv, HostNext \/ FailJob
  PROVE  IcebergCalmInv'
<1> SUFFICES ASSUME strategy = "iceberg" PROVE IcebergCalmInv'
  BY ActionsAreUsedUp DEF IcebergCalmInv
<1>1. /\ state' = state /\ strategy' = strategy /\ Due' \subseteq Due
      /\ disturbed \subseteq disturbed'
      /\ cancelSent' \union Cancelled' \subseteq cancelSent \union Cancelled
      /\ done' \in {done, NotDone}
  BY ActionsAreUsedUp
<1>2. PICK w : w = state.working.id
  OBVIOUS
<1>3. ASSUME Calm'
      PROVE  /\ InTheBook' \subseteq {w}
             /\ Placed(Legs \intersect {w})'
             /\ state.working.missedChecks > 0 => IsWorking' /\ Spotted(w)'
  <2>1. Calm
    BY <1>1, <1>3 DEF Calm
  <2>2. InTheBook' \subseteq {w}
    BY <1>2, <2>1, BookIsSent DEF IcebergInv, IcebergCalmInv, InTheBook
  <2>3. PICK S \in SUBSET Legs : S = Legs \intersect {w}
    OBVIOUS
  <2>4. Placed(S)
    BY <1>2, <2>1, <2>3 DEF IcebergCalmInv
  <2>5. Placed(S)'
    BY <1>1, <1>3, <2>4, PlacedStays
  <2>6. ASSUME state.working.missedChecks > 0 PROVE IsWorking' /\ Spotted(w)'
    <3>1. IsWorking /\ Spotted(w)
      BY <1>2, <2>1, <2>6 DEF IcebergCalmInv
    <3>2. PICK l \in Legs : l = w
      BY <1>2, <3>1 DEF IcebergInv, IcebergState, Slice, IsWorking
    <3>3. Spotted(l)'
      BY <3>1, <3>2, OrdersMoveOn, SpottedStays
    <3>4. QED
      BY <1>1, <3>1, <3>2, <3>3 DEF IsWorking
  <2>7. QED
    BY <2>2, <2>3, <2>5, <2>6
<1>4. ASSUME disturbed' = {}
      PROVE  /\ ~Over' => cancelSent' \union Cancelled' = {}
             /\ Traded(Legs \ {w})' = state.filledQuantity
  <2>1. disturbed = {} /\ Calm /\ Calm'
    BY <1>1, <1>4 DEF Calm
  <2>2. ASSUME ~Over' PROVE cancelSent' \union Cancelled' = {}
    <3>1. ~Over
      BY <2>1, <2>2, OverIsFinal
    <3>2. QED
      BY <1>1, <2>1, <3>1 DEF IcebergCalmInv
  <2>3. PICK S \in SUBSET Legs : S = Legs \ {w}
    OBVIOUS
  <2>4. S \cap Due = {} /\ S \cap InTheBook = {} /\ Traded(S) = state.filledQuantity
    BY <1>2, <2>1, <2>3 DEF IcebergInv, IcebergCalmInv
  <2>5. Traded(S)' = Traded(S)
    BY <2>4, OthersExposeNoMore
  <2>6. QED
    BY <2>2, <2>3, <2>4, <2>5
<1>5. ASSUME \/ done'.status = "completed" /\ ~done'.reason
             \/ status' = "completed" /\ ~lastError'
      PROVE  ~IsWorking /\ NextSlice(state) = 0
  <2>1. \/ done.status = "completed" /\ ~done.reason
        \/ status = "completed" /\ ~lastError
    <3>1. CASE done'.status = "completed" /\ ~done'.reason
      BY <1>1, <3>1 DEF NotDone
    <3>2. CASE status' = "completed" /\ ~lastError'
      BY <3>2, EndsAsPlanned
    <3>3. QED
      BY <1>5, <3>1, <3>2
  <2>2. QED
    BY <2>1 DEF IcebergCalmInv
<1>6. QED
  BY <1>1, <1>2, <1>3, <1>4, <1>5 DEF IcebergCalmInv, IsWorking

\* Nothing outside the strategy breaks the invariant.
LEMMA HostKeepsMakers ==
  ASSUME IInv, HostNext \/ FailJob
  PROVE  IInv'
<1>1. strategy' = strategy
  <2>1. CASE HostInv
    BY <2>1, ActionsAreUsedUp
  <2>2. CASE ~HostInv
    BY <2>2
    DEF HostNext, Process, Robinhood, Operator, Perform, Tick, FailJob, EndAdvance,
        UpdateThrows, Crash, Restart, RefuseOrder, ReserveIntent, SendOrder, RefuseReserved,
        OrderRefused, AnswerLost, OrderAnswered, CancelOrder, CancelFails, SettleFailed,
        Judge, LoseRequest, Fill, CancelTakesEffect, CancelledOutside, Fills, OrderBecomes,
        Engage, Release, CancelJob, database
  <2>3. QED
    BY <2>1, <2>2
<1> SUFFICES ASSUME strategy \in {"chase", "iceberg"} PROVE IInv'
  BY <1>1 DEF IInv
<1>2. HostInv /\ CalmInv /\ ChaseInv /\ IcebergInv /\ IcebergCalmInv
  BY DEF IInv
<1>3. HostInv' /\ CalmInv' /\ ChaseInv' /\ IcebergInv' /\ IcebergCalmInv'
  BY <1>2, HostKeepsHost, HostKeepsCalm, HostKeepsChase, HostKeepsIceberg,
     HostKeepsIcebergCalm
<1>4. QED
  BY <1>3 DEF IInv

-----------------------------------------------------------------------------
(***************************************************************************)
(* The chase.                                                              *)
(***************************************************************************)

\* What a reading teaches a chase about its order: it is listed, or it is missed; and it
\* is taken for closed only when it is missed.
LEMMA ChaseLearns ==
  ASSUME NEW leg \in ChaseLeg, NEW l, NEW listing, NEW seen, seen = Observe(leg, l \in listing)
  PROVE  /\ seen \in ChaseLeg /\ seen.id = leg.id
         /\ seen.cancelRequested = leg.cancelRequested /\ seen.cancelChecks = leg.cancelChecks
         /\ leg.seenOpen => seen.seenOpen
         /\ seen.seenOpen => leg.seenOpen \/ l \in listing
         /\ IsResolved(seen, ABSENCE_GRACE_CHECKS) => l \notin listing
<1>1. PICK id \in Legs \union {NoId}, price \in Nat, open \in BOOLEAN,
           n \in 0 .. ABSENCE_GRACE_CHECKS, asked \in BOOLEAN,
           checks \in 0 .. MAX_CANCEL_CONFIRM_CHECKS :
        leg = [id |-> id, price |-> price, seenOpen |-> open, missedChecks |-> n,
               cancelRequested |-> asked, cancelChecks |-> checks]
  BY DEF ChaseLeg
<1>2. OneMore(n) \in 0 .. ABSENCE_GRACE_CHECKS
  BY DEF OneMore, ABSENCE_GRACE_CHECKS
<1>3. \A m \in 0 .. ABSENCE_GRACE_CHECKS, now_open \in BOOLEAN :
        [id |-> id, price |-> price, seenOpen |-> now_open, missedChecks |-> m,
         cancelRequested |-> asked, cancelChecks |-> checks] \in ChaseLeg
  BY <1>1 DEF ChaseLeg
<1>4. CASE l \in listing
  <2>1. seen = [id |-> id, price |-> price, seenOpen |-> TRUE, missedChecks |-> 0,
                cancelRequested |-> asked, cancelChecks |-> checks]
    BY <1>1, <1>4 DEF Observe
  <2>2. ~IsResolved(seen, ABSENCE_GRACE_CHECKS)
    BY <2>1 DEF IsResolved
  <2>3. 0 \in 0 .. ABSENCE_GRACE_CHECKS
    BY DEF ABSENCE_GRACE_CHECKS
  <2>4. seen \in ChaseLeg
    BY <1>3, <2>1, <2>3
  <2>5. QED
    BY <1>1, <1>4, <2>1, <2>2, <2>4
<1>5. CASE l \notin listing
  <2>1. seen = [id |-> id, price |-> price, seenOpen |-> open, missedChecks |-> OneMore(n),
                cancelRequested |-> asked, cancelChecks |-> checks]
    BY <1>1, <1>5 DEF Observe
  <2>2. QED
    BY <1>1, <1>2, <1>5, <2>1 DEF ChaseLeg
<1>6. QED
  BY <1>4, <1>5

\* A step of a chase keeps the invariant when the order it goes on with is the only one in
\* the book, and has been sighted if it was seen.
LEMMA ChaseSteps ==
  ASSUME HostInv, CalmInv, strategy = "chase", pc = "called", read' \in SUBSET Legs,
         NEW next \in ChaseState, NEW acts \in Seq(Sendable), NEW ending \in Endings,
         Return(next, acts, ending),
         \A i \in DOMAIN acts : acts[i].type = "submit" => acts[i].leg = next.resting.id,
         InTheBook \subseteq {next.resting.id},
         next.resting.cancelRequested => next.resting.seenOpen /\ next.chasesUsed < MaxChases,
         next.resting.seenOpen => next.resting.id \in Legs /\ Spotted(next.resting.id)'
  PROVE  IInv'
<1>1. /\ Stepped /\ state' = next /\ actions' = acts /\ done' = ending
  BY ReturnIsStep
<1>2. UNCHANGED <<strategy, order>>
  BY <1>1, SteppedKeepsOrders
<1>3. HostInv' /\ CalmInv'
  BY <1>1, StepKeepsHost, StepKeepsCalm
<1>4. Due' \subseteq {next.resting.id}
  BY <1>1 DEF Due
<1>5. InTheBook' \subseteq {next.resting.id}
  BY <1>2 DEF InTheBook
<1>6. ChaseInv'
  BY <1>1, <1>4, <1>5 DEF ChaseInv
<1>7. IcebergInv' /\ IcebergCalmInv'
  BY <1>2 DEF IcebergInv, IcebergCalmInv
<1>8. QED
  BY <1>3, <1>6, <1>7 DEF IInv

\* A chase that has no order in the book posts one under a new id, or has none still.
LEMMA PostKeepsChase ==
  ASSUME HostInv, CalmInv, strategy = "chase", pc = "called", read' \in SUBSET Legs,
         NEW from \in ChaseState, from.resting = NoLeg, NEW cost \in {0, 1},
         from.chasesUsed + cost <= MaxChases,
         InTheBook = {}, Post(from, cost)
  PROVE  IInv'
<1>1. CASE Return(from, <<>>, NotDone)
  <2>1. ~from.resting.seenOpen /\ ~from.resting.cancelRequested
    BY DEF NoLeg, Posted
  <2>2. <<>> \in Seq(Sendable) /\ DOMAIN <<>> = {}
    OBVIOUS
  <2>3. InTheBook \subseteq {from.resting.id}
    OBVIOUS
  <2>4. PICK empty \in Seq(Sendable) : empty = <<>>
    BY <2>2
  <2>5. Return(from, empty, NotDone) /\ \A i \in DOMAIN empty : FALSE
    BY <1>1, <2>2, <2>4
  <2>6. QED
    BY <2>1, <2>3, <2>5, ChaseSteps, EndingsAreKnown
<1>2. ASSUME NEW l \in Legs, NEW quote \in Quotes,
             Return([from EXCEPT !.resting = Posted(l, Target(quote)),
                                 !.chasesUsed = @ + cost, !.fresh = TRUE],
                    <<Submit(l, ChaseOrder(Target(quote)))>>, NotDone)
      PROVE  IInv'
  <2>1. Target(quote) \in Nat
    BY ChaseAssumption DEF ChaseAssumption, Target
  <2>2. PICK price \in Nat : price = Target(quote)
    BY <2>1
  <2>3. Posted(l, price) \in ChaseLeg
    BY DEF Posted, ChaseLeg, ABSENCE_GRACE_CHECKS, MAX_CANCEL_CONFIRM_CHECKS
  <2>4. from.chasesUsed + cost \in 0 .. MaxChases
    BY ChaseAssumption DEF ChaseAssumption, ChaseState
  <2>5. PICK next : next = [from EXCEPT !.resting = Posted(l, price),
                                        !.chasesUsed = @ + cost, !.fresh = TRUE]
    OBVIOUS
  <2>6. next \in ChaseState /\ next.resting = Posted(l, price)
    BY <2>3, <2>4, <2>5 DEF ChaseState
  <2>7. next.resting.id = l /\ ~next.resting.seenOpen /\ ~next.resting.cancelRequested
    BY <2>6 DEF Posted
  <2>8. PICK act : act = Submit(l, ChaseOrder(price))
    OBVIOUS
  <2>9. act \in Sendable /\ act.leg = l
    BY <2>8, ChaseAssumption
    DEF ChaseAssumption, Sendable, Action, Submit, ChaseOrder, Limit, Request, Sides
  <2>10. <<act>> \in Seq(Sendable) /\ \A i \in DOMAIN <<act>> : <<act>>[i].leg = l
    BY <2>9
  <2>11. Return(next, <<act>>, NotDone)
    BY <1>2, <2>2, <2>5, <2>8
  <2>12. QED
    BY <2>6, <2>7, <2>10, <2>11, ChaseSteps, EndingsAreKnown
<1>3. CASE FreshLegs({}) # {}
  <2>1. (CHOOSE l \in FreshLegs({}) : TRUE) \in Legs
    BY <1>3 DEF FreshLegs
  <2>2. PICK l \in Legs : l = CHOOSE fresh \in FreshLegs({}) : TRUE
    BY <2>1
  <2>3. QED
    BY <1>1, <1>2, <2>2 DEF Post
<1>4. QED
  BY <1>1, <1>3 DEF Post

\* What a chase knows of its order after a reading: the reading, or an earlier one, has
\* sighted the order if it was seen, and it is closed if it is taken for closed.
LEMMA ChaseReadingSpots ==
  ASSUME HostInv, ChaseInv, strategy = "chase", UNCHANGED <<intent, order>>,
         NEW listing \in Listings, Reads(listing), NEW leg, leg = ChaseObserved(listing)
  PROVE  /\ leg \in ChaseLeg /\ leg.id = state.resting.id
         /\ leg.cancelRequested = state.resting.cancelRequested
         /\ leg.cancelChecks = state.resting.cancelChecks
         /\ state.resting.seenOpen => leg.seenOpen
         /\ leg.seenOpen => leg.id \in Legs /\ Spotted(leg.id)'
         /\ state.resting.seenOpen /\ IsResolved(leg, ABSENCE_GRACE_CHECKS) => InTheBook = {}
<1>1. PICK old \in ChaseLeg : old = state.resting
  BY DEF ChaseInv, ChaseState
<1>2. leg = Observe(old, old.id \in listing)
  BY <1>1 DEF ChaseObserved
<1>3. /\ leg \in ChaseLeg /\ leg.id = old.id
      /\ leg.cancelRequested = old.cancelRequested /\ leg.cancelChecks = old.cancelChecks
      /\ old.seenOpen => leg.seenOpen
      /\ leg.seenOpen => old.seenOpen \/ old.id \in listing
      /\ IsResolved(leg, ABSENCE_GRACE_CHECKS) => old.id \notin listing
  <2>1. PICK l : l = old.id
    OBVIOUS
  <2>2. leg = Observe(old, l \in listing)
    BY <1>2, <2>1
  <2>3. QED
    BY <2>1, <2>2, ChaseLearns
<1>4. ASSUME leg.seenOpen PROVE old.id \in Legs /\ Spotted(old.id)'
  <2>1. old.id \in Legs /\ intent[old.id] = "submitted"
    BY <1>1, <1>3, <1>4, ListedIsKnown DEF ChaseInv, Spotted
  <2>2. PICK l \in Legs : l = old.id
    BY <2>1
  <2>3. Spotted(l)'
    BY <2>1, <2>2, ReadingSpots
  <2>4. QED
    BY <2>2, <2>3
<1>5. ASSUME old.seenOpen, IsResolved(leg, ABSENCE_GRACE_CHECKS) PROVE InTheBook = {}
  <2>1. PICK l \in Legs \ listing : l = old.id
    BY <1>1, <1>3, <1>5 DEF ChaseInv
  <2>2. order[l] \in {"filled", "cancelled"}
    BY <1>1, <1>5, <2>1, MissingIsClosed DEF ChaseInv
  <2>3. QED
    BY <1>1, <2>1, <2>2 DEF ChaseInv, InTheBook
<1>6. QED
  BY <1>1, <1>3, <1>4, <1>5

\* A chase that stays with its order, and asks for a cancel of it only if it was seen and a
\* chase is left, keeps the invariant.
LEMMA StayingKeepsChase ==
  ASSUME HostInv, CalmInv, ChaseInv, strategy = "chase", pc = "called", read' \in SUBSET Legs,
         NEW next \in ChaseState, NEW ending \in Endings,
         \/ Return(next, <<>>, ending)
         \/ next.resting.seenOpen /\ Return(next, <<Cancel(next.resting.id)>>, ending),
         next.resting.id = state.resting.id,
         next.resting.cancelRequested => next.resting.seenOpen /\ next.chasesUsed < MaxChases,
         next.resting.seenOpen => next.resting.id \in Legs /\ Spotted(next.resting.id)'
  PROVE  IInv'
<1>1. InTheBook \subseteq {next.resting.id}
  BY DEF ChaseInv
<1>2. CASE Return(next, <<>>, ending)
  <2>1. <<>> \in Seq(Sendable) /\ DOMAIN <<>> = {}
    OBVIOUS
  <2>2. PICK acts \in Seq(Sendable) : acts = <<>>
    BY <2>1
  <2>3. Return(next, acts, ending) /\ \A i \in DOMAIN acts : FALSE
    BY <1>2, <2>1, <2>2
  <2>4. QED
    BY <1>1, <2>3, ChaseSteps
<1>3. CASE next.resting.seenOpen /\ Return(next, <<Cancel(next.resting.id)>>, ending)
  <2>1. PICK act : act = Cancel(next.resting.id)
    OBVIOUS
  <2>2. act \in Sendable /\ act.type = "cancel"
    BY <1>3, <2>1 DEF Sendable, Action, Cancel, NoRequest, Limit, Request, Sides
  <2>3. <<act>> \in Seq(Sendable) /\ \A i \in DOMAIN <<act>> : <<act>>[i].type = "cancel"
    BY <2>2
  <2>4. Return(next, <<act>>, ending)
    BY <1>3, <2>1
  <2>5. QED
    BY <1>1, <2>3, <2>4, ChaseSteps
<1>4. QED
  BY <1>2, <1>3

\* Every step of a chase keeps the invariant.
LEMMA ChaseKeepsMakers ==
  ASSUME IInv, ChaseAdvance
  PROVE  IInv'
<1>1. strategy = "chase" /\ pc = "called" /\ HostInv /\ CalmInv /\ ChaseInv
  BY DEF ChaseAdvance, ChaseRoundedToZero, ChaseOpening, ChasePostRejected, ChaseWatch,
         ChaseCancelRefused, ChaseConfirm, Resting, Cancelling, ChaseCalled, Called, IInv
<1>2. /\ state \in ChaseState /\ state.resting \in ChaseLeg
      /\ InTheBook \subseteq {state.resting.id}
      /\ state.resting.cancelRequested =>
           state.resting.seenOpen /\ state.chasesUsed < MaxChases
      /\ state.resting.seenOpen => state.resting.id \in Legs /\ Spotted(state.resting.id)
  BY <1>1 DEF ChaseInv, ChaseState
<1>3. Ending("failed", TRUE) \in Endings /\ Ending("completed", TRUE) \in Endings
      /\ NotDone \in Endings
  BY EndingsAreKnown
<1>4. PICK id : id = state.resting.id
  OBVIOUS
<1>5. ASSUME ReadsNothing, state.resting.seenOpen, UNCHANGED <<intent, order>>
      PROVE  id \in Legs /\ Spotted(id)'
  BY <1>2, <1>5, <1>4 DEF Spotted, ReadsNothing
<1>6. ASSUME NEW next, NEW acts, NEW ending, Return(next, acts, ending)
      PROVE  UNCHANGED <<intent, order>>
  BY <1>6 DEF Return, upstream
<1>7. CASE ChaseRoundedToZero \/ ChasePostRejected
  <2>1. ReadsNothing /\ Return(state, <<>>, Ending("failed", TRUE))
    BY <1>7 DEF ChaseRoundedToZero, ChasePostRejected
  <2>2. PICK next \in ChaseState : next = state
    BY <1>2
  <2>3. next.resting.seenOpen => next.resting.id \in Legs /\ Spotted(next.resting.id)'
    <3>1. ASSUME next.resting.seenOpen PROVE id \in Legs /\ Spotted(id)'
      BY <1>5, <1>6, <2>1, <2>2, <3>1
    <3>2. next.resting.id = id
      BY <1>4, <2>2
    <3>3. QED
      BY <3>1, <3>2
  <2>4. read' \in SUBSET Legs
    BY <1>1, <2>1, ReadingIsTyped
  <2>5. Return(next, <<>>, Ending("failed", TRUE))
    BY <2>1, <2>2
  <2>6. QED
    BY <1>1, <1>2, <1>3, <2>2, <2>3, <2>4, <2>5, StayingKeepsChase
<1>8. CASE ChaseCancelRefused
  <2>1. PICK next : next = [state EXCEPT !.resting.cancelRequested = FALSE]
    OBVIOUS
  <2>2. ReadsNothing /\ Return(next, <<>>, Ending("completed", TRUE))
    BY <1>8, <2>1 DEF ChaseCancelRefused
  <2>3. /\ next \in ChaseState /\ next.resting.id = state.resting.id
        /\ next.resting.seenOpen = state.resting.seenOpen /\ ~next.resting.cancelRequested
    BY <1>2, <2>1 DEF ChaseState, ChaseLeg
  <2>4. next.resting.seenOpen => next.resting.id \in Legs /\ Spotted(next.resting.id)'
    <3>1. ASSUME next.resting.seenOpen PROVE id \in Legs /\ Spotted(id)'
      BY <1>5, <1>6, <2>2, <2>3, <3>1
    <3>2. next.resting.id = id
      BY <1>4, <2>3
    <3>3. QED
      BY <3>1, <3>2
  <2>5. read' \in SUBSET Legs
    BY <1>1, <2>2, ReadingIsTyped
  <2>6. QED
    BY <1>1, <1>3, <2>2, <2>3, <2>4, <2>5, StayingKeepsChase
<1>9. CASE ChaseOpening
  <2>1. state.resting = NoLeg /\ Post(state, 0) /\ ReadsNothing
    BY <1>9 DEF ChaseOpening
  <2>2. InTheBook = {}
    BY <1>2, <2>1, MakersAssumption DEF MakersAssumption, NoLeg, Posted, NoId, InTheBook
  <2>3. read' \in SUBSET Legs
    BY <1>1, <2>1, ReadingIsTyped
  <2>4. state.chasesUsed + 0 <= MaxChases
    BY <1>2, ChaseAssumption DEF ChaseAssumption, ChaseState
  <2>5. QED
    BY <1>1, <1>2, <2>1, <2>2, <2>3, <2>4, PostKeepsChase
<1>10. ASSUME ChaseWatch PROVE IInv'
  <2>1. PICK listing \in Listings :
          LET leg  == ChaseObserved(listing)
              next == [state EXCEPT !.resting = leg, !.fresh = FALSE]
          IN /\ Reads(listing)
             /\ IF IsResolved(leg, ABSENCE_GRACE_CHECKS)
                THEN Return(next, <<>>, Ending("completed", TRUE))
                ELSE Follow(next)
    BY <1>10 DEF ChaseWatch
  <2>2. PICK leg : leg = ChaseObserved(listing)
    OBVIOUS
  <2>3. PICK next : next = [state EXCEPT !.resting = leg, !.fresh = FALSE]
    OBVIOUS
  <2>4. Reads(listing) /\ (Return(next, <<>>, Ending("completed", TRUE)) \/ Follow(next))
    BY <2>1, <2>2, <2>3
  <2>5. UNCHANGED <<intent, order>>
    BY <2>4, <1>6 DEF Follow
  <2>6. /\ leg \in ChaseLeg /\ leg.id = state.resting.id /\ ~leg.cancelRequested
        /\ leg.seenOpen => leg.id \in Legs /\ Spotted(leg.id)'
    BY <1>1, <1>10, <2>2, <2>4, <2>5, ChaseReadingSpots DEF ChaseWatch, Resting
  <2>7. next \in ChaseState /\ next.resting = leg /\ next.chasesUsed = state.chasesUsed
    BY <1>2, <2>3, <2>6 DEF ChaseState
  <2>8. read' \in SUBSET Legs
    BY <1>1, <2>4, ReadingIsTyped
  <2>9. ASSUME NEW ending \in Endings, Return(next, <<>>, ending) PROVE IInv'
    BY <1>1, <2>6, <2>7, <2>8, <2>9, StayingKeepsChase
  <2>10. ASSUME NEW asked, asked = [next EXCEPT !.resting.cancelRequested = TRUE,
                                                !.resting.cancelChecks = 0],
                state.chasesUsed < MaxChases, leg.seenOpen,
                Return(asked, <<Cancel(leg.id)>>, NotDone)
         PROVE  IInv'
    <3>1. 0 \in 0 .. MAX_CANCEL_CONFIRM_CHECKS
      BY DEF MAX_CANCEL_CONFIRM_CHECKS
    <3>2. /\ asked \in ChaseState /\ asked.resting.id = leg.id /\ asked.resting.seenOpen
          /\ asked.chasesUsed = state.chasesUsed
      BY <2>6, <2>7, <2>10, <3>1 DEF ChaseState, ChaseLeg
    <3>3. Spotted(asked.resting.id)' /\ asked.resting.id \in Legs
      BY <2>6, <2>10, <3>2 DEF Spotted
    <3>4. QED
      BY <1>1, <1>3, <2>6, <2>8, <2>10, <3>2, <3>3, StayingKeepsChase
  <2>11. QED
    BY <1>3, <2>4, <2>7, <2>9, <2>10 DEF Follow
<1>11. ASSUME ChaseConfirm PROVE IInv'
  <2>1. PICK listing \in Listings :
          LET leg == ChaseObserved(listing)
          IN /\ Reads(listing)
             /\ \/ /\ CancelLanded(leg)
                   /\ Post([state EXCEPT !.resting = NoLeg], 1)
                \/ /\ ~CancelLanded(leg)
                   /\ leg.cancelChecks >= MAX_CANCEL_CONFIRM_CHECKS
                   /\ Return([state EXCEPT !.resting = leg], <<>>, Ending("failed", TRUE))
                \/ /\ ~CancelLanded(leg)
                   /\ leg.cancelChecks < MAX_CANCEL_CONFIRM_CHECKS
                   /\ Return([state EXCEPT !.resting = OneMoreWait(leg)], <<>>, NotDone)
    BY <1>11 DEF ChaseConfirm
  <2>2. PICK leg : leg = ChaseObserved(listing)
    OBVIOUS
  <2>3. Reads(listing)
    BY <2>1
  <2>4. UNCHANGED <<intent, order>>
    BY <2>1, <1>6 DEF Post
  <2>5. state.resting.cancelRequested /\ state.resting.seenOpen /\ state.chasesUsed < MaxChases
    BY <1>2, <1>11 DEF ChaseConfirm, Cancelling
  <2>6. /\ leg \in ChaseLeg /\ leg.id = state.resting.id /\ leg.seenOpen
        /\ leg.cancelChecks = state.resting.cancelChecks
        /\ leg.id \in Legs /\ Spotted(leg.id)'
        /\ CancelLanded(leg) => InTheBook = {}
    BY <1>1, <2>2, <2>3, <2>4, <2>5, ChaseReadingSpots DEF CancelLanded
  <2>7. read' \in SUBSET Legs
    BY <1>1, <2>3, ReadingIsTyped
  <2>8. ASSUME NEW seen \in ChaseLeg, NEW ending \in Endings,
               seen.id = leg.id, seen.seenOpen = leg.seenOpen,
               Return([state EXCEPT !.resting = seen], <<>>, ending)
        PROVE  IInv'
    <3>1. PICK next : next = [state EXCEPT !.resting = seen]
      OBVIOUS
    <3>2. next \in ChaseState /\ next.resting = seen /\ next.chasesUsed = state.chasesUsed
      BY <1>2, <3>1, <2>8 DEF ChaseState
    <3>3. Spotted(seen.id)'
      BY <2>6, <2>8 DEF Spotted
    <3>4. QED
      BY <1>1, <2>5, <2>6, <2>7, <2>8, <3>1, <3>2, <3>3, StayingKeepsChase
  <2>9. CASE CancelLanded(leg) /\ Post([state EXCEPT !.resting = NoLeg], 1)
    <3>1. PICK from : from = [state EXCEPT !.resting = NoLeg]
      OBVIOUS
    <3>2. NoLeg \in ChaseLeg
      BY DEF NoLeg, Posted, ChaseLeg, NoId, ABSENCE_GRACE_CHECKS, MAX_CANCEL_CONFIRM_CHECKS
    <3>3. from \in ChaseState /\ from.resting = NoLeg /\ from.chasesUsed = state.chasesUsed
      BY <1>2, <3>1, <3>2 DEF ChaseState
    <3>4. from.chasesUsed + 1 <= MaxChases
      BY <1>2, <2>5, <3>3, ChaseAssumption DEF ChaseAssumption, ChaseState
    <3>5. QED
      BY <1>1, <2>6, <2>7, <2>9, <3>1, <3>3, <3>4, PostKeepsChase
  <2>10. CASE Return([state EXCEPT !.resting = leg], <<>>, Ending("failed", TRUE))
    BY <1>3, <2>6, <2>8, <2>10
  <2>11. CASE leg.cancelChecks < MAX_CANCEL_CONFIRM_CHECKS
              /\ Return([state EXCEPT !.resting = OneMoreWait(leg)], <<>>, NotDone)
    <3>1. PICK waited : waited = OneMoreWait(leg)
      OBVIOUS
    <3>2. leg.cancelChecks \in 0 .. MAX_CANCEL_CONFIRM_CHECKS
      BY <2>6 DEF ChaseLeg
    <3>3. leg.cancelChecks + 1 \in 0 .. MAX_CANCEL_CONFIRM_CHECKS
      BY <2>11, <3>2 DEF MAX_CANCEL_CONFIRM_CHECKS
    <3>4. waited \in ChaseLeg /\ waited.id = leg.id /\ waited.seenOpen = leg.seenOpen
      BY <2>6, <3>1, <3>3 DEF ChaseLeg, OneMoreWait
    <3>5. QED
      BY <1>3, <2>8, <2>11, <3>1, <3>4
  <2>12. QED
    BY <2>1, <2>2, <2>9, <2>10, <2>11
<1>12. QED
  BY <1>7, <1>8, <1>9, <1>10, <1>11 DEF ChaseAdvance

-----------------------------------------------------------------------------
(***************************************************************************)
(* The iceberg.                                                            *)
(***************************************************************************)

\* What a reading teaches an iceberg about its slice: it is listed, or it is missed; and
\* it is taken for closed only when it is missed, not for the first time if it was not seen.
LEMMA SliceLearns ==
  ASSUME NEW leg \in Slice, NEW l, NEW listing, NEW seen,
         l \in listing => seen = [leg EXCEPT !.seenOpen = TRUE, !.missedChecks = 0],
         l \notin listing => seen = [leg EXCEPT !.missedChecks = OneMore(@)]
  PROVE  /\ seen \in Slice /\ seen.id = leg.id /\ seen.quantity = leg.quantity
         /\ leg.seenOpen => seen.seenOpen
         /\ seen.seenOpen => leg.seenOpen \/ l \in listing
         /\ IsResolved(seen, ABSENCE_GRACE_CHECKS) =>
              l \notin listing /\ (leg.seenOpen \/ leg.missedChecks # 0)
<1>1. PICK id \in Legs \union {NoSlice}, quantity \in 0 .. VisibleQuantity, open \in BOOLEAN,
           n \in 0 .. ABSENCE_GRACE_CHECKS :
        leg = [id |-> id, quantity |-> quantity, seenOpen |-> open, missedChecks |-> n]
  BY DEF Slice
<1>2. OneMore(n) \in 0 .. ABSENCE_GRACE_CHECKS
  BY DEF OneMore, ABSENCE_GRACE_CHECKS
<1>3. \A m \in 0 .. ABSENCE_GRACE_CHECKS, now_open \in BOOLEAN :
        [id |-> id, quantity |-> quantity, seenOpen |-> now_open, missedChecks |-> m] \in Slice
  BY <1>1 DEF Slice
<1>4. CASE l \in listing
  <2>1. seen = [id |-> id, quantity |-> quantity, seenOpen |-> TRUE, missedChecks |-> 0]
    BY <1>1, <1>4
  <2>2. ~IsResolved(seen, ABSENCE_GRACE_CHECKS)
    BY <2>1 DEF IsResolved
  <2>3. 0 \in 0 .. ABSENCE_GRACE_CHECKS
    BY DEF ABSENCE_GRACE_CHECKS
  <2>4. seen \in Slice
    BY <1>3, <2>1, <2>3
  <2>5. QED
    BY <1>1, <1>4, <2>1, <2>2, <2>4
<1>5. CASE l \notin listing
  <2>1. seen = [id |-> id, quantity |-> quantity, seenOpen |-> open, missedChecks |-> OneMore(n)]
    BY <1>1, <1>5
  <2>2. ASSUME IsResolved(seen, ABSENCE_GRACE_CHECKS), ~open PROVE n # 0
    <3>1. OneMore(n) >= ABSENCE_GRACE_CHECKS
      BY <2>1, <2>2 DEF IsResolved
    <3>2. QED
      BY <1>1, <3>1 DEF OneMore, ABSENCE_GRACE_CHECKS
  <2>3. seen \in Slice
    BY <1>2, <1>3, <1>1, <2>1
  <2>4. QED
    BY <1>1, <1>5, <2>1, <2>2, <2>3
<1>6. QED
  BY <1>4, <1>5

\* A size rounded down is no larger, and comes to nothing only below one increment.
LEMMA WholeIncrements ==
  ASSUME NEW n \in Nat
  PROVE  RoundDown(n) \in Nat /\ RoundDown(n) <= n /\ (RoundDown(n) = 0 => n < Increment)
<1>1. PICK k \in Nat \ {0} : k = Increment
  BY SizesAssumption DEF SizesAssumption
<1>2. PICK p \in Nat : p = n \div k
  BY <1>1
<1>3. PICK r \in 0 .. (k - 1) : r = n % k
  BY <1>1
<1>4. r <= n
  BY <1>1, <1>2, <1>3
<1>5. QED
  BY <1>1, <1>3, <1>4 DEF RoundDown

\* What the step of an iceberg gives back keeps the invariant when its slice is the only
\* order not yet credited, is within what is left, and was accepted or will be missed.
LEMMA IcebergSteps ==
  ASSUME HostInv, CalmInv, strategy = "iceberg", pc = "called", read' \in SUBSET Legs,
         NEW next \in IcebergState, NEW acts \in Seq(Sendable), NEW ending \in Endings,
         Return(next, acts, ending), NEW w, w = next.working.id,
         \A i \in DOMAIN acts : acts[i].type = "submit" =>
           acts[i].leg = w /\ acts[i].request.size = next.working.quantity,
         \A l \in Legs : l = w /\ order[l] # "absent" =>
           request[l].size = next.working.quantity,
         next.filledQuantity + next.working.quantity <= TotalQuantity,
         next.working.seenOpen => w # NoSlice /\ Spotted(w)',
         Exposed(Legs \ {w}) <= next.filledQuantity,
         Calm => /\ InTheBook \subseteq {w}
                 /\ w \in Legs /\ ending = NotDone =>
                      \/ intent[w] = "submitted"
                      \/ /\ next.fresh
                         /\ \E i \in DOMAIN acts : acts[i].type = "submit" /\ acts[i].leg = w
                 /\ next.working.missedChecks > 0 => w # NoSlice /\ Spotted(w)',
         disturbed = {} =>
           /\ ending = NotDone =>
                cancelSent = {} /\ \A i \in DOMAIN acts : acts[i].type # "cancel"
           /\ Traded(Legs \ {w}) = next.filledQuantity,
         ending.status = "completed" /\ ~ending.reason =>
           w = NoSlice /\ NextSlice(next) = 0
  PROVE  IInv'
<1>1. /\ Stepped /\ state' = next /\ actions' = acts /\ done' = ending
  BY ReturnIsStep
<1>2. /\ UNCHANGED <<strategy, intent, order, request, cancelSent, disturbed>>
      /\ status' = "running" /\ lastError' = FALSE
  BY <1>1, SteppedKeepsOrders
<1>3. /\ InTheBook' = InTheBook
      /\ Exposed(Legs \ {w})' = Exposed(Legs \ {w}) /\ Traded(Legs \ {w})' = Traded(Legs \ {w})
  BY <1>1, StepKeepsSums
<1>4. HostInv' /\ CalmInv'
  BY <1>1, StepKeepsHost, StepKeepsCalm
<1>5. Due' \subseteq {w}
  BY <1>1 DEF Due
<1>6. Calm' <=> Calm
  BY <1>2 DEF Calm
<1>7. IcebergInv'
  BY <1>1, <1>2, <1>3, <1>5 DEF IcebergInv, IsWorking
<1>8. ASSUME Calm
      PROVE  /\ InTheBook' \subseteq {w}
             /\ Placed(Legs \intersect {w})'
             /\ next.working.missedChecks > 0 => w # NoSlice /\ Spotted(w)'
  <2>1. ASSUME w \in Legs PROVE Over' \/ intent'[w] = "submitted" \/ (next.fresh /\ w \in Due')
    <3>1. CASE ending = NotDone
      BY <1>1, <1>2, <1>8, <2>1, <3>1 DEF Due
    <3>2. CASE ending # NotDone
      BY <1>1, <3>2 DEF Over
    <3>3. QED
      BY <3>1, <3>2
  <2>2. Placed(Legs \intersect {w})'
    BY <1>1, <2>1 DEF Placed
  <2>3. QED
    BY <1>3, <1>8, <2>2
<1>9. ASSUME disturbed = {}
      PROVE  /\ ~Over' => cancelSent' \union Cancelled' = {}
             /\ Traded(Legs \ {w})' = next.filledQuantity
  BY <1>1, <1>2, <1>3, <1>9 DEF Over, Cancelled
<1>10. IcebergCalmInv'
  BY <1>1, <1>2, <1>6, <1>8, <1>9 DEF IcebergCalmInv, IsWorking
<1>11. ChaseInv'
  BY <1>2 DEF ChaseInv
<1>12. QED
  BY <1>4, <1>7, <1>10, <1>11 DEF IInv

\* An iceberg with no slice in the book shows the next one, or ends when none is left.
LEMMA RefillKeepsIceberg ==
  ASSUME HostInv, CalmInv, strategy = "iceberg", pc = "called", read' \in SUBSET Legs,
         NEW current \in IcebergState, Refill(current),
         current.working.id = NoSlice, ~current.working.seenOpen,
         current.filledQuantity + current.working.quantity <= TotalQuantity,
         Calm => InTheBook = {} /\ current.working.missedChecks = 0,
         Exposed(Legs) <= current.filledQuantity,
         disturbed = {} => cancelSent = {} /\ Traded(Legs) = current.filledQuantity
  PROVE  IInv'
<1>1. /\ TotalQuantity \in Nat /\ VisibleQuantity \in Nat /\ VisibleQuantity > 0
      /\ current.filledQuantity \in Nat /\ current.filledQuantity <= TotalQuantity
      /\ NoSlice \notin Legs
  BY IcebergAssumption, MakersAssumption
  DEF IcebergAssumption, MakersAssumption, IcebergState, NoSlice
<1>2. PICK remaining \in Nat : remaining = TotalQuantity - current.filledQuantity
  BY <1>1
<1>3. PICK size \in Nat :
        size = NextSlice(current) /\ size <= remaining /\ size <= VisibleQuantity
  <2>1. PICK whole \in Nat :
          whole = IF remaining < VisibleQuantity THEN remaining ELSE VisibleQuantity
    BY <1>1
  <2>2. RoundDown(whole) \in Nat /\ RoundDown(whole) <= whole
    BY WholeIncrements
  <2>3. RoundDown(whole) = NextSlice(current)
    BY <1>2, <2>1 DEF NextSlice
  <2>4. whole <= remaining /\ whole <= VisibleQuantity
    BY <1>1, <2>1
  <2>5. QED
    BY <1>1, <2>1, <2>2, <2>3, <2>4
<1>4. ASSUME NEW ending \in Endings, Return(current, <<>>, ending),
             ending.status = "completed" /\ ~ending.reason => size = 0
      PROVE  IInv'
  <2>1. <<>> \in Seq(Sendable) /\ DOMAIN <<>> = {}
    OBVIOUS
  <2>2. PICK acts \in Seq(Sendable) : acts = <<>>
    BY <2>1
  <2>3. Return(current, acts, ending) /\ DOMAIN acts = {}
    BY <1>4, <2>1, <2>2
  <2>4. PICK w : w = NoSlice
    OBVIOUS
  <2>5. w \notin Legs /\ Legs \ {w} = Legs
    BY <1>1, <2>4
  <2>6. size = 0 => NextSlice(current) = 0
    BY <1>3
  <2>7. /\ w = current.working.id
        /\ \A i \in DOMAIN acts : FALSE
        /\ \A l \in Legs : l # w
        /\ Exposed(Legs \ {w}) <= current.filledQuantity
        /\ ending.status = "completed" /\ ~ending.reason =>
             w = NoSlice /\ NextSlice(current) = 0
    BY <1>4, <2>3, <2>4, <2>5, <2>6
  <2>8. Calm => InTheBook \subseteq {w} /\ current.working.missedChecks = 0
    OBVIOUS
  <2>9. disturbed = {} => cancelSent = {} /\ Traded(Legs \ {w}) = current.filledQuantity
    BY <2>5
  <2>10. Calm => ~(current.working.missedChecks > 0)
    BY <2>8
  <2>11. QED
    BY <1>4, <2>3, <2>5, <2>7, <2>8, <2>9, <2>10, IcebergSteps, ZenonT(40)
<1>5. ASSUME NEW l \in FreshLegs({}), 0 < size,
             Return([current EXCEPT !.working = Shown(l, size), !.fresh = TRUE],
                    <<Submit(l, Limit("buy", size, 0))>>, NotDone)
      PROVE  IInv'
  <2>1. l \in Legs /\ intent[l] = "none" /\ l # NoSlice
    BY <1>1 DEF FreshLegs
  <2>2. order[l] = "absent" /\ filled[l] = 0 /\ Exposure(l) = 0
    BY <2>1 DEF HostInv, LegInv, Exposure, InTheBook
  <2>3. size \in 0 .. VisibleQuantity
    BY <1>1, <1>3
  <2>4. /\ Shown(l, size) \in Slice /\ Shown(l, size).id = l /\ Shown(l, size).quantity = size
        /\ ~Shown(l, size).seenOpen /\ Shown(l, size).missedChecks = 0
    BY <2>1, <2>3 DEF Shown, Slice, ABSENCE_GRACE_CHECKS
  <2>5. PICK next : next = [current EXCEPT !.working = Shown(l, size), !.fresh = TRUE]
    OBVIOUS
  <2>6. /\ next \in IcebergState /\ next.working = Shown(l, size) /\ next.fresh
        /\ next.filledQuantity = current.filledQuantity
    BY <2>4, <2>5 DEF IcebergState
  <2>7. PICK act : act = Submit(l, Limit("buy", size, 0))
    OBVIOUS
  <2>8. /\ act \in Sendable /\ act.leg = l /\ act.type = "submit" /\ act.request.size = size
    BY <1>5, <2>1, <2>7 DEF Sendable, Action, Submit, Limit, Request, Sides
  <2>9. /\ <<act>> \in Seq(Sendable) /\ 1 \in DOMAIN <<act>> /\ <<act>>[1] = act
        /\ \A i \in DOMAIN <<act>> : <<act>>[i] = act
    BY <2>8
  <2>10. Return(next, <<act>>, NotDone)
    BY <1>5, <2>5, <2>7
  <2>11. current.filledQuantity + size <= TotalQuantity
    BY <1>1, <1>2, <1>3
  <2>12. /\ Exposed(Legs \ {l}) <= current.filledQuantity
         /\ Traded(Legs \ {l}) = Traded(Legs)
    <3>1. /\ Exposed(Legs) = Exposure(l) + Exposed(Legs \ {l})
          /\ Traded(Legs) = filled[l] + Traded(Legs \ {l})
      BY <2>1, ExposedApart
    <3>2. PICK S \in SUBSET Legs : S = Legs \ {l}
      OBVIOUS
    <3>3. Exposed(S) \in Nat /\ Traded(S) \in Nat
      BY SumsAreTyped
    <3>4. QED
      BY <2>2, <3>1, <3>2, <3>3
  <2>13. PICK acts \in Seq(Sendable) : acts = <<act>>
    BY <2>9
  <2>14. /\ \A i \in DOMAIN acts : acts[i].type = "submit" /\ acts[i].leg = l
                                   /\ acts[i].request.size = size
         /\ \E i \in DOMAIN acts : acts[i].type = "submit" /\ acts[i].leg = l
    BY <2>8, <2>9, <2>13
  <2>15. Return(next, acts, NotDone)
    BY <2>10, <2>13
  <2>16. /\ next.working.id = l /\ next.working.quantity = size /\ ~next.working.seenOpen
         /\ next.working.missedChecks = 0
    BY <2>4, <2>6
  <2>17. NotDone \in Endings /\ NotDone.status = "none"
    BY EndingsAreKnown
  <2>18. disturbed = {} =>
           /\ cancelSent = {} /\ \A i \in DOMAIN acts : acts[i].type # "cancel"
           /\ Traded(Legs \ {l}) = next.filledQuantity
    BY <2>6, <2>12, <2>14
  <2>19. QED
    BY <2>1, <2>2, <2>6, <2>11, <2>12, <2>14, <2>15, <2>16, <2>17, <2>18, IcebergSteps
<1>6. Ending("completed", FALSE) \in Endings
  BY EndingsAreKnown
<1>7. /\ Ending("completed", TRUE) \in Endings /\ Ending("completed", TRUE).reason
      /\ NotDone \in Endings /\ NotDone.status = "none"
  BY EndingsAreKnown DEF Ending
<1>8. \/ size = 0 /\ Return(current, <<>>, Ending("completed", FALSE))
      \/ Return(current, <<>>, Ending("completed", TRUE))
      \/ Return(current, <<>>, NotDone)
      \/ \E l \in FreshLegs({}) :
           /\ 0 < size
           /\ Return([current EXCEPT !.working = Shown(l, size), !.fresh = TRUE],
                     <<Submit(l, Limit("buy", size, 0))>>, NotDone)
  BY <1>3, ZenonT(40) DEF Refill, IsPlaceable, FreshLeg
<1>9. QED
  BY <1>4, <1>5, <1>6, <1>7, <1>8

\* Every step of an iceberg keeps the invariant: what a closed slice is credited with is no
\* less than it has traded, and exactly that when nothing disturbed the job.
LEMMA IcebergKeepsMakers ==
  ASSUME IInv, IcebergAdvance
  PROVE  IInv'
<1>1. /\ strategy = "iceberg" /\ pc = "called"
      /\ HostInv /\ CalmInv /\ IcebergInv /\ IcebergCalmInv
  BY DEF IcebergAdvance, IcebergExpire, IcebergSliceRejected, IcebergOpening, IcebergWatch,
         IcebergCalled, Called, IInv
<1>2. PICK now_state \in IcebergState : now_state = state
  BY <1>1 DEF IcebergInv
<1>3. PICK old \in Slice : old = state.working
  BY <1>2 DEF IcebergState
<1>4. PICK w : w = old.id
  OBVIOUS
<1>5. /\ \A l \in Legs : l = w /\ order[l] # "absent" => request[l].size = old.quantity
      /\ state.filledQuantity + old.quantity <= TotalQuantity
      /\ old.seenOpen => w # NoSlice /\ Spotted(w)
      /\ Exposed(Legs \ {w}) <= state.filledQuantity
      /\ w \in Legs \union {NoSlice} /\ NoSlice \notin Legs
      /\ old.quantity \in Nat /\ state.filledQuantity \in Nat
  BY <1>1, <1>2, <1>3, <1>4, MakersAssumption
  DEF IcebergInv, IsWorking, Slice, IcebergState, MakersAssumption, NoSlice
<1>6. Calm => /\ InTheBook \subseteq {w}
              /\ Placed(Legs \intersect {w})
              /\ old.missedChecks > 0 => w # NoSlice /\ Spotted(w)
  BY <1>1, <1>3, <1>4 DEF IcebergCalmInv, IsWorking
<1>7. ~Over /\ Due = {} /\ Cancelled = {}
  <2>1. PICK next, acts, ending : Return(next, acts, ending)
    BY DEF IcebergAdvance, IcebergExpire, IcebergSliceRejected, IcebergOpening, IcebergWatch,
           Refill
  <2>2. QED
    BY <1>1, <2>1, ReturnIsStep
<1>8. disturbed = {} => cancelSent = {} /\ Traded(Legs \ {w}) = state.filledQuantity
  BY <1>1, <1>3, <1>4, <1>7 DEF IcebergCalmInv
<1>9. ASSUME NEW next, NEW acts, NEW ending, Return(next, acts, ending)
      PROVE  UNCHANGED <<intent, order>>
  BY <1>9 DEF Return, upstream
<1>10. ASSUME IcebergExpire \/ IcebergSliceRejected PROVE IInv'
  <2>1. PICK ending : /\ ending \in {Ending("completed", TRUE), Ending("failed", TRUE)}
                      /\ \/ Return(state, <<>>, ending)
                         \/ old.seenOpen /\ Return(state, <<Cancel(w)>>, ending)
    BY <1>3, <1>4, <1>10 DEF IcebergExpire, IcebergSliceRejected
  <2>2. ending \in Endings /\ ending # NotDone /\ ending.reason
    <3>1. /\ Ending("completed", TRUE).reason /\ Ending("failed", TRUE).reason
      BY DEF Ending
    <3>2. QED
      BY <2>1, <3>1, EndingsAreKnown
  <2>3. ReadsNothing /\ read' \in SUBSET Legs
    BY <1>1, <1>10, ReadingIsTyped DEF IcebergExpire, IcebergSliceRejected
  <2>4. PICK acts \in Seq(Sendable) :
          /\ \A i \in DOMAIN acts : acts[i].type # "submit"
          /\ Return(now_state, acts, ending)
    <3>1. CASE Return(state, <<>>, ending)
      <4>1. <<>> \in Seq(Sendable) /\ DOMAIN <<>> = {}
        OBVIOUS
      <4>2. QED
        BY <1>2, <3>1, <4>1
    <3>2. CASE old.seenOpen /\ Return(state, <<Cancel(w)>>, ending)
      <4>1. PICK act : act = Cancel(w)
        OBVIOUS
      <4>2. act \in Sendable /\ act.type # "submit"
        BY <1>5, <3>2, <4>1 DEF Sendable, Action, Cancel, NoRequest, Limit, Request, Sides
      <4>3. <<act>> \in Seq(Sendable) /\ \A i \in DOMAIN <<act>> : <<act>>[i] = act
        BY <4>2
      <4>4. Return(now_state, <<act>>, ending)
        BY <1>2, <3>2, <4>1
      <4>5. QED
        BY <4>2, <4>3, <4>4
    <3>3. QED
      BY <2>1, <3>1, <3>2
  <2>5. Spotted(w) => Spotted(w)'
    BY <1>9, <2>3, <2>4 DEF Spotted, ReadsNothing
  <2>6. QED
    BY <1>1, <1>2, <1>3, <1>4, <1>5, <1>6, <1>8, <2>2, <2>3, <2>4, <2>5, IcebergSteps
<1>11. ASSUME IcebergOpening PROVE IInv'
  <2>1. ReadsNothing /\ Refill(now_state) /\ w = NoSlice
    BY <1>2, <1>3, <1>4, <1>11 DEF IcebergOpening, IsWorking
  <2>2. read' \in SUBSET Legs
    BY <1>1, <2>1, ReadingIsTyped
  <2>3. Legs \ {w} = Legs
    BY <1>5, <2>1
  <2>4. Calm => InTheBook = {} /\ old.missedChecks = 0
    BY <1>5, <1>6, <2>1, SMTT(30) DEF InTheBook, Slice
  <2>5. QED
    BY <1>1, <1>2, <1>3, <1>4, <1>5, <1>8, <2>1, <2>2, <2>3, <2>4, RefillKeepsIceberg
<1>12. ASSUME IcebergWatch PROVE IInv'
  <2>1. PICK listing \in Listings :
          LET slice == Observe(state.working, state.working.id \in listing)
          IN /\ Reads(listing)
             /\ \/ /\ ~IsResolved(slice, ABSENCE_GRACE_CHECKS)
                   /\ Return([state EXCEPT !.working = slice, !.fresh = FALSE], <<>>, NotDone)
                \/ /\ IsResolved(slice, ABSENCE_GRACE_CHECKS)
                   /\ \E credit \in Credits(slice.id, slice.quantity, slice.seenOpen) :
                        Refill(Credited(credit))
    BY <1>12 DEF IcebergWatch, SliceIn
  <2>2. PICK slice : slice = Observe(old, w \in listing)
    OBVIOUS
  <2>3. /\ slice \in Slice /\ slice.id = w /\ slice.quantity = old.quantity
        /\ old.seenOpen => slice.seenOpen
        /\ slice.seenOpen => old.seenOpen \/ w \in listing
        /\ IsResolved(slice, ABSENCE_GRACE_CHECKS) =>
             w \notin listing /\ (old.seenOpen \/ old.missedChecks > 0)
    <3>1. /\ slice \in Slice /\ slice.id = old.id /\ slice.quantity = old.quantity
          /\ old.seenOpen => slice.seenOpen
          /\ slice.seenOpen => old.seenOpen \/ w \in listing
          /\ IsResolved(slice, ABSENCE_GRACE_CHECKS) =>
               w \notin listing /\ (old.seenOpen \/ old.missedChecks # 0)
      <4>1. /\ w \in listing => slice = [old EXCEPT !.seenOpen = TRUE, !.missedChecks = 0]
            /\ w \notin listing => slice = [old EXCEPT !.missedChecks = OneMore(@)]
        BY <2>2 DEF Observe
      <4>2. QED
        BY <4>1, SliceLearns
    <3>2. QED
      BY <1>4, <3>1 DEF Slice
  <2>4. slice = Observe(state.working, state.working.id \in listing)
    BY <1>3, <1>4, <2>2, SMTT(30)
  <2>5. Reads(listing) /\ read' \in SUBSET Legs
    BY <1>1, <2>1, ReadingIsTyped
  <2>6. UNCHANGED <<intent, order>>
    BY <2>1, <1>9 DEF Refill
  <2>7. w \in Legs /\ w # NoSlice
    BY <1>3, <1>4, <1>5, <1>12 DEF IcebergWatch, IsWorking
  <2>8. PICK l \in Legs : l = w
    BY <2>7
  <2>9. slice.seenOpen => Spotted(w)'
    <3>1. ASSUME slice.seenOpen PROVE intent[l] = "submitted"
      BY <1>5, <2>3, <2>8, <3>1, ListedIsKnown DEF Spotted
    <3>2. QED
      BY <2>5, <2>6, <2>8, <3>1, ReadingSpots
  <2>10. ASSUME Calm PROVE intent[l] = "submitted" /\ Spotted(w)'
    <3>1. intent[l] = "submitted" \/ (state.fresh /\ lastError)
      BY <1>6, <1>7, <2>8, <2>10, SMTT(30) DEF Placed
    <3>2. ~(state.fresh /\ lastError)
      BY <1>1, <1>12, <2>10 DEF CalmInv, IcebergWatch, SliceWasRejected
    <3>3. QED
      BY <2>5, <2>6, <2>8, <3>1, <3>2, ReadingSpots
  <2>11. ASSUME Return([state EXCEPT !.working = slice, !.fresh = FALSE], <<>>, NotDone)
         PROVE  IInv'
    <3>1. PICK next : next = [state EXCEPT !.working = slice, !.fresh = FALSE]
      OBVIOUS
    <3>2. /\ next \in IcebergState /\ next.working = slice
          /\ next.filledQuantity = state.filledQuantity
      BY <1>2, <2>3, <3>1 DEF IcebergState
    <3>3. <<>> \in Seq(Sendable) /\ DOMAIN <<>> = {}
      OBVIOUS
    <3>4. PICK acts \in Seq(Sendable) : Return(next, acts, NotDone) /\ DOMAIN acts = {}
      BY <2>11, <3>1, <3>3
    <3>5. /\ w = next.working.id
          /\ \A i \in DOMAIN acts : FALSE
          /\ \A k \in Legs : k = w /\ order[k] # "absent" =>
               request[k].size = next.working.quantity
          /\ next.filledQuantity + next.working.quantity <= TotalQuantity
          /\ next.working.seenOpen => w # NoSlice /\ Spotted(w)'
          /\ Exposed(Legs \ {w}) <= next.filledQuantity
      BY <1>5, <2>3, <2>7, <2>9, <3>2, <3>4
    <3>6. Calm => /\ InTheBook \subseteq {w}
                  /\ w \in Legs /\ NotDone = NotDone =>
                       \/ intent[w] = "submitted"
                       \/ /\ next.fresh
                          /\ \E i \in DOMAIN acts : acts[i].type = "submit" /\ acts[i].leg = w
                  /\ next.working.missedChecks > 0 => w # NoSlice /\ Spotted(w)'
      BY <1>6, <2>7, <2>8, <2>10
    <3>7. disturbed = {} => /\ cancelSent = {} /\ \A i \in DOMAIN acts : acts[i].type # "cancel"
                            /\ Traded(Legs \ {w}) = next.filledQuantity
      BY <1>8, <3>2, <3>4
    <3>8. PICK ending \in Endings : ending = NotDone
      BY EndingsAreKnown
    <3>9. Return(next, acts, ending) /\ ending.status # "completed"
      BY <3>4, <3>8, EndingsAreKnown
    <3>10. QED
      BY <1>1, <2>5, <3>2, <3>5, <3>6, <3>7, <3>8, <3>9, IcebergSteps
  <2>12. ASSUME IsResolved(slice, ABSENCE_GRACE_CHECKS),
                NEW credit \in Credits(slice.id, slice.quantity, slice.seenOpen),
                Refill(Credited(credit))
         PROVE  IInv'
    <3>1. ASSUME old.seenOpen \/ Calm PROVE order[l] \in {"filled", "cancelled"}
      <4>1. Spotted(w) /\ l \in Legs \ listing
        BY <1>5, <1>6, <2>3, <2>8, <2>12, <3>1
      <4>2. QED
        BY <1>1, <2>8, <4>1, MissingIsClosed
    <3>2. /\ filled[l] \in Nat /\ filled[l] <= old.quantity
          /\ Exposure(l) \in Nat /\ Exposure(l) <= old.quantity
          /\ order[l] \in {"filled", "cancelled"} => Exposure(l) = filled[l]
      <4>1. LegInv(l) /\ filled[l] \in Nat /\ Exposure(l) \in Nat /\ request[l].size \in Nat
        BY <1>1, SumsAreTyped DEF HostInv, HostTypes, Request
      <4>2. filled[l] <= old.quantity
        <5>1. CASE order[l] = "absent"
          BY <1>5, <4>1, <5>1 DEF LegInv
        <5>2. CASE order[l] # "absent"
          BY <1>5, <2>8, <4>1, <5>2 DEF LegInv
        <5>3. QED
          BY <5>1, <5>2
      <4>3. l \in InTheBook => request[l].size = old.quantity
        BY <1>5, <2>8 DEF InTheBook
      <4>4. QED
        BY <1>5, <4>1, <4>2, <4>3 DEF Exposure, InTheBook
    <3>3. /\ credit \in {filled[l], old.quantity}
          /\ credit = old.quantity \/ slice.seenOpen
      BY <2>3, <2>8, <2>12 DEF Credits
    <3>4. credit \in Nat /\ Exposure(l) <= credit /\ credit <= old.quantity
      <4>1. CASE credit = old.quantity
        BY <1>5, <3>2, <4>1
      <4>2. CASE credit = filled[l] /\ slice.seenOpen
        <5>1. Exposure(l) = filled[l]
          BY <2>3, <2>12, <3>1, <3>2, <4>2
        <5>2. QED
          BY <3>2, <4>2, <5>1
      <4>3. QED
        BY <3>3, <4>1, <4>2
    <3>5. ASSUME disturbed = {} PROVE credit = filled[l]
      <4>1. order[l] \in {"filled", "cancelled"} /\ cancelSent = {}
        BY <1>8, <3>1, <3>5 DEF Calm
      <4>2. order[l] = "filled"
        BY <1>1, <3>5, <4>1 DEF HostInv, LegInv
      <4>3. filled[l] = old.quantity
        BY <1>1, <1>5, <2>8, <4>2 DEF HostInv, LegInv
      <4>4. QED
        BY <3>3, <4>3
    <3>6. PICK total \in Nat : total = state.filledQuantity + credit
      BY <1>5, <3>4
    <3>7. total \in 0 .. TotalQuantity
      BY <1>5, <3>4, <3>6, IcebergAssumption DEF IcebergAssumption
    <3>8. /\ Shown(NoSlice, 0) \in Slice /\ Shown(NoSlice, 0).id = NoSlice
          /\ Shown(NoSlice, 0).quantity = 0 /\ ~Shown(NoSlice, 0).seenOpen
          /\ Shown(NoSlice, 0).missedChecks = 0
      BY IcebergAssumption DEF IcebergAssumption, Shown, Slice, ABSENCE_GRACE_CHECKS
    <3>9. PICK current : current = [state EXCEPT !.working = Shown(NoSlice, 0), !.fresh = TRUE,
                                                 !.filledQuantity = @ + credit]
      OBVIOUS
    <3>10. /\ current \in IcebergState /\ current.working = Shown(NoSlice, 0)
           /\ current.filledQuantity = total
      BY <1>2, <3>6, <3>7, <3>8, <3>9 DEF IcebergState
    <3>11. Refill(current)
      BY <2>12, <3>9 DEF Credited
    <3>12. /\ Exposed(Legs) <= total
           /\ disturbed = {} => Traded(Legs) = total
      <4>1. /\ Exposed(Legs) = Exposure(l) + Exposed(Legs \ {l})
            /\ Traded(Legs) = filled[l] + Traded(Legs \ {l})
        BY <1>1, ExposedApart
      <4>2. PICK S \in SUBSET Legs : S = Legs \ {l}
        OBVIOUS
      <4>3. Exposed(S) \in Nat /\ Traded(S) \in Nat
        BY <1>1, SumsAreTyped
      <4>4. Exposed(S) <= state.filledQuantity
        BY <1>5, <2>8, <4>2
      <4>5. disturbed = {} => Traded(S) = state.filledQuantity
        BY <1>8, <2>8, <4>2
      <4>6. Exposed(Legs) = Exposure(l) + Exposed(S) /\ Traded(Legs) = filled[l] + Traded(S)
        BY <4>1, <4>2
      <4>7. QED
        BY <1>5, <3>2, <3>4, <3>5, <3>6, <4>3, <4>4, <4>5, <4>6
    <3>13. Calm => InTheBook = {}
      BY <1>6, <2>8, <3>1 DEF InTheBook
    <3>14. current.filledQuantity + current.working.quantity <= TotalQuantity
      BY <3>7, <3>8, <3>10, IcebergAssumption DEF IcebergAssumption
    <3>15. /\ current.working.id = NoSlice /\ ~current.working.seenOpen
           /\ current.working.missedChecks = 0
      BY <3>8, <3>10
    <3>16. QED
      BY <1>1, <1>8, <2>5, <3>10, <3>11, <3>12, <3>13, <3>14, <3>15, RefillKeepsIceberg
  <2>13. QED
    BY <2>1, <2>4, <2>11, <2>12, ZenonT(40)
<1>13. QED
  BY <1>10, <1>11, <1>12, SMTT(30) DEF IcebergAdvance

-----------------------------------------------------------------------------
(***************************************************************************)
(* The theorems.                                                           *)
(***************************************************************************)

\* A step that changes nothing, and time, keep the invariant.
LEMMA StutterKeepsMakers ==
  ASSUME IInv, UNCHANGED hostVars
  PROVE  IInv'
<1> SUFFICES ASSUME strategy \in {"chase", "iceberg"} PROVE IInv'
  BY DEF IInv, hostVars, database
<1>1. HostInv /\ CalmInv /\ ChaseInv /\ IcebergInv /\ IcebergCalmInv
  BY DEF IInv
<1>2. UNCHANGED <<strategy, status, lastError, state, intent, actions, done, order, request,
                  filled, cancelSent, read, disturbed>>
  BY DEF hostVars, database, memory, upstream, history
<1>3. HostInv' /\ CalmInv'
  BY <1>1, StutterKeepsHost, StutterKeepsCalm
<1>4. /\ InTheBook' = InTheBook /\ Due' = Due /\ Cancelled' = Cancelled /\ Over' = Over
      /\ Calm' = Calm /\ \A l : Spotted(l)' = Spotted(l)
  BY <1>2 DEF InTheBook, Due, Cancelled, Over, Calm, Spotted
<1>5. ChaseInv'
  BY <1>1, <1>2, <1>4 DEF ChaseInv, Spotted
<1>6. /\ Exposed(Legs \ {state.working.id})' = Exposed(Legs \ {state.working.id})
      /\ Traded(Legs \ {state.working.id})' = Traded(Legs \ {state.working.id})
      /\ Placed(Legs \intersect {state.working.id})' = Placed(Legs \intersect {state.working.id})
  BY <1>2, <1>4 DEF Exposed, Exposure, Traded, Placed
<1>7. IcebergInv'
  BY <1>1, <1>2, <1>4, <1>6 DEF IcebergInv, IsWorking, Spotted
<1>8. IcebergCalmInv'
  BY <1>1, <1>2, <1>4, <1>6 DEF IcebergCalmInv, IsWorking, Spotted
<1>9. QED
  BY <1>3, <1>5, <1>7, <1>8 DEF IInv

\* Every step keeps the invariant; a grid is not the invariant's to speak of.
LEMMA MakersKeep == IInv /\ [Next]_makerVars => IInv'
<1> SUFFICES ASSUME IInv, [Next]_makerVars PROVE IInv'
  OBVIOUS
<1>1. CASE HostNext \/ AdvanceThrows
  BY <1>1, HostKeepsMakers DEF AdvanceThrows
<1>2. CASE ChaseAdvance
  BY <1>2, ChaseKeepsMakers
<1>3. CASE IcebergAdvance
  BY <1>3, IcebergKeepsMakers
<1>4. CASE GridAdvance
  <2>1. strategy = "grid"
    BY <1>4
    DEF GridAdvance, GridOrderRejected, StopGrid, GridNoPrice, BreachStop, GridWork, GridCalled,
        Called
  <2>2. ASSUME NEW listing, NEW below, NEW credit, Work(listing, below, credit)
        PROVE  strategy' = strategy
    BY <2>2 DEF Work, Return
  <2>3. strategy' = strategy
    BY <1>4, <2>2
    DEF GridAdvance, GridOrderRejected, StopGrid, GridNoPrice, BreachStop, GridWork, Return
  <2>4. QED
    BY <2>1, <2>3 DEF IInv
<1>5. CASE TimePasses \/ UNCHANGED makerVars
  BY <1>5, StutterKeepsMakers DEF TimePasses, makerVars
<1>6. QED
  BY <1>1, <1>2, <1>3, <1>4, <1>5 DEF Next, Advance

\* The invariant of a chase and of an iceberg holds through every fault, crash and halt.
THEOREM MakersInvariant == Spec => []IInv
BY MakersBegin, MakersKeep, PTL DEF Spec

\* A chase never has two orders in the book, nor has an iceberg that no restart and no halt
\* disturbed.
THEOREM OneOrderOut == Spec => []OneOrderAtATime
<1>1. ASSUME IInv PROVE OneOrderAtATime
  <2>1. SUFFICES ASSUME \/ strategy = "chase"
                        \/ strategy = "iceberg" /\ disturbed \intersect {"crash", "halt"} = {}
                 PROVE  Cardinality(InTheBook) <= 1
    BY DEF OneOrderAtATime
  <2>2. PICK x : InTheBook \subseteq {x}
    BY <1>1, <2>1 DEF IInv, ChaseInv, IcebergCalmInv, Calm
  <2>3. IsFiniteSet({x}) /\ Cardinality({x}) = 1
    BY FS_Singleton
  <2>4. Cardinality(InTheBook) <= Cardinality({x})
    BY <2>2, <2>3, FS_Subset
  <2>5. QED
    BY <2>3, <2>4
<1>2. QED
  BY <1>1, MakersInvariant, PTL

\* Whatever it could not find out about its slices, an iceberg has not traded more than the
\* total, and its orders cannot trade more.
THEOREM IcebergsStayWithinTotal == Spec => []IcebergNeverOverfills
<1>1. ASSUME IInv PROVE IcebergNeverOverfills
  <2>1. SUFFICES ASSUME strategy = "iceberg" PROVE Exposed(Legs) <= TotalQuantity
    BY DEF IcebergNeverOverfills
  <2>2. HostInv /\ IcebergInv
    BY <1>1, <2>1 DEF IInv
  <2>3. PICK w : w = state.working.id
    OBVIOUS
  <2>4. PICK S \in SUBSET Legs : S = Legs \ {w}
    OBVIOUS
  <2>5. /\ Exposed(S) <= state.filledQuantity /\ Exposed(S) \in Nat
        /\ state.filledQuantity \in Nat /\ state.working.quantity \in Nat
        /\ state.filledQuantity + state.working.quantity <= TotalQuantity
        /\ TotalQuantity \in Nat
    BY <2>1, <2>2, <2>3, <2>4, SumsAreTyped, IcebergAssumption
    DEF IcebergInv, IcebergState, Slice, IcebergAssumption
  <2>6. CASE w \notin Legs
    <3>1. S = Legs
      BY <2>4, <2>6
    <3>2. QED
      BY <2>5, <3>1
  <2>7. CASE w \in Legs
    <3>1. PICK l \in Legs : l = w
      BY <2>7
    <3>2. LegInv(l) /\ filled[l] \in Nat /\ request[l].size \in Nat
      BY <2>2 DEF HostInv, HostTypes, Request
    <3>3. order[l] # "absent" => request[l].size = state.working.quantity
      BY <2>1, <2>2, <2>3, <3>1 DEF IcebergInv
    <3>4. Exposure(l) \in Nat /\ Exposure(l) <= state.working.quantity
      <4>1. CASE order[l] = "absent"
        BY <2>5, <3>2, <4>1 DEF LegInv, Exposure, InTheBook
      <4>2. CASE order[l] # "absent"
        BY <2>5, <3>2, <3>3, <4>2 DEF LegInv, Exposure
      <4>3. QED
        BY <4>1, <4>2
    <3>5. Exposed(Legs) = Exposure(l) + Exposed(S)
      BY <2>2, <2>4, <3>1, ExposedApart
    <3>6. QED
      BY <2>5, <3>4, <3>5
  <2>8. QED
    BY <2>6, <2>7
<1>2. QED
  BY <1>1, MakersInvariant, PTL

\* An iceberg that nothing disturbed and that completed without a reason has traded what it
\* was asked for, but for a rest below the increment, or its slices are below the increment.
THEOREM FinishedIcebergsLeaveNoSlice == Spec => []IcebergLeavesNoSlice
<1>1. ASSUME IInv PROVE IcebergLeavesNoSlice
  <2>1. SUFFICES ASSUME strategy = "iceberg", disturbed = {}, status = "completed", ~lastError,
                        VisibleQuantity >= Increment
                 PROVE  TotalQuantity - Traded(Legs) < Increment
    BY DEF IcebergLeavesNoSlice
  <2>2. /\ ~IsWorking /\ NextSlice(state) = 0
        /\ Traded(Legs \ {state.working.id}) = state.filledQuantity
        /\ state.filledQuantity \in 0 .. TotalQuantity
    BY <1>1, <2>1 DEF IInv, IcebergCalmInv, IcebergInv, IcebergState
  <2>3. Legs \ {state.working.id} = Legs
    BY <2>2, MakersAssumption DEF MakersAssumption, IsWorking, NoSlice
  <2>4. TotalQuantity \in Nat /\ VisibleQuantity \in Nat /\ Increment \in Nat
    BY IcebergAssumption, SizesAssumption DEF IcebergAssumption, SizesAssumption
  <2>5. PICK left \in Nat : left = TotalQuantity - state.filledQuantity
    BY <2>2, <2>4
  <2>6. PICK whole \in Nat : whole = IF left < VisibleQuantity THEN left ELSE VisibleQuantity
    BY <2>4
  <2>7. RoundDown(whole) = 0
    BY <2>2, <2>5, <2>6 DEF NextSlice
  <2>8. whole < Increment
    BY <2>7, WholeIncrements
  <2>9. left < Increment
    BY <2>1, <2>4, <2>6, <2>8
  <2>10. QED
    BY <2>2, <2>3, <2>5, <2>9
<1>2. QED
  BY <1>1, MakersInvariant, PTL

-----------------------------------------------------------------------------
(***************************************************************************)
(* The grid. A review and a placing are folds over the orders and over the *)
(* queue: what is true of them is true after each element (FoldRuns,       *)
(* SumLemmas).                                                             *)
(***************************************************************************)
\* A sequence holds nothing twice.
Distinct(s) == \A i, j \in DOMAIN s : s[i] = s[j] => i = j

\* A queue holds no placement twice.
Queues == {q \in Seq(Placement) : Distinct(q)}

\* There are two placements for each level.
LEMMA PlacementsAreCounted ==
  IsFiniteSet(Placement) /\ Cardinality(Placement) <= 2 * LevelCount
<1>1. LevelCount \in Nat
  BY GridAssumption DEF GridAssumption
<1> DEFINE f == [n \in 1 .. 2 * LevelCount |->
                   IF n <= LevelCount THEN [level |-> n, side |-> "buy"]
                                      ELSE [level |-> n - LevelCount, side |-> "sell"]]
<1>2. \A n \in 1 .. 2 * LevelCount : f[n] \in Placement
  BY <1>1 DEF Placement, Levels, Sides
<1>3. ASSUME NEW p \in Placement
      PROVE  \E n \in 1 .. 2 * LevelCount : f[n] = p
  <2>1. PICK level \in Levels, side \in Sides : p = [level |-> level, side |-> side]
    BY DEF Placement
  <2>2. CASE side = "buy"
    <3>1. level \in 1 .. 2 * LevelCount /\ level <= LevelCount
      BY <1>1 DEF Levels
    <3>2. f[level] = p
      BY <2>1, <2>2, <3>1
    <3>3. QED
      BY <3>1, <3>2
  <2>3. CASE side = "sell"
    <3>1. PICK n \in 1 .. 2 * LevelCount :
                   n = level + LevelCount /\ ~(n <= LevelCount) /\ n - LevelCount = level
      BY <1>1 DEF Levels
    <3>2. f[n] = p
      BY <2>1, <2>3, <3>1
    <3>3. QED
      BY <3>2
  <2>4. QED
    BY <2>2, <2>3 DEF Sides
<1>4. f \in [1 .. 2 * LevelCount -> Placement]
  BY <1>2
<1> HIDE DEF f
<1>5. f \in Surjection(1 .. 2 * LevelCount, Placement)
  BY <1>3, <1>4 DEF Surjection
<1>6. PICK n \in Nat : n = 2 * LevelCount
  BY <1>1
<1>7. ExistsSurjection(1 .. n, Placement)
  BY <1>5, <1>6 DEF ExistsSurjection
<1>8. QED
  BY <1>6, <1>7, FS_SurjCardinalityBound, FS_NatSurjection

\* A queue without a placement has room for it.
LEMMA QueueHasRoom ==
  ASSUME NEW q \in Queues, NEW item \in Placement, item \notin ToSet(q)
  PROVE  Len(q) < 2 * LevelCount
<1>1. /\ q \in [1 .. Len(q) -> Placement \ {item}] /\ Len(q) \in Nat
      /\ \A i, j \in 1 .. Len(q) : q[i] = q[j] => i = j
  BY SMTT(30) DEF Queues, Distinct, ToSet
<1>2. PICK n \in Nat : n = Len(q)
  BY <1>1
<1>3. q \in Injection(1 .. n, Placement \ {item})
  BY <1>1, <1>2 DEF Injection, IsInjective
<1>4. /\ IsFiniteSet(Placement \ {item})
      /\ Cardinality(Placement \ {item}) = Cardinality(Placement) - 1
      /\ Cardinality(Placement) \in Nat /\ Cardinality(Placement \ {item}) \in Nat
  BY PlacementsAreCounted, FS_RemoveElement, FS_CardinalityType
<1>5. Cardinality(1 .. n) = n
  BY FS_Interval
<1>6. Cardinality(1 .. n) <= Cardinality(Placement \ {item})
  BY <1>3, <1>4, FS_Injection
<1>7. n <= Cardinality(Placement) - 1 /\ 2 * LevelCount \in Nat
  BY <1>4, <1>5, <1>6, GridAssumption DEF GridAssumption
<1>8. QED
  BY <1>2, <1>4, <1>7, PlacementsAreCounted

\* So a placement that is not in the queue yet is never refused.
LEMMA EnqueueAdds ==
  ASSUME NEW q \in Queues, NEW item \in Placement
  PROVE  /\ Enqueue(q, item) \in Queues
         /\ ToSet(Enqueue(q, item)) = ToSet(q) \union {item}
<1>1. CASE item \in ToSet(q)
  BY <1>1 DEF Enqueue
<1>2. CASE item \notin ToSet(q)
  <2>1. q \in Seq(Placement) /\ Len(q) \in Nat /\ LevelCount \in Nat
    BY GridAssumption DEF Queues, GridAssumption
  <2>2. Enqueue(q, item) = Append(q, item)
    BY <1>2, <2>1, QueueHasRoom DEF Enqueue
  <2>3. PICK r : r = Append(q, item)
    OBVIOUS
  <2>4. /\ r \in Seq(Placement) /\ Len(r) = Len(q) + 1 /\ DOMAIN r = 1 .. (Len(q) + 1)
        /\ DOMAIN q = 1 .. Len(q)
        /\ r[Len(q) + 1] = item /\ \A i \in 1 .. Len(q) : r[i] = q[i]
    BY <2>1, <2>3
  <2>5. \A i \in 1 .. Len(q) : q[i] # item
    BY <1>2, <2>4 DEF ToSet
  <2>6. Distinct(r)
    BY <2>1, <2>4, <2>5 DEF Distinct, Queues
  <2>7. ToSet(r) = ToSet(q) \union {item}
    BY <2>1, <2>4 DEF ToSet
  <2>8. QED
    BY <2>2, <2>3, <2>4, <2>6, <2>7 DEF Queues
<1>3. QED
  BY <1>1, <1>2

\* The queue goes through the placements one by one.
LEMMA EnqueueAllRuns ==
  ASSUME NEW queue \in Queues, NEW items \in Seq(Placement)
  PROVE  \E f \in [0 .. Len(items) -> Queues] :
           /\ f[0] = queue /\ EnqueueAll(queue, items) = f[Len(items)]
           /\ \A n \in 1 .. Len(items) : f[n] = Enqueue(f[n - 1], items[n])
<1>1. PICK N \in Nat : N = Len(items) /\ DOMAIN items = 1 .. N
  OBVIOUS
<1>2. \A n \in 1 .. N : items[n] \in Placement
  BY <1>1
<1> DEFINE step == [p \in Queues \X (1 .. N) |-> Enqueue(p[1], items[p[2]])]
<1>3. step \in [Queues \X (1 .. N) -> Queues]
  BY <1>2, EnqueueAdds
<1>4. \A q \in Queues, n \in 1 .. N : step[<<q, n>>] = Enqueue(q, items[n])
  OBVIOUS
<1> HIDE DEF step
<1>5. PICK g \in [SUBSET (1 .. N) -> Queues] : FoldsBy(queue, step, N, g)
  BY <1>3, FoldExists
<1>6. IsFold(Enqueue, queue, items, g)
  <2>1. ASSUME NEW s \in SUBSET (1 .. N) PROVE g[s] = FoldStep(Enqueue, queue, items, g, s)
    <3>1. CASE s = {}
      BY <1>5, <3>1 DEF FoldsBy, FoldStep
    <3>2. CASE s # {}
      <4>1. Max(s) \in 1 .. N /\ g[s \ {Max(s)}] \in Queues
        BY <3>2, MaxIsIn
      <4>2. g[s] = step[<<g[s \ {Max(s)}], Max(s)>>]
        BY <1>5, <3>2 DEF FoldsBy
      <4>3. QED
        BY <1>4, <3>2, <4>1, <4>2 DEF FoldStep
    <3>3. QED
      BY <3>1, <3>2
  <2>2. QED
    BY <1>1, <2>1 DEF IsFold
<1>7. PICK h : h = CHOOSE x : IsFold(Enqueue, queue, items, x)
  OBVIOUS
<1>8. IsFold(Enqueue, queue, items, h)
  BY <1>6, <1>7
<1>9. EnqueueAll(queue, items) = h[1 .. N]
  BY <1>1, <1>7 DEF EnqueueAll, FoldLeft, MapThenFoldSet, IsFold, FoldStep
<1>10. h[{}] = queue
  BY <1>1, <1>8 DEF IsFold, FoldStep
<1>11. ASSUME NEW n \in 1 .. N, h[1 .. (n - 1)] \in Queues
       PROVE  h[1 .. n] = step[<<h[1 .. (n - 1)], n>>]
  <2>1. /\ 1 .. n \in SUBSET (1 .. N) /\ 1 .. n # {} /\ Max(1 .. n) = n
        /\ (1 .. n) \ {n} = 1 .. (n - 1)
    BY FirstNumbers
  <2>2. h[1 .. n] = FoldStep(Enqueue, queue, items, h, 1 .. n)
    BY <1>1, <1>8, <2>1 DEF IsFold
  <2>3. h[1 .. n] = Enqueue(h[1 .. (n - 1)], items[n])
    BY <2>1, <2>2 DEF FoldStep
  <2>4. QED
    BY <1>4, <1>11, <2>3
<1>12. RunsTo(Queues, queue, step, N, h[1 .. N])
  <2>1. StepsUp(Queues, step, N, h)
    BY <1>11 DEF StepsUp
  <2>2. QED
    BY <1>3, <1>10, <2>1, FoldRuns
<1>13. PICK f \in [0 .. N -> Queues] :
         /\ f[0] = queue /\ h[1 .. N] = f[N]
         /\ \A n \in 1 .. N : f[n] = step[<<f[n - 1], n>>]
  BY <1>12 DEF RunsTo
<1>14. ASSUME NEW n \in 1 .. N PROVE f[n] = Enqueue(f[n - 1], items[n])
  <2>1. f[n - 1] \in Queues
    BY <1>13
  <2>2. QED
    BY <1>4, <1>13, <2>1
<1>15. QED
  BY <1>1, <1>9, <1>13, <1>14

\* All placements are in the queue then.
LEMMA EnqueueAllAdds ==
  ASSUME NEW queue \in Queues, NEW items \in Seq(Placement)
  PROVE  /\ EnqueueAll(queue, items) \in Queues
         /\ ToSet(EnqueueAll(queue, items)) = ToSet(queue) \union ToSet(items)
<1>1. PICK N \in Nat : N = Len(items) /\ DOMAIN items = 1 .. N
  OBVIOUS
<1>2. PICK f \in [0 .. N -> Queues] :
        /\ f[0] = queue /\ EnqueueAll(queue, items) = f[N]
        /\ \A n \in 1 .. N : f[n] = Enqueue(f[n - 1], items[n])
  BY <1>1, EnqueueAllRuns, SMTT(30)
<1> DEFINE T == {n \in 0 .. N : ToSet(f[n]) = ToSet(queue) \union {items[i] : i \in 1 .. n}}
<1>3. 0 \in T
  BY <1>2
<1>4. ASSUME NEW n \in 1 .. N, n - 1 \in T PROVE n \in T
  <2>1. f[n] = Enqueue(f[n - 1], items[n]) /\ f[n - 1] \in Queues /\ items[n] \in Placement
    BY <1>1, <1>2
  <2>2. ToSet(f[n]) = ToSet(f[n - 1]) \union {items[n]}
    BY <2>1, EnqueueAdds
  <2>3. 1 .. n = (1 .. (n - 1)) \union {n}
    OBVIOUS
  <2>4. QED
    BY <1>4, <2>2, <2>3
<1> HIDE DEF T
<1>5. N \in T
  <2>1. \A n \in 0 .. N : n \in T
    BY <1>3, <1>4, Induct
  <2>2. QED
    BY <2>1
<1>6. ToSet(items) = {items[i] : i \in 1 .. N}
  BY <1>1 DEF ToSet
<1>7. QED
  BY <1>2, <1>5, <1>6 DEF T

-----------------------------------------------------------------------------
(***************************************************************************)
(* The review of the orders.                                               *)
(***************************************************************************)

\* What a reading teaches a grid about an order: it is listed, or it is missed; and it is
\* taken for closed only when it is missed.
LEMMA GridLearns ==
  ASSUME NEW o \in GridOrder, NEW listing, NEW seen, seen = Observe(o, o.id \in listing)
  PROVE  /\ seen \in GridOrder
         /\ seen.level = o.level /\ seen.side = o.side /\ seen.id = o.id
         /\ seen.seenOpen <=> o.seenOpen \/ o.id \in listing
         /\ IsResolved(seen, ABSENCE_GRACE_CHECKS) =>
              o.id \notin listing /\ (seen.seenOpen \/ o.missedChecks > 0)
<1>1. PICK level \in Levels, side \in Sides, id \in Legs, open \in BOOLEAN,
           n \in 0 .. ABSENCE_GRACE_CHECKS :
        o = [level |-> level, side |-> side, id |-> id, seenOpen |-> open, missedChecks |-> n]
  BY DEF GridOrder
<1>2. OneMore(n) \in 0 .. ABSENCE_GRACE_CHECKS /\ (OneMore(n) >= ABSENCE_GRACE_CHECKS => n > 0)
  BY DEF OneMore, ABSENCE_GRACE_CHECKS
<1>3. \A m \in 0 .. ABSENCE_GRACE_CHECKS, now_open \in BOOLEAN :
        [level |-> level, side |-> side, id |-> id, seenOpen |-> now_open, missedChecks |-> m]
          \in GridOrder
  BY DEF GridOrder
<1>4. CASE o.id \in listing
  <2>1. seen = [level |-> level, side |-> side, id |-> id, seenOpen |-> TRUE, missedChecks |-> 0]
    BY <1>1, <1>4 DEF Observe
  <2>2. ~IsResolved(seen, ABSENCE_GRACE_CHECKS)
    BY <2>1 DEF IsResolved
  <2>3. 0 \in 0 .. ABSENCE_GRACE_CHECKS
    BY DEF ABSENCE_GRACE_CHECKS
  <2>4. seen \in GridOrder
    BY <1>3, <2>1, <2>3
  <2>5. seen.level = level /\ seen.side = side /\ seen.id = id /\ seen.seenOpen
    BY <2>1
  <2>6. QED
    BY <1>1, <1>4, <2>2, <2>4, <2>5
<1>5. CASE o.id \notin listing
  <2>1. seen = [level |-> level, side |-> side, id |-> id, seenOpen |-> open,
                missedChecks |-> OneMore(n)]
    BY <1>1, <1>5 DEF Observe
  <2>2. seen \in GridOrder
    BY <1>2, <1>3, <2>1
  <2>3. IsResolved(seen, ABSENCE_GRACE_CHECKS) => seen.seenOpen \/ o.missedChecks > 0
    BY <1>1, <1>2, <2>1 DEF IsResolved
  <2>4. QED
    BY <1>1, <1>5, <2>1, <2>2, <2>3
<1>6. QED
  BY <1>4, <1>5

\* The pair of levels a placement belongs to: the buy at level n and the sell above it.
PairOf(p) == IF p.side = "buy" THEN p.level ELSE p.level - 1

\* What answers an order is at the levels of the grid, and belongs to the pair of the
\* order, unless the order is at the edge of the grid.
LEMMA AnswerIsPlaced ==
  ASSUME NEW o \in GridOrder, NEW n \in Nat
  PROVE  /\ Answer(o, n) \subseteq Placement /\ IsFiniteSet(Answer(o, n))
         /\ PairOf(o) \in Levels \ {LevelCount} => \E p \in Answer(o, n) : PairOf(p) = PairOf(o)
<1>1. o.level \in Levels /\ o.side \in {"buy", "sell"} /\ LevelCount \in Nat
  BY GridAssumption DEF GridOrder, Sides, GridAssumption
<1>2. PICK level \in Nat : level = o.level /\ level \in Levels
  BY <1>1 DEF Levels
<1>3. CASE n = 0
  <2>1. Answer(o, n) = {[level |-> level, side |-> o.side]}
    BY <1>2, <1>3 DEF Answer
  <2>2. [level |-> level, side |-> o.side] \in Placement
    BY <1>1, <1>2 DEF Placement, Sides
  <2>3. PairOf([level |-> level, side |-> o.side]) = PairOf(o)
    BY <1>2 DEF PairOf
  <2>4. QED
    BY <2>1, <2>2, <2>3, FS_Singleton
<1>4. CASE n > 0 /\ o.side = "buy"
  <2>1. Answer(o, n) = {[level |-> m, side |-> "sell"] : m \in {level + 1} \intersect Levels}
    BY <1>2, <1>4 DEF Answer
  <2>2. Answer(o, n) \subseteq Placement
    BY <2>1 DEF Placement, Sides
  <2>3. CASE level + 1 \in Levels
    <3>1. Answer(o, n) = {[level |-> level + 1, side |-> "sell"]}
      BY <2>1, <2>3
    <3>2. PairOf([level |-> level + 1, side |-> "sell"]) = PairOf(o)
      BY <1>2, <1>4 DEF PairOf
    <3>3. QED
      BY <2>2, <3>1, <3>2, FS_Singleton
  <2>4. CASE level + 1 \notin Levels
    <3>1. Answer(o, n) = {}
      BY <2>1, <2>4
    <3>2. PairOf(o) = LevelCount
      BY <1>1, <1>2, <1>4, <2>4 DEF PairOf, Levels
    <3>3. QED
      BY <3>1, <3>2, FS_EmptySet
  <2>5. QED
    BY <2>3, <2>4
<1>5. CASE n > 0 /\ o.side = "sell"
  <2>1. Answer(o, n) = {[level |-> m, side |-> "buy"] : m \in {level - 1} \intersect Levels}
    BY <1>2, <1>5 DEF Answer
  <2>2. Answer(o, n) \subseteq Placement
    BY <2>1 DEF Placement, Sides
  <2>3. CASE level - 1 \in Levels
    <3>1. Answer(o, n) = {[level |-> level - 1, side |-> "buy"]}
      BY <2>1, <2>3
    <3>2. PairOf([level |-> level - 1, side |-> "buy"]) = PairOf(o)
      BY <1>2, <1>5 DEF PairOf
    <3>3. QED
      BY <2>2, <3>1, <3>2, FS_Singleton
  <2>4. CASE level - 1 \notin Levels
    <3>1. Answer(o, n) = {}
      BY <2>1, <2>4
    <3>2. PairOf(o) \notin Levels
      BY <1>2, <1>5, <2>4 DEF PairOf
    <3>3. QED
      BY <3>1, <3>2, FS_EmptySet
  <2>5. QED
    BY <2>3, <2>4
<1>6. QED
  BY <1>1, <1>3, <1>4, <1>5

\* What is carried from one review to the next.
Books == [working : Seq(GridOrder), queue : Queues, inventory : Nat, cyclesDone : Nat]

\* An order that left the book is answered, and what it traded is booked.
LEMMA SettleAnswers ==
  ASSUME NEW book \in Books, NEW o \in GridOrder, NEW n \in Nat
  PROVE  /\ Settle(book, o, n) \in Books
         /\ Settle(book, o, n).working = book.working
         /\ Settle(book, o, n).inventory = NewInventory(book.inventory, o, n)
         /\ ToSet(Settle(book, o, n).queue) = ToSet(book.queue) \union Answer(o, n)
<1>1. PICK items : items = SetToSeq(Answer(o, n))
  OBVIOUS
<1>2. /\ Answer(o, n) \subseteq Placement /\ items \in Seq(Answer(o, n))
      /\ ToSet(items) = Answer(o, n)
  BY <1>1, AnswerIsPlaced, SetToSeqCounts
<1>3. items \in Seq(Placement)
  BY <1>2, SeqMonotonic
<1>4. PICK w \in Seq(GridOrder), q \in Queues, inventory \in Nat, cycles \in Nat :
        book = [working |-> w, queue |-> q, inventory |-> inventory, cyclesDone |-> cycles]
  BY DEF Books
<1>5. EnqueueAll(q, items) \in Queues /\ ToSet(EnqueueAll(q, items)) = ToSet(q) \union Answer(o, n)
  BY <1>2, <1>3, EnqueueAllAdds
<1>6. PICK more \in Nat : more = cycles + (IF o.side = "sell" /\ n > 0 THEN 1 ELSE 0)
  OBVIOUS
<1>7. PICK left \in Nat : left = NewInventory(inventory, o, n)
  <2>1. inventory + n \in Nat /\ (inventory > n => inventory - n \in Nat) /\ 0 \in Nat
    OBVIOUS
  <2>2. QED
    BY <2>1 DEF NewInventory
<1>8. PICK queue \in Queues : queue = EnqueueAll(q, items)
  BY <1>5
<1>9. Settle(book, o, n)
        = [working |-> w, queue |-> queue, inventory |-> left, cyclesDone |-> more]
  <2>1. Settle(book, o, n) = [book EXCEPT !.inventory = left, !.cyclesDone = more, !.queue = queue]
    BY <1>1, <1>4, <1>6, <1>7, <1>8 DEF Settle
  <2>2. QED
    BY <1>4, <2>1
<1>10. QED
  BY <1>4, <1>5, <1>7, <1>8, <1>9 DEF Books

\* What the review of an order does, when it is taken for closed and when it is not.
Answers(book, seen, n, next) ==
  /\ next.working = book.working
  /\ next.inventory = NewInventory(book.inventory, seen, n)
  /\ ToSet(next.queue) = ToSet(book.queue) \union Answer(seen, n)

Keeps(book, seen, next) ==
  /\ next.working = Append(book.working, seen)
  /\ next.inventory = book.inventory /\ next.queue = book.queue

\* An order is settled, or it stays as it was seen.
LEMMA ReviewIs ==
  ASSUME NEW book \in Books, NEW o \in GridOrder, NEW listing, NEW n \in Nat,
         NEW seen, seen = Observe(o, o.id \in listing),
         NEW next, next = Review(book, o, o.id \in listing, n)
  PROVE  /\ next \in Books
         /\ IF IsResolved(seen, ABSENCE_GRACE_CHECKS) THEN Answers(book, seen, n, next)
                                                      ELSE Keeps(book, seen, next)
<1>1. seen \in GridOrder
  BY GridLearns
<1>2. CASE IsResolved(seen, ABSENCE_GRACE_CHECKS)
  <2>1. next = Settle(book, seen, n)
    BY <1>2 DEF Review
  <2>2. PICK settled : settled = Settle(book, seen, n)
    OBVIOUS
  <2>3. /\ settled \in Books /\ settled.working = book.working
        /\ settled.inventory = NewInventory(book.inventory, seen, n)
        /\ ToSet(settled.queue) = ToSet(book.queue) \union Answer(seen, n)
    BY <1>1, <2>2, SettleAnswers
  <2>4. next \in Books /\ Answers(book, seen, n, next)
    BY <2>1, <2>2, <2>3 DEF Answers
  <2>5. QED
    BY <1>2, <2>4
<1>3. CASE ~IsResolved(seen, ABSENCE_GRACE_CHECKS)
  <2>1. PICK w \in Seq(GridOrder), q \in Queues, inventory \in Nat, cycles \in Nat :
          book = [working |-> w, queue |-> q, inventory |-> inventory, cyclesDone |-> cycles]
    BY DEF Books
  <2>2. PICK kept \in Seq(GridOrder) : kept = Append(w, seen)
    BY <1>1, AppendProperties
  <2>3. next = [working |-> kept, queue |-> q, inventory |-> inventory, cyclesDone |-> cycles]
    BY <1>3, <2>1, <2>2 DEF Review
  <2>4. next \in Books
    BY <2>3 DEF Books
  <2>5. Keeps(book, seen, next)
    BY <2>1, <2>2, <2>3 DEF Keeps
  <2>6. QED
    BY <1>3, <2>4, <2>5
<1>4. QED
  BY <1>2, <1>3

\* The review goes through the orders one by one.
LEMMA ReviewAllRuns ==
  ASSUME NEW w \in Seq(GridOrder), w = state.working, NEW start \in Books,
         start = [working |-> <<>>, queue |-> state.queue, inventory |-> state.inventory,
                  cyclesDone |-> state.cyclesDone],
         NEW listing, NEW credit, \A j \in DOMAIN w : credit[w[j].id] \in Nat
  PROVE  \E f \in [0 .. Len(w) -> Books] :
           /\ f[0] = start /\ ReviewAll(listing, credit) = f[Len(w)]
           /\ \A n \in 1 .. Len(w) :
                f[n] = Review(f[n - 1], w[n], w[n].id \in listing, credit[w[n].id])
<1> DEFINE Op(book, o) == Review(book, o, o.id \in listing, credit[o.id])
<1>1. PICK N \in Nat : N = Len(w) /\ DOMAIN w = 1 .. N
  OBVIOUS
<1>2. ASSUME NEW n \in 1 .. N, NEW book \in Books PROVE Op(book, w[n]) \in Books
  <2>1. PICK o \in GridOrder, k \in Nat : o = w[n] /\ k = credit[o.id]
    BY <1>1
  <2>2. Review(book, o, o.id \in listing, k) \in Books
    BY ReviewIs
  <2>3. QED
    BY <2>1, <2>2
<1> DEFINE step == [p \in Books \X (1 .. N) |-> Op(p[1], w[p[2]])]
<1>3. step \in [Books \X (1 .. N) -> Books]
  BY <1>2
<1>4. \A book \in Books, n \in 1 .. N : step[<<book, n>>] = Op(book, w[n])
  OBVIOUS
<1> HIDE DEF step
<1>5. PICK g \in [SUBSET (1 .. N) -> Books] : FoldsBy(start, step, N, g)
  BY <1>3, FoldExists
<1>6. IsFold(Op, start, w, g)
  <2>1. ASSUME NEW s \in SUBSET (1 .. N) PROVE g[s] = FoldStep(Op, start, w, g, s)
    <3>1. CASE s = {}
      BY <1>5, <3>1 DEF FoldsBy, FoldStep
    <3>2. CASE s # {}
      <4>1. Max(s) \in 1 .. N /\ g[s \ {Max(s)}] \in Books
        BY <3>2, MaxIsIn
      <4>2. g[s] = step[<<g[s \ {Max(s)}], Max(s)>>]
        BY <1>5, <3>2 DEF FoldsBy
      <4>3. QED
        BY <1>4, <3>2, <4>1, <4>2 DEF FoldStep
    <3>3. QED
      BY <3>1, <3>2
  <2>2. QED
    BY <1>1, <2>1 DEF IsFold
<1>7. PICK h : h = CHOOSE x : IsFold(Op, start, w, x)
  OBVIOUS
<1>8. IsFold(Op, start, w, h)
  BY <1>6, <1>7
<1>9. ReviewAll(listing, credit) = h[1 .. N]
  BY <1>1, <1>7 DEF ReviewAll, FoldLeft, MapThenFoldSet, IsFold, FoldStep
<1>10. h[{}] = start
  BY <1>1, <1>8 DEF IsFold, FoldStep
<1>11. ASSUME NEW n \in 1 .. N, h[1 .. (n - 1)] \in Books
       PROVE  h[1 .. n] = step[<<h[1 .. (n - 1)], n>>]
  <2>1. /\ 1 .. n \in SUBSET (1 .. N) /\ 1 .. n # {} /\ Max(1 .. n) = n
        /\ (1 .. n) \ {n} = 1 .. (n - 1)
    BY FirstNumbers
  <2>2. h[1 .. n] = FoldStep(Op, start, w, h, 1 .. n)
    BY <1>1, <1>8, <2>1 DEF IsFold
  <2>3. h[1 .. n] = Op(h[1 .. (n - 1)], w[n])
    BY <2>1, <2>2 DEF FoldStep
  <2>4. QED
    BY <1>4, <1>11, <2>3
<1>12. RunsTo(Books, start, step, N, h[1 .. N])
  <2>1. StepsUp(Books, step, N, h)
    BY <1>11 DEF StepsUp
  <2>2. QED
    BY <1>3, <1>10, <2>1, FoldRuns
<1>13. PICK f \in [0 .. N -> Books] :
         /\ f[0] = start /\ h[1 .. N] = f[N]
         /\ \A n \in 1 .. N : f[n] = step[<<f[n - 1], n>>]
  BY <1>12 DEF RunsTo
<1>14. ASSUME NEW n \in 1 .. N PROVE f[n] = Op(f[n - 1], w[n])
  <2>1. f[n - 1] \in Books
    BY <1>13
  <2>2. QED
    BY <1>4, <1>13, <2>1
<1>15. QED
  BY <1>1, <1>9, <1>13, <1>14

-----------------------------------------------------------------------------
(***************************************************************************)
(* The placing of the queue.                                               *)
(***************************************************************************)

\* What is carried from one placement to the next.
Placings ==
  [working : Seq(GridOrder), pending : Seq(Placement), placed : Nat, ids : Seq(Legs), free : Int]

\* A placement finds its order resting, has to wait, or becomes an order with the next id.
Drops(p, item, next) ==
  /\ next = p
  /\ \E i \in DOMAIN p.working : p.working[i].level = item.level /\ p.working[i].side = item.side

Waits(p, item, next) ==
  /\ next.pending = Append(p.pending, item)
  /\ next.working = p.working /\ next.placed = p.placed
  /\ next.ids = p.ids /\ next.free = p.free

Rests(p, item, next) ==
  /\ next.working = Append(p.working, NewGridOrder(item, p.ids[p.placed + 1]))
  /\ p.placed < Len(p.ids)
  /\ \A i \in DOMAIN p.working : p.working[i].level # item.level
  /\ next.placed = p.placed + 1 /\ next.pending = p.pending /\ next.ids = p.ids
  /\ item.side = "sell" => p.free >= QuantityPerGrid
  /\ next.free = IF item.side = "sell" THEN p.free - QuantityPerGrid ELSE p.free

\* A placement is dropped, kept waiting, or becomes an order at a level that has none.
LEMMA PlaceIs ==
  ASSUME NEW p \in Placings, NEW item \in Placement
  PROVE  /\ Place(p, item) \in Placings
         /\ \/ Drops(p, item, Place(p, item))
            \/ Waits(p, item, Place(p, item))
            \/ Rests(p, item, Place(p, item))
<1>1. PICK w \in Seq(GridOrder), pending \in Seq(Placement), placed \in Nat, ids \in Seq(Legs),
           free \in Int :
        p = [working |-> w, pending |-> pending, placed |-> placed, ids |-> ids, free |-> free]
  BY DEF Placings
<1>2. \A o : o \in RestingAt(item.level, w) <=> \E i \in DOMAIN w : w[i] = o /\ o.level = item.level
  BY DEF RestingAt, ToSet
<1>3. PICK new : new = NewGridOrder(item, ids[placed + 1])
  OBVIOUS
<1>4. QuantityPerGrid \in Nat /\ free - QuantityPerGrid \in Int
  BY GridAssumption DEF GridAssumption
<1> DEFINE waits == \/ RestingAt(item.level, w) # {}
                    \/ placed >= MaxPlacements
                    \/ placed >= Len(ids)
                    \/ item.side = "sell" /\ free < QuantityPerGrid
<1>5. CASE \E o \in RestingAt(item.level, w) : o.side = item.side
  <2>1. Place(p, item) = p
    BY <1>1, <1>5 DEF Place
  <2>2. QED
    BY <1>1, <1>2, <1>5, <2>1 DEF Drops
<1>6. CASE ~(\E o \in RestingAt(item.level, w) : o.side = item.side) /\ waits
  <2>1. PICK more \in Seq(Placement) : more = Append(pending, item)
    BY AppendProperties
  <2>2. Place(p, item) = [p EXCEPT !.pending = more]
    BY <1>1, <1>6, <2>1 DEF Place
  <2>3. Place(p, item)
          = [working |-> w, pending |-> more, placed |-> placed, ids |-> ids, free |-> free]
    BY <1>1, <2>2
  <2>4. Place(p, item) \in Placings
    BY <2>3 DEF Placings
  <2>5. Waits(p, item, Place(p, item))
    BY <1>1, <2>1, <2>3 DEF Waits
  <2>6. QED
    BY <2>4, <2>5
<1>7. CASE ~(\E o \in RestingAt(item.level, w) : o.side = item.side) /\ ~waits
  <2>1. placed < Len(ids) /\ placed + 1 \in DOMAIN ids /\ ids[placed + 1] \in Legs
    BY <1>7
  <2>2. new \in GridOrder
    BY <1>3, <2>1 DEF NewGridOrder, GridOrder, Placement, ABSENCE_GRACE_CHECKS
  <2>3. PICK more \in Seq(GridOrder) : more = Append(w, new)
    BY <2>2, AppendProperties
  <2>4. PICK rest \in Int : rest = IF item.side = "sell" THEN free - QuantityPerGrid ELSE free
    BY <1>4
  <2>5. Place(p, item) = [p EXCEPT !.working = more, !.placed = placed + 1, !.free = rest]
    BY <1>1, <1>3, <1>7, <2>3, <2>4 DEF Place
  <2>6. Place(p, item)
          = [working |-> more, pending |-> pending, placed |-> placed + 1, ids |-> ids,
             free |-> rest]
    BY <1>1, <2>5
  <2>7. \A i \in DOMAIN w : w[i].level # item.level
    BY <1>2, <1>7
  <2>8. item.side = "sell" => free >= QuantityPerGrid
    BY <1>4, <1>7
  <2>9. Rests(p, item, Place(p, item))
    BY <1>1, <1>3, <2>1, <2>3, <2>4, <2>6, <2>7, <2>8 DEF Rests
  <2>10. QED
    BY <1>1, <2>6, <2>9 DEF Placings
<1>8. QED
  BY <1>5, <1>6, <1>7

\* Where the placing begins.
Unplaced(book, ids) ==
  [working |-> book.working, pending |-> <<>>, placed |-> 0, ids |-> ids,
   free |-> FreeInventory(book.inventory, book.working)]

\* From first the placing of a queue ends in last.
PlacingRuns(first, queue, last) ==
  \E f \in [0 .. Len(queue) -> Placings] :
    /\ f[0] = first /\ last = f[Len(queue)]
    /\ \A n \in 1 .. Len(queue) : f[n] = Place(f[n - 1], queue[n])

\* The placing goes through the queue one placement after the other.
LEMMA PlaceAllRuns ==
  ASSUME NEW book, NEW queue \in Seq(Placement), NEW ids, NEW start \in Placings,
         start = Unplaced(book, ids)
  PROVE  PlacingRuns(start, queue, PlaceAll(book, queue, ids))
<1>1. PICK N \in Nat : N = Len(queue) /\ DOMAIN queue = 1 .. N
  OBVIOUS
<1>2. ASSUME NEW n \in 1 .. N, NEW p \in Placings PROVE Place(p, queue[n]) \in Placings
  <2>1. PICK item \in Placement : item = queue[n]
    BY <1>1
  <2>2. Place(p, item) \in Placings
    BY PlaceIs
  <2>3. QED
    BY <2>1, <2>2
<1> DEFINE step == [p \in Placings \X (1 .. N) |-> Place(p[1], queue[p[2]])]
<1>3. step \in [Placings \X (1 .. N) -> Placings]
  BY <1>2
<1>4. \A p \in Placings, n \in 1 .. N : step[<<p, n>>] = Place(p, queue[n])
  OBVIOUS
<1> HIDE DEF step
<1>5. PICK g \in [SUBSET (1 .. N) -> Placings] : FoldsBy(start, step, N, g)
  BY <1>3, FoldExists
<1>6. IsFold(Place, start, queue, g)
  <2>1. ASSUME NEW s \in SUBSET (1 .. N) PROVE g[s] = FoldStep(Place, start, queue, g, s)
    <3>1. CASE s = {}
      BY <1>5, <3>1 DEF FoldsBy, FoldStep
    <3>2. CASE s # {}
      <4>1. Max(s) \in 1 .. N /\ g[s \ {Max(s)}] \in Placings
        BY <3>2, MaxIsIn
      <4>2. g[s] = step[<<g[s \ {Max(s)}], Max(s)>>]
        BY <1>5, <3>2 DEF FoldsBy
      <4>3. QED
        BY <1>4, <3>2, <4>1, <4>2 DEF FoldStep
    <3>3. QED
      BY <3>1, <3>2
  <2>2. QED
    BY <1>1, <2>1 DEF IsFold
<1>7. PICK h : h = CHOOSE x : IsFold(Place, start, queue, x)
  OBVIOUS
<1>8. IsFold(Place, start, queue, h)
  BY <1>6, <1>7
<1>9. PlaceAll(book, queue, ids) = h[1 .. N]
  BY <1>1, <1>7 DEF Unplaced, PlaceAll, FoldLeft, MapThenFoldSet, IsFold, FoldStep
<1>10. h[{}] = start
  BY <1>1, <1>8 DEF IsFold, FoldStep
<1>11. ASSUME NEW n \in 1 .. N, h[1 .. (n - 1)] \in Placings
       PROVE  h[1 .. n] = step[<<h[1 .. (n - 1)], n>>]
  <2>1. /\ 1 .. n \in SUBSET (1 .. N) /\ 1 .. n # {} /\ Max(1 .. n) = n
        /\ (1 .. n) \ {n} = 1 .. (n - 1)
    BY FirstNumbers
  <2>2. h[1 .. n] = FoldStep(Place, start, queue, h, 1 .. n)
    BY <1>1, <1>8, <2>1 DEF IsFold
  <2>3. h[1 .. n] = Place(h[1 .. (n - 1)], queue[n])
    BY <2>1, <2>2 DEF FoldStep
  <2>4. QED
    BY <1>4, <1>11, <2>3
<1>12. RunsTo(Placings, start, step, N, h[1 .. N])
  <2>1. StepsUp(Placings, step, N, h)
    BY <1>11 DEF StepsUp
  <2>2. QED
    BY <1>3, <1>10, <2>1, FoldRuns
<1>13. PICK f \in [0 .. N -> Placings] :
         /\ f[0] = start /\ h[1 .. N] = f[N]
         /\ \A n \in 1 .. N : f[n] = step[<<f[n - 1], n>>]
  BY <1>12 DEF RunsTo
<1>14. ASSUME NEW n \in 1 .. N PROVE f[n] = Place(f[n - 1], queue[n])
  <2>1. f[n - 1] \in Placings
    BY <1>13
  <2>2. QED
    BY <1>4, <1>13, <2>1
<1>15. QED
  BY <1>1, <1>9, <1>13, <1>14 DEF PlacingRuns

-----------------------------------------------------------------------------
(***************************************************************************)
(* The cancels of a stop.                                                  *)
(***************************************************************************)

\* The cancels of some orders of the grid.
CancelLists ==
  {c \in Seq(Sendable) :
     \A i \in DOMAIN c : \E j \in DOMAIN state.working : c[i] = Cancel(state.working[j].id)}

\* A stop of a grid cancels orders of the grid, and sends nothing.
LEMMA CancelsAreTyped ==
  ASSUME state.working \in Seq(GridOrder)
  PROVE  Cancels \in CancelLists
<1>0. PICK w \in Seq(GridOrder) : w = state.working
  OBVIOUS
<1>1. PICK N \in Nat : N = Len(w) /\ DOMAIN w = 1 .. N
  OBVIOUS
<1>2. ASSUME NEW n \in 1 .. N, NEW c \in CancelLists PROVE AddCancel(c, w[n]) \in CancelLists
  <2>1. PICK o \in GridOrder : o = w[n]
    BY <1>1
  <2>2. PICK a : a = Cancel(o.id)
    OBVIOUS
  <2>3. a \in Sendable
    BY <2>2 DEF GridOrder, Sendable, Action, Cancel, NoRequest, Limit, Request, Sides
  <2>4. Append(c, a) \in Seq(Sendable) /\ DOMAIN Append(c, a) = 1 .. (Len(c) + 1)
        /\ Append(c, a)[Len(c) + 1] = a /\ DOMAIN c = 1 .. Len(c) /\ Len(c) \in Nat
        /\ \A i \in 1 .. Len(c) : Append(c, a)[i] = c[i]
    BY <2>3, AppendProperties DEF CancelLists
  <2>5. ASSUME NEW i \in DOMAIN Append(c, a)
        PROVE  \E j \in DOMAIN w : Append(c, a)[i] = Cancel(w[j].id)
    <3>1. CASE i = Len(c) + 1
      BY <1>1, <2>1, <2>2, <2>4, <3>1
    <3>2. CASE i \in 1 .. Len(c)
      BY <1>0, <2>4, <3>2 DEF CancelLists
    <3>3. QED
      BY <2>4, <2>5, <3>1, <3>2
  <2>6. Append(c, a) \in CancelLists
    BY <1>0, <2>4, <2>5 DEF CancelLists
  <2>7. QED
    BY <2>1, <2>2, <2>6 DEF AddCancel
<1> DEFINE step == [p \in CancelLists \X (1 .. N) |-> AddCancel(p[1], w[p[2]])]
<1>3. step \in [CancelLists \X (1 .. N) -> CancelLists]
  BY <1>2
<1>4. \A c \in CancelLists, n \in 1 .. N : step[<<c, n>>] = AddCancel(c, w[n])
  OBVIOUS
<1> HIDE DEF step
<1>5. PICK start \in CancelLists : start = <<>>
  <2>1. <<>> \in Seq(Sendable) /\ DOMAIN <<>> = {}
    OBVIOUS
  <2>2. PICK e : e = <<>>
    OBVIOUS
  <2>3. e \in CancelLists
    BY <2>1, <2>2 DEF CancelLists
  <2>4. QED
    BY <2>2, <2>3
<1>6. PICK g \in [SUBSET (1 .. N) -> CancelLists] : FoldsBy(start, step, N, g)
  BY <1>3, FoldExists
<1>7. IsFold(AddCancel, start, w, g)
  <2>1. ASSUME NEW s \in SUBSET (1 .. N) PROVE g[s] = FoldStep(AddCancel, start, w, g, s)
    <3>1. CASE s = {}
      BY <1>6, <3>1 DEF FoldsBy, FoldStep
    <3>2. CASE s # {}
      <4>1. Max(s) \in 1 .. N /\ g[s \ {Max(s)}] \in CancelLists
        BY <3>2, MaxIsIn
      <4>2. g[s] = step[<<g[s \ {Max(s)}], Max(s)>>]
        BY <1>6, <3>2 DEF FoldsBy
      <4>3. QED
        BY <1>4, <3>2, <4>1, <4>2 DEF FoldStep
    <3>3. QED
      BY <3>1, <3>2
  <2>2. QED
    BY <1>1, <2>1 DEF IsFold
<1>8. PICK h : h = CHOOSE x : IsFold(AddCancel, start, w, x)
  OBVIOUS
<1>9. IsFold(AddCancel, start, w, h)
  BY <1>7, <1>8
<1>10. Cancels = h[1 .. N]
  BY <1>0, <1>1, <1>5, <1>8 DEF Cancels, FoldLeft, MapThenFoldSet, IsFold, FoldStep
<1>11. h[{}] = start
  BY <1>1, <1>9 DEF IsFold, FoldStep
<1>12. ASSUME NEW n \in 1 .. N, h[1 .. (n - 1)] \in CancelLists
       PROVE  h[1 .. n] = step[<<h[1 .. (n - 1)], n>>]
  <2>1. /\ 1 .. n \in SUBSET (1 .. N) /\ 1 .. n # {} /\ Max(1 .. n) = n
        /\ (1 .. n) \ {n} = 1 .. (n - 1)
    BY FirstNumbers
  <2>2. h[1 .. n] = FoldStep(AddCancel, start, w, h, 1 .. n)
    BY <1>1, <1>9, <2>1 DEF IsFold
  <2>3. h[1 .. n] = AddCancel(h[1 .. (n - 1)], w[n])
    BY <2>1, <2>2 DEF FoldStep
  <2>4. QED
    BY <1>4, <1>12, <2>3
<1>13. RunsTo(CancelLists, start, step, N, h[1 .. N])
  <2>1. StepsUp(CancelLists, step, N, h)
    BY <1>12 DEF StepsUp
  <2>2. QED
    BY <1>3, <1>11, <2>1, FoldRuns
<1>14. h[1 .. N] \in CancelLists
  <2>1. N \in 0 .. N
    OBVIOUS
  <2>2. QED
    BY <1>13, <2>1 DEF RunsTo
<1>15. QED
  BY <1>10, <1>14

-----------------------------------------------------------------------------
(***************************************************************************)
(* What has become of the orders once they are reviewed.                   *)
(***************************************************************************)

\* How an order is seen in a reading, and whether it is taken for closed.
SeenAt(w, listing, j) == Observe(w[j], w[j].id \in listing)
Closes(w, listing, j) == IsResolved(SeenAt(w, listing, j), ABSENCE_GRACE_CHECKS)

\* There is one order at a level, and one with an id.
OneEach(w) ==
  \A i, j \in DOMAIN w : w[i].level = w[j].level \/ w[i].id = w[j].id => i = j

\* The first n orders are reviewed: each is kept as it was seen, or answered.
Reviewed(w, listing, credit, old, book, n) ==
  /\ ToSet(old) \subseteq ToSet(book.queue)
  /\ \A i \in DOMAIN book.working :
       \E j \in 1 .. n : ~Closes(w, listing, j) /\ book.working[i] = SeenAt(w, listing, j)
  /\ \A j \in 1 .. n :
       IF Closes(w, listing, j)
       THEN Answer(SeenAt(w, listing, j), credit[w[j].id]) \subseteq ToSet(book.queue)
       ELSE \E i \in DOMAIN book.working : book.working[i] = SeenAt(w, listing, j)
  /\ OneEach(book.working)

\* The review of one more order.
LEMMA OneMoreIsReviewed ==
  ASSUME NEW w \in Seq(GridOrder), OneEach(w), NEW n \in 1 .. Len(w), NEW listing, NEW credit,
         credit[w[n].id] \in Nat, NEW old, NEW book \in Books,
         Reviewed(w, listing, credit, old, book, n - 1),
         NEW next, next = Review(book, w[n], w[n].id \in listing, credit[w[n].id])
  PROVE  Reviewed(w, listing, credit, old, next, n)
<1>1. PICK N \in Nat : N = Len(w) /\ DOMAIN w = 1 .. N /\ n \in 1 .. N
  OBVIOUS
<1>2. PICK o \in GridOrder, k \in Nat : o = w[n] /\ k = credit[o.id]
  BY <1>1
<1>3. PICK seen : seen = Observe(o, o.id \in listing)
  OBVIOUS
<1>4. /\ seen = SeenAt(w, listing, n)
      /\ IF IsResolved(seen, ABSENCE_GRACE_CHECKS) THEN Answers(book, seen, k, next)
                                                   ELSE Keeps(book, seen, next)
  <2>1. next = Review(book, o, o.id \in listing, k)
    BY <1>2
  <2>2. QED
    BY <1>2, <1>3, <2>1, ReviewIs DEF SeenAt
<1>5. seen \in GridOrder /\ seen.level = o.level /\ seen.id = o.id
  BY <1>3, GridLearns
<1>6. \A j \in 1 .. n : j = n \/ j \in 1 .. (n - 1)
  BY <1>1
<1>7. \A j \in 1 .. (n - 1) : j \in 1 .. n /\ j \in 1 .. N /\ j # n
  BY <1>1, SMTT(30)
<1>8. CASE Closes(w, listing, n)
  <2>1. IsResolved(seen, ABSENCE_GRACE_CHECKS)
    BY <1>4, <1>8 DEF Closes
  <2>2. next.working = book.working
    BY <1>4, <2>1 DEF Answers
  <2>3. ToSet(next.queue) = ToSet(book.queue) \union Answer(seen, k)
    BY <1>4, <2>1 DEF Answers
  <2>5. ToSet(old) \subseteq ToSet(next.queue)
    BY <2>3 DEF Reviewed
  <2>6. \A i \in DOMAIN next.working :
          \E j \in 1 .. n : ~Closes(w, listing, j) /\ next.working[i] = SeenAt(w, listing, j)
    BY <1>7, <2>2 DEF Reviewed
  <2>7. ASSUME NEW j \in 1 .. n
        PROVE  IF Closes(w, listing, j)
               THEN Answer(SeenAt(w, listing, j), credit[w[j].id]) \subseteq ToSet(next.queue)
               ELSE \E i \in DOMAIN next.working : next.working[i] = SeenAt(w, listing, j)
    <3>1. CASE j = n
      BY <1>2, <1>4, <1>8, <2>3, <3>1
    <3>2. CASE j \in 1 .. (n - 1)
      BY <2>2, <2>3, <3>2, SMTT(30) DEF Reviewed
    <3>3. QED
      BY <1>6, <3>1, <3>2
  <2>8. OneEach(next.working)
    BY <2>2 DEF Reviewed
  <2>9. QED
    BY <2>5, <2>6, <2>7, <2>8 DEF Reviewed
<1>9. CASE ~Closes(w, listing, n)
  <2>1. ~IsResolved(seen, ABSENCE_GRACE_CHECKS)
    BY <1>4, <1>9 DEF Closes
  <2>2. next.working = Append(book.working, seen) /\ next.queue = book.queue
    BY <1>4, <2>1 DEF Keeps
  <2>3. PICK m \in Nat : m = Len(book.working) /\ DOMAIN book.working = 1 .. m
    BY DEF Books
  <2>4. PICK v \in Seq(GridOrder) : v = book.working
    BY DEF Books
  <2>5. /\ DOMAIN next.working = 1 .. (m + 1) /\ next.working[m + 1] = seen
        /\ \A i \in 1 .. m : next.working[i] = v[i]
    BY <1>5, <2>2, <2>3, <2>4, AppendProperties, SMTT(30)
  <2>6. \A i \in 1 .. (m + 1) : i = m + 1 \/ i \in 1 .. m
    OBVIOUS
  <2>7. ToSet(old) \subseteq ToSet(next.queue)
    BY <2>2 DEF Reviewed
  <2>8. ASSUME NEW i \in 1 .. m
        PROVE  \E j \in 1 .. (n - 1) : ~Closes(w, listing, j) /\ v[i] = SeenAt(w, listing, j)
    BY <2>3, <2>4 DEF Reviewed
  <2>9. \A i \in DOMAIN next.working :
          \E j \in 1 .. n : ~Closes(w, listing, j) /\ next.working[i] = SeenAt(w, listing, j)
    <3>1. n \in 1 .. n
      OBVIOUS
    <3>2. QED
      BY <1>4, <1>7, <1>9, <2>5, <2>6, <2>8, <3>1
  <2>10. ASSUME NEW j \in 1 .. n
         PROVE  IF Closes(w, listing, j)
                THEN Answer(SeenAt(w, listing, j), credit[w[j].id]) \subseteq ToSet(next.queue)
                ELSE \E i \in DOMAIN next.working : next.working[i] = SeenAt(w, listing, j)
    <3>1. CASE j = n
      <4>1. m + 1 \in DOMAIN next.working
        BY <2>5
      <4>2. QED
        BY <1>4, <1>9, <2>5, <3>1, <4>1
    <3>2. CASE j \in 1 .. (n - 1)
      <4>1. CASE Closes(w, listing, j)
        BY <2>2, <3>2, <4>1 DEF Reviewed
      <4>2. CASE ~Closes(w, listing, j)
        <5>1. PICK i \in 1 .. m : v[i] = SeenAt(w, listing, j)
          BY <2>3, <2>4, <3>2, <4>2 DEF Reviewed
        <5>2. i \in DOMAIN next.working /\ next.working[i] = SeenAt(w, listing, j)
          BY <2>5, <5>1
        <5>3. QED
          BY <4>2, <5>2
      <4>3. QED
        BY <4>1, <4>2
    <3>3. QED
      BY <1>6, <3>1, <3>2
  <2>11. ASSUME NEW i \in 1 .. m
         PROVE  v[i].level # seen.level /\ v[i].id # seen.id
    <3>1. PICK j \in 1 .. (n - 1) : v[i] = SeenAt(w, listing, j)
      BY <2>8
    <3>2. w[j] \in GridOrder
      BY <1>1, <1>7
    <3>3. v[i].level = w[j].level /\ v[i].id = w[j].id
      <4>1. PICK x, y : x \in GridOrder /\ x = w[j] /\ y = Observe(x, x.id \in listing)
        BY <3>2
      <4>2. y.level = x.level /\ y.id = x.id
        BY <4>1, GridLearns
      <4>3. v[i] = y
        BY <3>1, <4>1 DEF SeenAt
      <4>4. QED
        BY <4>1, <4>2, <4>3
    <3>4. QED
      BY <1>1, <1>2, <1>5, <1>7, <3>3 DEF OneEach
  <2>12. OneEach(v)
    BY <2>4 DEF Reviewed
  <2>13. OneEach(next.working)
    <3>1. SUFFICES ASSUME NEW i \in 1 .. (m + 1), NEW j \in 1 .. (m + 1),
                          \/ next.working[i].level = next.working[j].level
                          \/ next.working[i].id = next.working[j].id
                   PROVE  i = j
      BY <2>5, ZenonT(40) DEF OneEach
    <3>2. CASE i \in 1 .. m /\ j \in 1 .. m
      BY <2>3, <2>4, <2>5, <2>12, <3>1, <3>2, ZenonT(40) DEF OneEach
    <3>3. CASE i = m + 1 /\ j \in 1 .. m
      BY <2>5, <2>11, <3>1, <3>3
    <3>4. CASE i \in 1 .. m /\ j = m + 1
      BY <2>5, <2>11, <3>1, <3>4
    <3>5. QED
      BY <2>6, <3>2, <3>3, <3>4, SMTT(30)
  <2>14. QED
    BY <2>7, <2>9, <2>10, <2>13 DEF Reviewed
<1>10. QED
  BY <1>8, <1>9

\* All orders are reviewed.
LEMMA AllAreReviewed ==
  ASSUME state \in GridState, Distinct(state.queue), NEW w \in Seq(GridOrder),
         w = state.working, OneEach(w), NEW listing, NEW credit,
         \A j \in DOMAIN w : credit[w[j].id] \in Nat
  PROVE  /\ ReviewAll(listing, credit) \in Books
         /\ Reviewed(w, listing, credit, state.queue, ReviewAll(listing, credit), Len(w))
<1>1. PICK N \in Nat : N = Len(w) /\ DOMAIN w = 1 .. N
  OBVIOUS
<1>2. PICK start : start = [working |-> <<>>, queue |-> state.queue,
                            inventory |-> state.inventory, cyclesDone |-> state.cyclesDone]
  OBVIOUS
<1>3. start \in Books
  BY <1>2 DEF Books, Queues, GridState
<1>4. PICK f \in [0 .. N -> Books] :
        /\ f[0] = start /\ ReviewAll(listing, credit) = f[N]
        /\ \A n \in 1 .. N :
             f[n] = Review(f[n - 1], w[n], w[n].id \in listing, credit[w[n].id])
  BY <1>1, <1>2, <1>3, ReviewAllRuns, SMTT(30)
<1> DEFINE T == {n \in 0 .. N : Reviewed(w, listing, credit, state.queue, f[n], n)}
<1>5. 0 \in T
  <2>1. f[0].queue = state.queue /\ f[0].working = <<>> /\ 1 .. 0 = {}
    BY <1>2, <1>4
  <2>2. DOMAIN <<>> = {}
    OBVIOUS
  <2>3. Reviewed(w, listing, credit, state.queue, f[0], 0)
    BY <2>1, <2>2 DEF Reviewed, OneEach
  <2>4. QED
    BY <2>3
<1>6. ASSUME NEW n \in 1 .. N, n - 1 \in T PROVE n \in T
  <2>1. f[n - 1] \in Books /\ n \in 1 .. Len(w) /\ credit[w[n].id] \in Nat
    BY <1>1, <1>4
  <2>2. Reviewed(w, listing, credit, state.queue, f[n - 1], n - 1)
    BY <1>6
  <2>3. f[n] = Review(f[n - 1], w[n], w[n].id \in listing, credit[w[n].id])
    BY <1>4
  <2>4. PICK book \in Books : book = f[n - 1]
    BY <2>1
  <2>5. Reviewed(w, listing, credit, state.queue, f[n], n)
    BY <2>1, <2>2, <2>3, <2>4, OneMoreIsReviewed
  <2>6. QED
    BY <2>5
<1> HIDE DEF T
<1>7. N \in T
  <2>1. \A n \in 0 .. N : n \in T
    BY <1>5, <1>6, Induct
  <2>2. QED
    BY <2>1
<1>8. QED
  BY <1>1, <1>4, <1>7 DEF T

-----------------------------------------------------------------------------
(***************************************************************************)
(* What has become of the placements once the queue is gone through.       *)
(***************************************************************************)

\* There is one order at a level.
OneLevel(w) == \A i, j \in DOMAIN w : w[i].level = w[j].level => i = j

\* An order rests where a placement wants one.
RestsAt(w, item) ==
  \E i \in DOMAIN w : w[i].level = item.level /\ w[i].side = item.side

\* The first n placements are gone through: the new orders follow the old ones, and a
\* placement waits or rests.
Gone(old, ids, queue, p, n) ==
  /\ p.ids = ids /\ p.placed <= Len(ids) /\ Len(p.working) = Len(old) + p.placed
  /\ \A i \in DOMAIN old : p.working[i] = old[i]
  /\ \A k \in 1 .. p.placed :
       \E j \in 1 .. n : p.working[Len(old) + k] = NewGridOrder(queue[j], ids[k])
  /\ OneLevel(p.working)
  /\ \A i \in DOMAIN p.pending : \E k \in 1 .. n : p.pending[i] = queue[k]
  /\ Distinct(p.pending)
  /\ \A k \in 1 .. n : queue[k] \in ToSet(p.pending) \/ RestsAt(p.working, queue[k])

\* One more placement is gone through.
LEMMA OneMoreIsPlaced ==
  ASSUME NEW queue \in Queues, NEW n \in 1 .. Len(queue), NEW ids \in Seq(Legs),
         NEW old \in Seq(GridOrder), NEW p \in Placings, Gone(old, ids, queue, p, n - 1),
         NEW next, next = Place(p, queue[n])
  PROVE  Gone(old, ids, queue, next, n)
<1>1. PICK N \in Nat : N = Len(queue) /\ DOMAIN queue = 1 .. N /\ n \in 1 .. N
  BY DEF Queues
<1>2. PICK item \in Placement : item = queue[n]
  BY <1>1 DEF Queues
<1>3. next \in Placings /\ (Drops(p, item, next) \/ Waits(p, item, next) \/ Rests(p, item, next))
  BY <1>2, PlaceIs
<1>4. \A j \in 1 .. n : j = n \/ j \in 1 .. (n - 1)
  BY <1>1
<1>5. /\ \A j \in 1 .. (n - 1) : j \in 1 .. n /\ j \in 1 .. N /\ j # n
      /\ n \in 1 .. n
  BY <1>1
<1>6. PICK m \in Nat, k \in Nat, l \in Nat : m = Len(old) /\ k = p.placed /\ l = Len(p.pending)
  BY DEF Placings
<1>7. PICK w \in Seq(GridOrder), pending \in Seq(Placement) : w = p.working /\ pending = p.pending
  BY DEF Placings
<1>8. /\ Len(w) = m + k /\ DOMAIN w = 1 .. (m + k) /\ DOMAIN old = 1 .. m
      /\ DOMAIN pending = 1 .. l
  BY <1>6, <1>7 DEF Gone
<1>9. /\ p.ids = ids /\ k <= Len(ids)
      /\ \A i \in 1 .. m : w[i] = old[i]
      /\ OneLevel(w) /\ Distinct(pending)
  BY <1>6, <1>7, <1>8 DEF Gone
<1>10. \A i \in 1 .. k : \E j \in 1 .. (n - 1) : w[m + i] = NewGridOrder(queue[j], ids[i])
  BY <1>6, <1>7 DEF Gone
<1>11. \A i \in 1 .. l : \E j \in 1 .. (n - 1) : pending[i] = queue[j]
  BY <1>6, <1>7, <1>8 DEF Gone
<1>12. \A j \in 1 .. (n - 1) : queue[j] \in ToSet(pending) \/ RestsAt(w, queue[j])
  BY <1>7 DEF Gone
<1>13. CASE Drops(p, item, next)
  <2>1. next = p /\ RestsAt(w, item)
    BY <1>7, <1>13 DEF Drops, RestsAt
  <2>2. \A i \in 1 .. k : \E j \in 1 .. n : w[m + i] = NewGridOrder(queue[j], ids[i])
    BY <1>5, <1>10
  <2>3. \A i \in 1 .. l : \E j \in 1 .. n : pending[i] = queue[j]
    BY <1>5, <1>11
  <2>4. \A j \in 1 .. n : queue[j] \in ToSet(pending) \/ RestsAt(w, queue[j])
    BY <1>2, <1>4, <1>12, <2>1
  <2>5. /\ next.ids = ids /\ next.placed = k /\ next.working = w /\ next.pending = pending
    BY <1>6, <1>7, <1>9, <2>1
  <2>6. QED
    BY <1>6, <1>8, <1>9, <2>2, <2>3, <2>4, <2>5 DEF Gone
<1>14. CASE Waits(p, item, next)
  <2>1. PICK more \in Seq(Placement) : more = Append(pending, item)
    BY AppendProperties
  <2>2. /\ next.pending = more /\ next.working = w /\ next.placed = k /\ next.ids = ids
        /\ DOMAIN more = 1 .. (l + 1) /\ more[l + 1] = item
        /\ \A i \in 1 .. l : more[i] = pending[i]
    BY <1>6, <1>7, <1>8, <1>9, <1>14, <2>1, AppendProperties DEF Waits
  <2>3. \A i \in 1 .. k : \E j \in 1 .. n : w[m + i] = NewGridOrder(queue[j], ids[i])
    BY <1>5, <1>10
  <2>4. \A i \in 1 .. (l + 1) : i = l + 1 \/ i \in 1 .. l
    OBVIOUS
  <2>5. \A i \in 1 .. (l + 1) : \E j \in 1 .. n : more[i] = queue[j]
    BY <1>2, <1>5, <1>11, <2>2, <2>4, ZenonT(40)
  <2>6. \A i \in 1 .. l : pending[i] # item
    BY <1>1, <1>2, <1>5, <1>11 DEF Queues, Distinct
  <2>7. Distinct(more)
    <3>1. SUFFICES ASSUME NEW i \in 1 .. (l + 1), NEW j \in 1 .. (l + 1), more[i] = more[j]
                   PROVE  i = j
      BY <2>2 DEF Distinct
    <3>2. CASE i \in 1 .. l /\ j \in 1 .. l
      BY <1>8, <1>9, <2>2, <3>1, <3>2 DEF Distinct
    <3>3. QED
      BY <2>2, <2>4, <2>6, <3>1, <3>2
  <2>8. \A x : x \in ToSet(pending) \/ x = item => x \in ToSet(more)
    <3>1. \A i \in 1 .. l : i \in 1 .. (l + 1)
      OBVIOUS
    <3>2. l + 1 \in 1 .. (l + 1)
      OBVIOUS
    <3>3. QED
      BY <1>8, <2>2, <3>1, <3>2 DEF ToSet
  <2>9. \A j \in 1 .. n : queue[j] \in ToSet(more) \/ RestsAt(w, queue[j])
    BY <1>2, <1>4, <1>12, <2>8
  <2>10. QED
    BY <1>6, <1>7, <1>8, <1>9, <2>2, <2>3, <2>5, <2>7, <2>9 DEF Gone
<1>15. CASE Rests(p, item, next)
  <2>1. k < Len(ids) /\ k + 1 \in DOMAIN ids /\ ids[k + 1] \in Legs
    BY <1>6, <1>9, <1>15 DEF Rests
  <2>2. PICK new \in GridOrder : new = NewGridOrder(item, ids[k + 1])
    <3>1. PICK level \in Levels, side \in Sides, id \in Legs :
            level = item.level /\ side = item.side /\ id = ids[k + 1]
      BY <2>1 DEF Placement
    <3>2. NewGridOrder(item, ids[k + 1])
            = [level |-> level, side |-> side, id |-> id, seenOpen |-> FALSE, missedChecks |-> 0]
      BY <3>1 DEF NewGridOrder
    <3>3. 0 \in 0 .. ABSENCE_GRACE_CHECKS
      BY DEF ABSENCE_GRACE_CHECKS
    <3>4. QED
      BY <3>2, <3>3 DEF GridOrder
  <2>3. new.level = item.level /\ new.side = item.side
    BY <2>2 DEF NewGridOrder
  <2>4. PICK more \in Seq(GridOrder) : more = Append(w, new)
    BY AppendProperties
  <2>5. /\ next.pending = pending /\ next.working = more /\ next.placed = k + 1 /\ next.ids = ids
        /\ Len(more) = m + (k + 1) /\ DOMAIN more = 1 .. (m + k + 1) /\ more[m + k + 1] = new
        /\ \A i \in 1 .. (m + k) : more[i] = w[i]
    <3>1. /\ next.pending = pending /\ next.placed = k + 1 /\ next.ids = ids
          /\ next.working = more
      BY <1>6, <1>7, <1>9, <1>15, <2>2, <2>4 DEF Rests
    <3>2. /\ Len(more) = m + k + 1 /\ DOMAIN more = 1 .. (m + k + 1) /\ more[m + k + 1] = new
          /\ \A i \in 1 .. (m + k) : more[i] = w[i]
      BY <1>8, <2>4, AppendProperties
    <3>3. QED
      BY <3>1, <3>2
  <2>6. \A i \in 1 .. m : more[i] = old[i]
    BY <1>9, <2>5
  <2>7. ASSUME NEW i \in 1 .. (k + 1)
        PROVE  \E j \in 1 .. n : more[m + i] = NewGridOrder(queue[j], ids[i])
    <3>1. CASE i = k + 1
      <4>1. m + i = m + k + 1
        BY <3>1
      <4>2. QED
        BY <1>2, <1>5, <2>2, <2>5, <3>1, <4>1
    <3>2. CASE i \in 1 .. k
      <4>1. m + i \in 1 .. (m + k)
        BY <3>2
      <4>2. QED
        BY <1>5, <1>10, <2>5, <3>2, <4>1
    <3>3. QED
      BY <2>7, <3>1, <3>2
  <2>8. \A i \in 1 .. (m + k + 1) : i = m + k + 1 \/ i \in 1 .. (m + k)
    OBVIOUS
  <2>9. \A i \in 1 .. (m + k) : w[i].level # new.level
    BY <1>7, <1>8, <1>15, <2>3 DEF Rests
  <2>10. OneLevel(more)
    <3>1. SUFFICES ASSUME NEW i \in 1 .. (m + k + 1), NEW j \in 1 .. (m + k + 1),
                          more[i].level = more[j].level
                   PROVE  i = j
      BY <2>5, SMTT(30) DEF OneLevel
    <3>2. CASE i \in 1 .. (m + k) /\ j \in 1 .. (m + k)
      BY <1>8, <1>9, <2>5, <3>1, <3>2, ZenonT(40) DEF OneLevel
    <3>3. QED
      BY <2>5, <2>8, <2>9, <3>1, <3>2
  <2>11. \A i \in 1 .. l : \E j \in 1 .. n : pending[i] = queue[j]
    BY <1>5, <1>11
  <2>12. \A x : RestsAt(w, x) => RestsAt(more, x)
    <3>1. \A i \in 1 .. (m + k) : i \in 1 .. (m + k + 1)
      OBVIOUS
    <3>2. QED
      BY <1>8, <2>5, <3>1 DEF RestsAt
  <2>13. RestsAt(more, item)
    <3>1. m + k + 1 \in 1 .. (m + k + 1)
      OBVIOUS
    <3>2. QED
      BY <2>3, <2>5, <3>1 DEF RestsAt
  <2>14. \A j \in 1 .. n : queue[j] \in ToSet(pending) \/ RestsAt(more, queue[j])
    BY <1>2, <1>4, <1>12, <2>12, <2>13
  <2>15. k + 1 <= Len(ids)
    BY <2>1
  <2>16. QED
    BY <1>6, <1>8, <1>9, <2>5, <2>6, <2>7, <2>10, <2>11, <2>14, <2>15, ZenonT(40) DEF Gone
<1>16. QED
  BY <1>3, <1>13, <1>14, <1>15

\* The whole queue is gone through.
LEMMA AllAreGone ==
  ASSUME NEW book \in Books, OneLevel(book.working), NEW queue \in Queues,
         NEW ids \in Seq(Legs), NEW last, last = PlaceAll(book, queue, ids)
  PROVE  last \in Placings /\ Gone(book.working, ids, queue, last, Len(queue))
<1>1. PICK N \in Nat : N = Len(queue) /\ DOMAIN queue = 1 .. N
  BY DEF Queues
<1>2. PICK old \in Seq(GridOrder) : old = book.working
  BY DEF Books
<1>3. PICK start : start = Unplaced(book, ids)
  OBVIOUS
<1>4. start \in Placings
  <2>1. IsFiniteSet(SellsResting(old))
    <3>1. PICK m \in Nat : DOMAIN old = 1 .. m
      OBVIOUS
    <3>2. SellsResting(old) \subseteq 1 .. m
      BY <3>1 DEF SellsResting
    <3>3. IsFiniteSet(1 .. m)
      BY FS_Interval
    <3>4. QED
      BY <3>2, <3>3, FS_Subset
  <2>2. PICK c \in Nat : c = Cardinality(SellsResting(old))
    BY <2>1, FS_CardinalityType
  <2>3. book.inventory \in Nat /\ QuantityPerGrid \in Nat
    BY GridAssumption DEF GridAssumption, Books
  <2>4. QuantityPerGrid * c \in Int
    BY <2>3
  <2>5. PICK free \in Int : free = FreeInventory(book.inventory, book.working)
    BY <1>2, <2>2, <2>3, <2>4 DEF FreeInventory
  <2>6. <<>> \in Seq(Placement)
    OBVIOUS
  <2>7. QED
    BY <1>2, <1>3, <2>5, <2>6 DEF Placings, Unplaced
<1>5. PICK f \in [0 .. N -> Placings] :
        /\ f[0] = start /\ last = f[N]
        /\ \A n \in 1 .. N : f[n] = Place(f[n - 1], queue[n])
  <2>1. queue \in Seq(Placement)
    BY DEF Queues
  <2>2. PlacingRuns(start, queue, PlaceAll(book, queue, ids))
    BY <1>3, <1>4, <2>1, PlaceAllRuns
  <2>3. QED
    BY <1>1, <2>2 DEF PlacingRuns
<1> DEFINE T == {n \in 0 .. N : Gone(old, ids, queue, f[n], n)}
<1>6. 0 \in T
  <2>1. /\ f[0].ids = ids /\ f[0].placed = 0 /\ f[0].working = old /\ f[0].pending = <<>>
        /\ 1 .. 0 = {}
    BY <1>2, <1>3, <1>5 DEF Unplaced
  <2>2. DOMAIN <<>> = {} /\ 0 <= Len(ids) /\ Len(old) = Len(old) + 0
    OBVIOUS
  <2>3. OneLevel(old)
    BY <1>2
  <2>4. Gone(old, ids, queue, f[0], 0)
    BY <2>1, <2>2, <2>3 DEF Gone, Distinct
  <2>5. QED
    BY <2>4
<1>7. ASSUME NEW n \in 1 .. N, n - 1 \in T PROVE n \in T
  <2>1. f[n - 1] \in Placings /\ n \in 1 .. Len(queue)
    BY <1>1, <1>5
  <2>2. Gone(old, ids, queue, f[n - 1], n - 1)
    BY <1>7
  <2>3. f[n] = Place(f[n - 1], queue[n])
    BY <1>5
  <2>4. PICK p \in Placings : p = f[n - 1]
    BY <2>1
  <2>5. Gone(old, ids, queue, f[n], n)
    BY <2>1, <2>2, <2>3, <2>4, OneMoreIsPlaced
  <2>6. QED
    BY <2>5
<1> HIDE DEF T
<1>8. N \in T
  <2>1. \A n \in 0 .. N : n \in T
    BY <1>6, <1>7, Induct
  <2>2. QED
    BY <2>1
<1>9. Gone(old, ids, queue, f[N], N)
  BY <1>8 DEF T
<1>10. f[N] \in Placings
  BY <1>5
<1>11. QED
  BY <1>1, <1>2, <1>5, <1>9, <1>10

-----------------------------------------------------------------------------
(***************************************************************************)
(* The step that reviews and places.                                       *)
(***************************************************************************)

\* The orders of a grid are where they belong, and it owns what they offer.
GridHolds ==
  /\ state \in GridState
  /\ Distinct(state.queue)
  /\ OneEach(state.working)

\* What a step of a grid is made of: the orders reviewed, the queue gone through.
Through(w, listing, credit, book, queue, placing) ==
  /\ book \in Books /\ Reviewed(w, listing, credit, state.queue, book, Len(w))
  /\ queue \in Queues /\ ToSet(book.queue) \subseteq ToSet(queue)
  /\ placing \in Placings
  /\ Gone(book.working, SetToSeq(FreshLegs(Remembered)), queue, placing, Len(queue))

\* What a step leaves of a placing, and the orders it submits.
Outcome(book, placing, next, acts) ==
  LET placed == SubSeq(placing.working, Len(book.working) + 1, Len(placing.working))
  IN /\ next = [state EXCEPT !.seeded = TRUE, !.working = placing.working,
                             !.queue = placing.pending, !.cyclesDone = book.cyclesDone,
                             !.inventory = book.inventory, !.submitted = placed # <<>>]
     /\ acts = [i \in DOMAIN placed |-> GridSubmit(placed[i])]

\* The opening buys are at the levels of the grid.
LEMMA SeedsArePlaced ==
  ASSUME NEW below \in 0 .. LevelCount PROVE SeedBuys(below) \in Seq(Placement)
<1>1. PICK n \in Nat : n = below /\ n <= LevelCount /\ LevelCount \in Nat
  BY GridAssumption DEF GridAssumption
<1>2. ASSUME NEW i \in 1 .. n PROVE [level |-> n + 1 - i, side |-> "buy"] \in Placement
  <2>1. n + 1 - i \in 1 .. LevelCount
    BY <1>1
  <2>2. QED
    BY <2>1 DEF Placement, Levels, Sides
<1>3. SeedBuys(below) \in [1 .. n -> Placement]
  BY <1>1, <1>2 DEF SeedBuys
<1>4. QED
  BY <1>3

\* The ids nobody has used come in a sequence, each of them once.
LEMMA FreshIdsAreCounted ==
  ASSUME NEW ids, ids = SetToSeq(FreshLegs(Remembered))
  PROVE  /\ ids \in Seq(Legs) /\ \A i \in DOMAIN ids : ids[i] \in FreshLegs(Remembered)
         /\ Distinct(ids)
<1>1. FreshLegs(Remembered) \subseteq Legs /\ IsFiniteSet(Legs)
  BY StrategyHostAssumption DEF StrategyHostAssumption, FreshLegs
<1>2. PICK S \in SUBSET Legs : S = FreshLegs(Remembered)
  BY <1>1
<1>3. IsFiniteSet(S)
  BY <1>1, FS_Subset
<1>4. ids \in Seq(S) /\ \A i, j \in DOMAIN ids : ids[i] = ids[j] => i = j
  BY <1>2, <1>3, SetToSeqCounts
<1>5. ids \in Seq(Legs)
  BY <1>4, SeqMonotonic
<1>6. \A i \in DOMAIN ids : ids[i] \in S
  BY <1>4
<1>7. QED
  BY <1>2, <1>4, <1>5, <1>6 DEF Distinct

\* A step that works is a review and a placing.
LEMMA WorkIs ==
  ASSUME GridHolds, NEW w \in Seq(GridOrder), w = state.working, NEW listing, NEW credit,
         \A j \in DOMAIN w : credit[w[j].id] \in Nat, NEW below \in 0 .. LevelCount,
         Work(listing, below, credit)
  PROVE  \E queue, placing, next, acts :
           /\ Through(w, listing, credit, ReviewAll(listing, credit), queue, placing)
           /\ placing = PlaceAll(ReviewAll(listing, credit), queue,
                                 SetToSeq(FreshLegs(Remembered)))
           /\ Outcome(ReviewAll(listing, credit), placing, next, acts)
           /\ Return(next, acts, NotDone)
<1>1. PICK book : book = ReviewAll(listing, credit)
  OBVIOUS
<1>2. PICK ids : ids = SetToSeq(FreshLegs(Remembered))
  OBVIOUS
<1>3. PICK queue :
        queue = IF state.seeded THEN book.queue ELSE EnqueueAll(book.queue, SeedBuys(below))
  OBVIOUS
<1>4. PICK placing : placing = PlaceAll(book, queue, ids)
  OBVIOUS
<1>5. book \in Books /\ Reviewed(w, listing, credit, state.queue, book, Len(w))
  BY <1>1, AllAreReviewed DEF GridHolds
<1>6. queue \in Queues /\ ToSet(book.queue) \subseteq ToSet(queue)
  <2>1. PICK q \in Queues : q = book.queue
    BY <1>5 DEF Books
  <2>2. PICK seeds \in Seq(Placement) : seeds = SeedBuys(below)
    BY SeedsArePlaced
  <2>3. /\ EnqueueAll(q, seeds) \in Queues
        /\ ToSet(EnqueueAll(q, seeds)) = ToSet(q) \union ToSet(seeds)
    BY EnqueueAllAdds
  <2>4. QED
    BY <1>3, <2>1, <2>2, <2>3
<1>7. placing \in Placings /\ Gone(book.working, ids, queue, placing, Len(queue))
  <2>1. ids \in Seq(Legs)
    BY <1>2, FreshIdsAreCounted
  <2>2. OneLevel(book.working)
    BY <1>5 DEF Reviewed, OneEach, OneLevel
  <2>3. QED
    BY <1>4, <1>5, <1>6, <2>1, <2>2, AllAreGone
<1>8. Through(w, listing, credit, book, queue, placing)
  BY <1>2, <1>5, <1>6, <1>7, SMTT(30) DEF Through
<1>9. \E next, acts : Outcome(book, placing, next, acts) /\ Return(next, acts, NotDone)
  BY <1>1, <1>2, <1>3, <1>4 DEF Work, Outcome
<1>10. QED
  BY <1>1, <1>2, <1>4, <1>8, <1>9

\* An order a step places, and the action that asks for it.
IsNew(o, acts) ==
  /\ ~o.seenOpen /\ o.missedChecks = 0 /\ o.id \in FreshLegs(Remembered)
  /\ \E k \in DOMAIN acts : acts[k] = GridSubmit(o)

\* What becomes of the orders and of the placements of a grid in a step.
Fate(w, listing, credit, next, acts) ==
  /\ \A i \in DOMAIN acts : \E j \in DOMAIN next.working :
       acts[i] = GridSubmit(next.working[j]) /\ next.working[j].id \in FreshLegs(Remembered)
  /\ \A i \in DOMAIN next.working :
       \/ \E j \in DOMAIN w : ~Closes(w, listing, j) /\ next.working[i] = SeenAt(w, listing, j)
       \/ IsNew(next.working[i], acts)
  /\ \A j \in DOMAIN w :
       ~Closes(w, listing, j) =>
         \E i \in DOMAIN next.working : next.working[i] = SeenAt(w, listing, j)
  /\ \A j \in DOMAIN w :
       Closes(w, listing, j) =>
         \A p \in Answer(SeenAt(w, listing, j), credit[w[j].id]) :
           p \in ToSet(next.queue) \/ RestsAt(next.working, p)
  /\ \A p \in ToSet(state.queue) : p \in ToSet(next.queue) \/ RestsAt(next.working, p)

\* The grid goes on with orders and placements of its types, one order at a level, and no
\* order and no placement is lost.
LEMMA OutcomeIs ==
  ASSUME GridHolds, NEW w \in Seq(GridOrder), w = state.working, NEW listing, NEW credit,
         NEW book, NEW queue, NEW placing, NEW next, NEW acts,
         Through(w, listing, credit, book, queue, placing), Outcome(book, placing, next, acts)
  PROVE  /\ next \in GridState /\ Distinct(next.queue) /\ OneEach(next.working)
         /\ next.working = placing.working /\ next.inventory = book.inventory
         /\ next.submitted <=> acts # <<>>
         /\ acts \in Seq(Sendable)
         /\ Fate(w, listing, credit, next, acts)
<1>1. PICK ids \in Seq(Legs) : ids = SetToSeq(FreshLegs(Remembered))
  BY FreshIdsAreCounted
<1>2. /\ \A i \in DOMAIN ids : ids[i] \in FreshLegs(Remembered)
      /\ Distinct(ids)
  BY <1>1, FreshIdsAreCounted
<1>3. /\ book \in Books /\ Reviewed(w, listing, credit, state.queue, book, Len(w))
      /\ queue \in Queues /\ ToSet(book.queue) \subseteq ToSet(queue)
      /\ placing \in Placings /\ Gone(book.working, ids, queue, placing, Len(queue))
  BY <1>1 DEF Through
<1>4. PICK old \in Seq(GridOrder), m \in Nat :
        old = book.working /\ m = Len(old) /\ DOMAIN old = 1 .. m
  BY <1>3 DEF Books
<1>5. PICK k \in Nat, all \in Seq(GridOrder), pending \in Seq(Placement) :
        k = placing.placed /\ all = placing.working /\ pending = placing.pending
  BY <1>3 DEF Placings
<1>6. /\ k <= Len(ids) /\ Len(all) = m + k /\ DOMAIN all = 1 .. (m + k)
      /\ \A i \in 1 .. m : all[i] = old[i]
      /\ OneLevel(all) /\ Distinct(pending)
  <2>1. /\ k <= Len(ids) /\ Len(all) = m + k /\ OneLevel(all) /\ Distinct(pending)
        /\ \A i \in DOMAIN old : all[i] = old[i]
    BY <1>3, <1>4, <1>5 DEF Gone
  <2>2. DOMAIN all = 1 .. Len(all)
    OBVIOUS
  <2>3. QED
    BY <1>4, <2>1, <2>2
<1>7. PICK n \in Nat : n = Len(queue) /\ DOMAIN queue = 1 .. n
  BY <1>3 DEF Queues
<1>8. /\ \A i \in 1 .. k : \E j \in 1 .. n : all[m + i] = NewGridOrder(queue[j], ids[i])
      /\ \A j \in 1 .. n : queue[j] \in ToSet(pending) \/ RestsAt(all, queue[j])
  BY <1>3, <1>4, <1>5, <1>7 DEF Gone
<1>9. PICK placed : placed = SubSeq(all, m + 1, m + k)
  OBVIOUS
<1>10. /\ Len(placed) = k /\ DOMAIN placed = 1 .. k
       /\ \A i \in 1 .. k : placed[i] = all[m + i]
  <2>1. m + k - (m + 1) + 1 = k /\ \A i \in 1 .. k : i + (m + 1) - 1 = m + i
    OBVIOUS
  <2>2. \A i \in (m + 1) .. (m + k) : all[i] \in GridOrder
    BY <1>6
  <2>3. QED
    BY <1>6, <1>9, <2>1, <2>2, SubSeqProperties
<1>11. acts = [i \in 1 .. k |-> GridSubmit(all[m + i])]
  BY <1>4, <1>5, <1>6, <1>9, <1>10, ZenonT(40) DEF Outcome
<1>16. ASSUME NEW i \in 1 .. k
       PROVE  /\ all[m + i] \in GridOrder /\ ~all[m + i].seenOpen /\ all[m + i].missedChecks = 0
              /\ all[m + i].id = ids[i] /\ ids[i] \in FreshLegs(Remembered)
  <2>1. PICK j \in 1 .. n : all[m + i] = NewGridOrder(queue[j], ids[i])
    BY <1>8
  <2>2. i \in DOMAIN ids /\ m + i \in DOMAIN all
    BY <1>6
  <2>3. QED
    BY <1>2, <2>1, <2>2 DEF NewGridOrder
<1>21. acts \in Seq(Sendable)
  <2>1. ASSUME NEW o \in GridOrder PROVE GridSubmit(o) \in Sendable
    <3>1. o.level \in Nat /\ o.side \in Sides /\ o.id \in Legs /\ QuantityPerGrid \in Nat \ {0}
      BY GridAssumption DEF GridAssumption, GridOrder, Levels
    <3>2. Limit(o.side, QuantityPerGrid, o.level) \in Request
      BY <3>1 DEF Limit, Request
    <3>3. QED
      BY <3>1, <3>2 DEF GridSubmit, Submit, Sendable, Action, Limit
  <2>2. \A i \in 1 .. k : GridSubmit(all[m + i]) \in Sendable
    BY <1>16, <2>1
  <2>3. QED
    BY <1>11, <2>2
<1>12. (placed # <<>>) \in BOOLEAN /\ (placed # <<>> <=> k # 0) /\ (acts # <<>> <=> k # 0)
  <2>1. \A i \in 1 .. k : all[m + i] \in GridOrder
    BY <1>16
  <2>2. placed \in Seq(GridOrder)
    <3>1. \A i \in (m + 1) .. (m + k) : all[i] \in GridOrder
      BY <1>6
    <3>2. QED
      BY <1>9, <3>1, SubSeqProperties
  <2>3. Len(acts) = k
    BY <1>11
  <2>4. QED
    BY <1>10, <1>21, <2>2, <2>3, EmptySeq
<1>13. PICK asked \in BOOLEAN : asked = (placed # <<>>)
  BY <1>12
<1>14. next = [state EXCEPT !.seeded = TRUE, !.working = all, !.queue = pending,
                            !.cyclesDone = book.cyclesDone, !.inventory = book.inventory,
                            !.submitted = asked]
  BY <1>4, <1>5, <1>6, <1>9, <1>13 DEF Outcome
<1>15. next \in GridState /\ next.working = all /\ next.queue = pending
       /\ next.inventory = book.inventory /\ next.submitted = asked
  BY <1>3, <1>14 DEF GridHolds, GridState, Books
<1>17. ASSUME NEW i \in 1 .. m
       PROVE  \E j \in DOMAIN w : ~Closes(w, listing, j) /\ all[i] = SeenAt(w, listing, j)
  <2>1. DOMAIN w = 1 .. Len(w)
    OBVIOUS
  <2>2. QED
    <3>1. PICK j \in 1 .. Len(w) : ~Closes(w, listing, j) /\ old[i] = SeenAt(w, listing, j)
      BY <1>3, <1>4 DEF Reviewed
    <3>2. QED
      BY <1>6, <2>1, <3>1
<1>18. ASSUME NEW i \in 1 .. m PROVE all[i].id \in Remembered
  <2>1. PICK j \in DOMAIN w : all[i] = SeenAt(w, listing, j)
    BY <1>17
  <2>2. PICK o, seen : o \in GridOrder /\ o = w[j] /\ seen = Observe(o, o.id \in listing)
    OBVIOUS
  <2>3. seen.id = o.id
    BY <2>2, GridLearns
  <2>4. all[i] = seen
    BY <2>1, <2>2 DEF SeenAt
  <2>5. QED
    BY <2>2, <2>3, <2>4 DEF Remembered
<1>19. \A i \in 1 .. (m + k) : i \in 1 .. m \/ \E j \in 1 .. k : i = m + j
  <2>1. ASSUME NEW i \in 1 .. (m + k), i \notin 1 .. m PROVE i - m \in 1 .. k /\ i = m + (i - m)
    BY <2>1
  <2>2. QED
    BY <2>1
<1>20. OneEach(all)
  <2>1. SUFFICES ASSUME NEW i \in 1 .. (m + k), NEW j \in 1 .. (m + k), all[i].id = all[j].id
                 PROVE  i = j
    BY <1>6 DEF OneEach, OneLevel
  <2>2. CASE i \in 1 .. m /\ j \in 1 .. m
    BY <1>3, <1>4, <1>6, <2>1, <2>2, ZenonT(40) DEF Reviewed, OneEach
  <2>3. CASE i \in 1 .. m /\ \E b \in 1 .. k : j = m + b
    BY <1>16, <1>18, <2>1, <2>3, ZenonT(40) DEF FreshLegs
  <2>4. CASE (\E a \in 1 .. k : i = m + a) /\ j \in 1 .. m
    BY <1>16, <1>18, <2>1, <2>4, ZenonT(40) DEF FreshLegs
  <2>5. ASSUME NEW a \in 1 .. k, NEW b \in 1 .. k, i = m + a, j = m + b PROVE i = j
    <3>1. a \in DOMAIN ids /\ b \in DOMAIN ids /\ ids[a] = ids[b]
      BY <1>6, <1>16, <2>1, <2>5
    <3>2. QED
      BY <1>2, <2>5, <3>1 DEF Distinct
  <2>6. QED
    BY <1>19, <2>2, <2>3, <2>4, <2>5
<1>22. \A i \in 1 .. k : m + i \in 1 .. (m + k)
  OBVIOUS
<1>23. \A i \in DOMAIN acts : \E j \in DOMAIN all :
         acts[i] = GridSubmit(all[j]) /\ all[j].id \in FreshLegs(Remembered)
  BY <1>6, <1>11, <1>16, <1>22
<1>24. ASSUME NEW i \in 1 .. k PROVE IsNew(all[m + i], acts)
  <2>1. i \in DOMAIN acts /\ acts[i] = GridSubmit(all[m + i])
    BY <1>11
  <2>2. QED
    BY <1>16, <2>1 DEF IsNew
<1>25. \A i \in DOMAIN all :
         \/ \E j \in DOMAIN w : ~Closes(w, listing, j) /\ all[i] = SeenAt(w, listing, j)
         \/ IsNew(all[i], acts)
  BY <1>6, <1>17, <1>19, <1>24
<1>26. ASSUME NEW j \in DOMAIN w, ~Closes(w, listing, j)
       PROVE  \E i \in DOMAIN all : all[i] = SeenAt(w, listing, j)
  <2>1. PICK i \in DOMAIN old : old[i] = SeenAt(w, listing, j)
    <3>1. j \in 1 .. Len(w)
      OBVIOUS
    <3>2. QED
      BY <1>3, <1>4, <1>26, <3>1 DEF Reviewed
  <2>2. i \in DOMAIN all /\ all[i] = old[i]
    BY <1>4, <1>6, <2>1
  <2>3. QED
    BY <2>1, <2>2
<1>27. \A p \in ToSet(queue) : p \in ToSet(pending) \/ RestsAt(all, p)
  BY <1>7, <1>8 DEF ToSet
<1>28. ASSUME NEW j \in DOMAIN w, Closes(w, listing, j),
              NEW p \in Answer(SeenAt(w, listing, j), credit[w[j].id])
       PROVE  p \in ToSet(pending) \/ RestsAt(all, p)
  <2>1. p \in ToSet(book.queue)
    <3>1. j \in 1 .. Len(w)
      OBVIOUS
    <3>2. Answer(SeenAt(w, listing, j), credit[w[j].id]) \subseteq ToSet(book.queue)
      BY <1>3, <1>28, <3>1 DEF Reviewed
    <3>3. QED
      BY <1>28, <3>2
  <2>2. QED
    BY <1>3, <1>27, <2>1
<1>29. \A p \in ToSet(state.queue) : p \in ToSet(pending) \/ RestsAt(all, p)
  BY <1>3, <1>27 DEF Reviewed
<1>30. Fate(w, listing, credit, next, acts)
  BY <1>15, <1>23, <1>25, <1>26, <1>28, <1>29 DEF Fate
<1>31. QED
  BY <1>5, <1>6, <1>12, <1>13, <1>15, <1>20, <1>21, <1>30

\* What a step that only ends a grid, or does nothing, asks for: cancels of orders of the
\* grid, and a market order under a new id.
Quiet(acts) ==
  \A i \in DOMAIN acts :
    \/ \E j \in DOMAIN state.working : acts[i] = Cancel(state.working[j].id)
    \/ \E l \in FreshLegs(Remembered) : acts[i] = Submit(l, Market("sell", ExitQuantity))

\* What a step is made of that does not work.
Stopping(next, acts, ending) ==
  /\ next \in GridState /\ acts \in Seq(Sendable) /\ ending \in Endings
  /\ Return(next, acts, ending) /\ ReadsNothing
  /\ next.working = state.working /\ next.queue = state.queue
  /\ next.inventory = state.inventory
  /\ Quiet(acts)
  /\ ending = NotDone => acts = <<>> /\ ~(state.submitted /\ row.lastError)

\* The steps of a grid that do not work.
LEMMA QuietSteps ==
  ASSUME GridHolds, GridOrderRejected \/ StopGrid \/ GridNoPrice \/ BreachStop
  PROVE  \E next, acts, ending : Stopping(next, acts, ending)
<1>1. PICK next : next = [state EXCEPT !.submitted = FALSE]
  OBVIOUS
<1>2. /\ next \in GridState /\ next.working = state.working /\ next.queue = state.queue
      /\ next.inventory = state.inventory
  BY <1>1 DEF GridHolds, GridState
<1>3. PICK empty \in Seq(Sendable) : empty = <<>> /\ Quiet(empty)
  <2>1. <<>> \in Seq(Sendable) /\ DOMAIN <<>> = {}
    OBVIOUS
  <2>2. PICK e : e = <<>>
    OBVIOUS
  <2>3. Quiet(e)
    BY <2>1, <2>2 DEF Quiet
  <2>4. QED
    BY <2>1, <2>2, <2>3
<1>4. state.working \in Seq(GridOrder) /\ ExitQuantity \in Nat
  BY WholeIncrements DEF GridHolds, GridState, ExitQuantity
<1>5. PICK cancels \in Seq(Sendable) : cancels = Cancels /\ Quiet(cancels)
  BY <1>4, CancelsAreTyped DEF CancelLists, Quiet
<1>6. /\ Ending("failed", TRUE) \in Endings /\ Ending("completed", TRUE) \in Endings
      /\ Ending("failed", TRUE) # NotDone /\ Ending("completed", TRUE) # NotDone
      /\ NotDone \in Endings
  BY EndingsAreKnown
<1>7. CASE GridOrderRejected
  <2>1. Return(next, empty, Ending("failed", TRUE)) /\ ReadsNothing
    BY <1>1, <1>3, <1>7 DEF GridOrderRejected
  <2>2. QED
    BY <1>2, <1>3, <1>6, <2>1 DEF Stopping
<1>8. CASE StopGrid
  <2>1. Return(next, cancels, Ending("completed", TRUE)) /\ ReadsNothing
    BY <1>1, <1>5, <1>8 DEF StopGrid
  <2>2. QED
    BY <1>2, <1>5, <1>6, <2>1 DEF Stopping
<1>9. CASE GridNoPrice
  <2>1. Return(next, empty, NotDone) /\ ReadsNothing
    BY <1>1, <1>3, <1>9 DEF GridNoPrice
  <2>2. ~(state.submitted /\ row.lastError)
    BY <1>9 DEF GridNoPrice, GridCalled
  <2>3. QED
    BY <1>2, <1>3, <1>6, <2>1, <2>2 DEF Stopping
<1>10. CASE BreachStop
  <2> DEFINE sellable == ExitQuantity > 0 /\ ExitQuantity >= state.minOrderSize
             exit == {Submit(l, Market("sell", ExitQuantity)) :
                        l \in {CHOOSE l \in FreshLegs(Remembered) : TRUE}}
             acts == Cancels \o (IF sellable THEN SetToSeq(exit) ELSE <<>>)
  <2>1. Return(next, acts, Ending("completed", TRUE)) /\ ReadsNothing
    BY <1>1, <1>10 DEF BreachStop
  <2>2. CASE ~sellable
    <3>1. acts = cancels
      BY <1>3, <1>5, <2>2
    <3>2. QED
      BY <1>2, <1>5, <1>6, <2>1, <3>1 DEF Stopping
  <2>3. CASE sellable
    <3>1. FreshLegs(Remembered) # {}
      BY <1>10, <2>3 DEF BreachStop
    <3>2. PICK l \in FreshLegs(Remembered) : l = CHOOSE k \in FreshLegs(Remembered) : TRUE
      BY <3>1
    <3>3. PICK a : a = Submit(l, Market("sell", ExitQuantity))
      OBVIOUS
    <3>4. a \in Sendable
      BY <1>4, <2>3, <3>3 DEF Sendable, Submit, Action, Market, Request, Sides, FreshLegs
    <3>5. exit = {a}
      BY <3>2, <3>3
    <3>6. PICK s : s = SetToSeq(exit)
      OBVIOUS
    <3>7. IsFiniteSet({a})
      BY FS_Singleton
    <3>8. s \in Seq({a})
      BY <3>5, <3>6, <3>7, SetToSeqCounts
    <3>9. s \in Seq(Sendable) /\ \A i \in DOMAIN s : s[i] = a
      BY <3>4, <3>8, SeqMonotonic
    <3>10. acts = cancels \o s
      BY <1>5, <2>3, <3>6
    <3>11. PICK all : all = cancels \o s
      OBVIOUS
    <3>12. /\ all \in Seq(Sendable) /\ DOMAIN all = 1 .. (Len(cancels) + Len(s))
           /\ \A i \in DOMAIN all : \/ i \in DOMAIN cancels /\ all[i] = cancels[i]
                                    \/ \E j \in DOMAIN s : all[i] = s[j]
      <4>1. /\ Len(cancels) \in Nat /\ Len(s) \in Nat
            /\ DOMAIN cancels = 1 .. Len(cancels) /\ DOMAIN s = 1 .. Len(s)
        BY <3>9
      <4>2. PICK m \in Nat, n \in Nat : m = Len(cancels) /\ n = Len(s)
        BY <4>1
      <4>3. /\ all \in Seq(Sendable) /\ DOMAIN all = 1 .. (m + n)
            /\ \A i \in 1 .. m : all[i] = cancels[i]
            /\ \A i \in (m + 1) .. (m + n) : all[i] = s[i - m]
        BY <3>9, <3>11, <4>2, ConcatProperties
      <4>4. \A i \in 1 .. (m + n) : i \in 1 .. m \/ (i \in (m + 1) .. (m + n) /\ i - m \in 1 .. n)
        OBVIOUS
      <4>5. QED
        BY <4>1, <4>2, <4>3, <4>4
    <3>13. Quiet(all)
      BY <1>5, <3>3, <3>9, <3>12 DEF Quiet
    <3>14. Return(next, all, Ending("completed", TRUE))
      BY <2>1, <3>10, <3>11
    <3>15. QED
      BY <1>2, <1>6, <2>1, <3>12, <3>13, <3>14 DEF Stopping
  <2>4. QED
    BY <2>2, <2>3
<1>11. QED
  BY <1>7, <1>8, <1>9, <1>10

\* What a step that works is made of.
Working(listing, credit, queue, placing, next, acts) ==
  /\ ~(state.submitted /\ row.lastError)
  /\ listing \in Listings /\ Reads(listing)
  /\ \A j \in DOMAIN state.working :
       IF Closes(state.working, listing, j)
       THEN credit[state.working[j].id]
              \in Credits(state.working[j].id, QuantityPerGrid,
                          SeenAt(state.working, listing, j).seenOpen)
       ELSE credit[state.working[j].id] = 0
  /\ \A j \in DOMAIN state.working : credit[state.working[j].id] \in 0 .. QuantityPerGrid
  /\ Through(state.working, listing, credit, ReviewAll(listing, credit), queue, placing)
  /\ placing = PlaceAll(ReviewAll(listing, credit), queue, SetToSeq(FreshLegs(Remembered)))
  /\ Outcome(ReviewAll(listing, credit), placing, next, acts)
  /\ Return(next, acts, NotDone)

\* A step of a grid works, or it only ends the grid, or does nothing.
LEMMA WorkingSteps ==
  ASSUME GridHolds, GridWork
  PROVE  \E listing, credit, queue, placing, next, acts :
           Working(listing, credit, queue, placing, next, acts)
<1>1. PICK listing \in Listings, below \in IF state.seeded THEN {0} ELSE 0 .. LevelCount,
           credit \in [Remembered -> 0 .. QuantityPerGrid] :
        /\ Reads(listing)
        /\ \A i \in DOMAIN state.working :
             LET o == Observe(state.working[i], state.working[i].id \in listing)
             IN IF IsResolved(o, ABSENCE_GRACE_CHECKS)
                THEN credit[o.id] \in Credits(o.id, QuantityPerGrid, o.seenOpen)
                ELSE credit[o.id] = 0
        /\ Work(listing, below, credit)
  BY DEF GridWork
<1>2. PICK w \in Seq(GridOrder) : w = state.working
  BY DEF GridHolds, GridState
<1>3. below \in 0 .. LevelCount
  <2>1. 0 \in 0 .. LevelCount
    BY GridAssumption DEF GridAssumption
  <2>2. QED
    BY <2>1
<1>4. QuantityPerGrid \in Nat
  BY GridAssumption DEF GridAssumption
<1>5. \A j \in DOMAIN w : credit[w[j].id] \in 0 .. QuantityPerGrid
  <2>1. \A j \in DOMAIN w : w[j].id \in Remembered
    BY <1>2 DEF Remembered
  <2>2. QED
    BY <2>1
<1>6. \A j \in DOMAIN w : credit[w[j].id] \in Nat
  BY <1>4, <1>5
<1>7. ASSUME NEW j \in DOMAIN w
      PROVE  IF Closes(w, listing, j)
             THEN credit[w[j].id]
                    \in Credits(w[j].id, QuantityPerGrid, SeenAt(w, listing, j).seenOpen)
             ELSE credit[w[j].id] = 0
  <2>1. PICK o, seen : o \in GridOrder /\ o = w[j] /\ seen = Observe(o, o.id \in listing)
    OBVIOUS
  <2>2. seen.id = o.id
    BY <2>1, GridLearns
  <2>3. seen = SeenAt(w, listing, j)
    BY <2>1 DEF SeenAt
  <2>4. IF IsResolved(seen, ABSENCE_GRACE_CHECKS)
        THEN credit[seen.id] \in Credits(seen.id, QuantityPerGrid, seen.seenOpen)
        ELSE credit[seen.id] = 0
    BY <1>1, <1>2, <2>1
  <2>5. QED
    BY <2>1, <2>2, <2>3, <2>4 DEF Closes
<1>8. PICK queue, placing, next, acts :
        /\ Through(w, listing, credit, ReviewAll(listing, credit), queue, placing)
        /\ placing = PlaceAll(ReviewAll(listing, credit), queue,
                              SetToSeq(FreshLegs(Remembered)))
        /\ Outcome(ReviewAll(listing, credit), placing, next, acts)
        /\ Return(next, acts, NotDone)
  BY <1>1, <1>2, <1>3, <1>6, WorkIs
<1>9. Working(listing, credit, queue, placing, next, acts)
  <2>1. ~(state.submitted /\ row.lastError)
    BY DEF GridWork, GridCalled
  <2>2. QED
    BY <1>1, <1>2, <1>5, <1>7, <1>8, <2>1 DEF Working
<1>10. QED
  BY <1>9

\* What an order or a placement is to the pairs of levels of a grid.
LEMMA PairsAre ==
  ASSUME NEW s \in GridState, NEW n \in Levels
  PROVE  n \in Pairs(s) <=> \E item \in ToSet(s.working) \union ToSet(s.queue) : PairOf(item) = n
<1>1. \A item \in ToSet(s.working) \union ToSet(s.queue) :
        item.level \in Levels /\ item.side \in {"buy", "sell"}
  <2>1. s.working \in Seq(GridOrder) /\ s.queue \in Seq(Placement)
    BY DEF GridState
  <2>2. ToSet(s.working) \subseteq GridOrder /\ ToSet(s.queue) \subseteq Placement
    BY <2>1 DEF ToSet
  <2>3. \A item \in GridOrder \union Placement : item.level \in Levels /\ item.side \in Sides
    BY DEF GridOrder, Placement
  <2>4. QED
    BY <2>2, <2>3 DEF Sides
<1>2. Levels \subseteq Nat
  BY DEF Levels
<1>3. \A item \in ToSet(s.working) \union ToSet(s.queue) :
        PairOf(item) = n <=> \/ item.level = n /\ item.side = "buy"
                             \/ item.level = n + 1 /\ item.side = "sell"
  <2>1. ASSUME NEW item, item.level \in Levels, item.side \in {"buy", "sell"}
        PROVE  PairOf(item) = n <=> \/ item.level = n /\ item.side = "buy"
                                    \/ item.level = n + 1 /\ item.side = "sell"
    <3>1. PICK level \in Nat, m \in Nat : level = item.level /\ m = n
      BY <1>2, <2>1
    <3>2. level - 1 = m <=> level = m + 1
      OBVIOUS
    <3>3. QED
      BY <2>1, <3>1, <3>2 DEF PairOf
  <2>2. QED
    BY <1>1, <2>1
<1>4. QED
  BY <1>3 DEF Pairs

\* A step that works drops no pair of levels, except at the top.
LEMMA WorkKeepsPairs ==
  ASSUME GridHolds, NEW w \in Seq(GridOrder), w = state.working, NEW listing, NEW credit,
         \A j \in DOMAIN w : credit[w[j].id] \in Nat,
         NEW next \in GridState, NEW acts, Fate(w, listing, credit, next, acts)
  PROVE  Pairs(state) \ {LevelCount} \subseteq Pairs(next)
<1>1. SUFFICES ASSUME NEW n \in Levels \ {LevelCount},
                      NEW item \in ToSet(state.working) \union ToSet(state.queue), PairOf(item) = n
               PROVE  \E p \in ToSet(next.working) \union ToSet(next.queue) : PairOf(p) = n
  <2>1. state \in GridState /\ Pairs(state) \subseteq Levels
    BY DEF GridHolds, Pairs
  <2>2. QED
    BY <2>1, PairsAre
<1>2. ASSUME NEW p, PairOf(p) = n, p \in ToSet(next.queue) \/ RestsAt(next.working, p)
      PROVE  \E q \in ToSet(next.working) \union ToSet(next.queue) : PairOf(q) = n
  <2>1. CASE p \in ToSet(next.queue)
    BY <1>2, <2>1
  <2>2. CASE RestsAt(next.working, p)
    <3>1. PICK i \in DOMAIN next.working :
            next.working[i].level = p.level /\ next.working[i].side = p.side
      BY <2>2 DEF RestsAt
    <3>2. PairOf(next.working[i]) = n /\ next.working[i] \in ToSet(next.working)
      BY <1>2, <3>1 DEF PairOf, ToSet
    <3>3. QED
      BY <3>2
  <2>3. QED
    BY <1>2, <2>1, <2>2
<1>3. CASE item \in ToSet(state.queue)
  BY <1>1, <1>2, <1>3 DEF Fate
<1>4. CASE item \in ToSet(state.working)
  <2>1. PICK j \in DOMAIN w : item = w[j]
    BY <1>4 DEF ToSet
  <2>2. PICK o, seen : o \in GridOrder /\ o = w[j] /\ seen = Observe(o, o.id \in listing)
    OBVIOUS
  <2>3. seen \in GridOrder /\ seen.level = o.level /\ seen.side = o.side
    BY <2>2, GridLearns
  <2>4. seen = SeenAt(w, listing, j) /\ PairOf(seen) = n
    BY <1>1, <2>1, <2>2, <2>3 DEF SeenAt, PairOf
  <2>5. CASE Closes(w, listing, j)
    <3>1. PICK p \in Answer(seen, credit[w[j].id]) : PairOf(p) = n
      BY <2>3, <2>4, AnswerIsPlaced
    <3>2. p \in ToSet(next.queue) \/ RestsAt(next.working, p)
      BY <2>4, <2>5, <3>1 DEF Fate
    <3>3. QED
      BY <1>2, <3>1, <3>2
  <2>6. CASE ~Closes(w, listing, j)
    <3>1. PICK i \in DOMAIN next.working : next.working[i] = seen
      BY <2>4, <2>6 DEF Fate
    <3>2. seen \in ToSet(next.working)
      BY <3>1 DEF ToSet
    <3>3. QED
      BY <2>4, <3>2
  <2>7. QED
    BY <2>5, <2>6
<1>5. QED
  BY <1>3, <1>4

\* Whatever happens to a grid is a step of the engine, of Robinhood or of the tools, a step
\* that works, a step that does not, or nothing.
LEMMA GridSteps ==
  ASSUME strategy = "grid", GridHolds, [Next]_makerVars
  PROVE  \/ HostNext \/ FailJob
         \/ UNCHANGED hostVars
         \/ pc = "called" /\ \E next, acts, ending : Stopping(next, acts, ending)
         \/ pc = "called" /\ \E listing, credit, queue, placing, next, acts :
              Working(listing, credit, queue, placing, next, acts)
<1>1. CASE ChaseAdvance
  BY <1>1
  DEF ChaseAdvance, ChaseRoundedToZero, ChaseOpening, ChasePostRejected, ChaseWatch,
      ChaseCancelRefused, ChaseConfirm, ChaseCalled, Resting, Cancelling, Called
<1>2. CASE IcebergAdvance
  BY <1>2
  DEF IcebergAdvance, IcebergExpire, IcebergSliceRejected, IcebergOpening, IcebergWatch,
      IcebergCalled, Called
<1>3. CASE GridAdvance
  <2>1. pc = "called"
    BY <1>3
    DEF GridAdvance, GridOrderRejected, StopGrid, GridNoPrice, BreachStop, GridWork, GridCalled,
        Called
  <2>2. QED
    BY <1>3, <2>1, QuietSteps, WorkingSteps, SMTT(30) DEF GridAdvance
<1>4. CASE HostNext \/ AdvanceThrows
  BY <1>4 DEF AdvanceThrows
<1>5. CASE TimePasses \/ UNCHANGED makerVars
  BY <1>5 DEF TimePasses, makerVars
<1>6. QED
  BY <1>1, <1>2, <1>3, <1>4, <1>5 DEF Next, Advance

\* What is the same of every step that works.
LEMMA WorkingIs ==
  ASSUME GridHolds, NEW listing, NEW credit, NEW queue, NEW placing, NEW next, NEW acts,
         Working(listing, credit, queue, placing, next, acts)
  PROVE  /\ next \in GridState /\ Distinct(next.queue) /\ OneEach(next.working)
         /\ next.submitted <=> acts # <<>>
         /\ acts \in Seq(Sendable)
         /\ Fate(state.working, listing, credit, next, acts)
         /\ \A j \in DOMAIN state.working : credit[state.working[j].id] \in Nat
<1>1. PICK w \in Seq(GridOrder) : w = state.working
  BY DEF GridHolds, GridState
<1>2. PICK book : book = ReviewAll(listing, credit)
  OBVIOUS
<1>3. Through(w, listing, credit, book, queue, placing) /\ Outcome(book, placing, next, acts)
  BY <1>1, <1>2 DEF Working
<1>4. /\ next \in GridState /\ Distinct(next.queue) /\ OneEach(next.working)
      /\ next.submitted <=> acts # <<>>
      /\ acts \in Seq(Sendable)
      /\ Fate(w, listing, credit, next, acts)
  BY <1>1, <1>3, OutcomeIs
<1>5. \A j \in DOMAIN w : credit[w[j].id] \in 0 .. QuantityPerGrid
  BY <1>1 DEF Working
<1>6. QED
  BY <1>1, <1>4, <1>5, GridAssumption DEF GridAssumption

\* A job stays a job of its strategy.
LEMMA StrategyIsFixed == ASSUME [Next]_makerVars PROVE strategy' = strategy
<1>1. \A next, acts, ending : Return(next, acts, ending) => strategy' = strategy
  BY DEF Return
<1>2. CASE HostNext \/ AdvanceThrows
  BY <1>2
  DEF HostNext, Process, Robinhood, Operator, Perform, Tick, AdvanceThrows, FailJob, EndAdvance,
      UpdateThrows, Crash, Restart, RefuseOrder, ReserveIntent, SendOrder, RefuseReserved,
      OrderRefused, AnswerLost, OrderAnswered, CancelOrder, CancelFails, SettleFailed,
      Judge, LoseRequest, Fill, CancelTakesEffect, CancelledOutside, Fills, OrderBecomes,
      Engage, Release, CancelJob, database
<1>3. \A from, cost : Post(from, cost) => strategy' = strategy
  BY <1>1 DEF Post
<1>4. \A next : Follow(next) => strategy' = strategy
  BY <1>1 DEF Follow
<1>5. CASE ChaseAdvance
  <2>1. ChaseWatch => strategy' = strategy
    BY <1>1, <1>4 DEF ChaseWatch
  <2>2. ChaseConfirm => strategy' = strategy
    BY <1>1, <1>3 DEF ChaseConfirm
  <2>3. ChaseRoundedToZero \/ ChasePostRejected \/ ChaseCancelRefused => strategy' = strategy
    BY <1>1 DEF ChaseRoundedToZero, ChasePostRejected, ChaseCancelRefused
  <2>4. ChaseOpening => strategy' = strategy
    BY <1>3 DEF ChaseOpening
  <2>5. QED
    BY <1>5, <2>1, <2>2, <2>3, <2>4 DEF ChaseAdvance
<1>6. \A current : Refill(current) => strategy' = strategy
  BY <1>1, ZenonT(40) DEF Refill
<1>7. CASE IcebergAdvance
  BY <1>1, <1>6, <1>7, ZenonT(40)
  DEF IcebergAdvance, IcebergExpire, IcebergSliceRejected, IcebergOpening, IcebergWatch
<1>8. CASE GridAdvance
  <2>1. \A listing, below, credit : Work(listing, below, credit) => strategy' = strategy
    BY <1>1 DEF Work
  <2>2. QED
    BY <1>1, <1>8, <2>1
    DEF GridAdvance, GridOrderRejected, StopGrid, GridNoPrice, BreachStop, GridWork
<1>9. CASE TimePasses \/ UNCHANGED makerVars
  BY <1>9 DEF TimePasses, makerVars, hostVars, database
<1>10. QED
  BY <1>2, <1>5, <1>7, <1>8, <1>9 DEF Next, Advance

-----------------------------------------------------------------------------
(***************************************************************************)
(* The shape of a grid.                                                    *)
(***************************************************************************)

\* The engine keeps its protocol, and the orders and placements of a grid their places.
GridShape == strategy = "grid" => HostInv /\ CalmInv /\ GridHolds

\* A job of a grid begins with no order and nothing to place.
LEMMA GridBegins == Init => GridShape
<1> SUFFICES ASSUME Init, strategy = "grid" PROVE HostInv /\ CalmInv /\ GridHolds
  BY DEF GridShape
<1>1. HostInv /\ CalmInv
  BY HostBegins, CalmBegins DEF Init
<1>2. PICK hasStop \in BOOLEAN, minimum \in Minimums :
        state = [hasStop |-> hasStop, minOrderSize |-> minimum, seeded |-> FALSE,
                 working |-> <<>>, queue |-> <<>>, cyclesDone |-> 0, inventory |-> 0,
                 submitted |-> FALSE]
  BY DEF Init, GridInit
<1>3. <<>> \in Seq(GridOrder) /\ <<>> \in Seq(Placement) /\ DOMAIN <<>> = {}
  OBVIOUS
<1>4. state \in GridState
  BY <1>2, <1>3 DEF GridState
<1>5. QED
  BY <1>1, <1>2, <1>3, <1>4 DEF GridHolds, Distinct, OneEach

\* Every step keeps the shape, and no step drops a pair of levels but at the top.
LEMMA GridKeepsShape ==
  ASSUME GridShape, [Next]_makerVars
  PROVE  GridShape' /\ (strategy = "grid" => Pairs(state) \ {LevelCount} \subseteq Pairs(state'))
<1>1. strategy' = strategy
  BY StrategyIsFixed
<1> SUFFICES ASSUME strategy = "grid"
             PROVE  /\ (HostInv /\ CalmInv /\ GridHolds)'
                    /\ Pairs(state) \ {LevelCount} \subseteq Pairs(state')
  BY <1>1 DEF GridShape
<1>2. HostInv /\ CalmInv /\ GridHolds
  BY DEF GridShape
<1>3. ASSUME state' = state PROVE GridHolds' /\ Pairs(state) \ {LevelCount} \subseteq Pairs(state')
  BY <1>2, <1>3 DEF GridHolds, Pairs
<1>4. CASE HostNext \/ FailJob
  BY <1>2, <1>3, <1>4, HostKeepsHost, HostKeepsCalm, ActionsAreUsedUp
<1>5. CASE UNCHANGED hostVars
  <2>1. state' = state
    BY <1>5 DEF hostVars, database
  <2>2. QED
    BY <1>2, <1>3, <1>5, <2>1, StutterKeepsHost, StutterKeepsCalm
<1>6. ASSUME pc = "called", NEW next \in GridState, NEW acts \in Seq(Sendable),
             NEW ending \in Endings,
             Return(next, acts, ending), read' \in SUBSET Legs
      PROVE  HostInv' /\ CalmInv' /\ state' = next
  <2>1. Stepped /\ state' = next /\ actions' = acts /\ done' = ending
    BY <1>2, <1>6, ReturnIsStep
  <2>2. QED
    BY <1>2, <1>6, <2>1, StepKeepsHost, StepKeepsCalm
<1>7. ASSUME pc = "called", NEW next, NEW acts, NEW ending, Stopping(next, acts, ending)
      PROVE  /\ (HostInv /\ CalmInv /\ GridHolds)'
             /\ Pairs(state) \ {LevelCount} \subseteq Pairs(state')
  <2>1. read' \in SUBSET Legs
    BY <1>2, <1>7, ReadingIsTyped DEF Stopping
  <2>2. HostInv' /\ CalmInv' /\ state' = next
    BY <1>6, <1>7, <2>1 DEF Stopping
  <2>3. GridHolds'
    BY <1>2, <1>7, <2>2 DEF GridHolds, Stopping
  <2>4. Pairs(next) = Pairs(state)
    BY <1>7 DEF Pairs, Stopping
  <2>5. QED
    BY <2>2, <2>3, <2>4
<1>8. ASSUME pc = "called", NEW listing, NEW credit, NEW queue, NEW placing, NEW next, NEW acts,
             Working(listing, credit, queue, placing, next, acts)
      PROVE  /\ (HostInv /\ CalmInv /\ GridHolds)'
             /\ Pairs(state) \ {LevelCount} \subseteq Pairs(state')
  <2>1. /\ next \in GridState /\ Distinct(next.queue) /\ OneEach(next.working)
        /\ acts \in Seq(Sendable)
        /\ Fate(state.working, listing, credit, next, acts)
        /\ \A j \in DOMAIN state.working : credit[state.working[j].id] \in Nat
    BY <1>2, <1>8, WorkingIs
  <2>2. read' \in SUBSET Legs
    BY <1>2, <1>8, ReadingIsTyped DEF Working
  <2>3. HostInv' /\ CalmInv' /\ state' = next
    BY <1>6, <1>8, <2>1, <2>2, EndingsAreKnown DEF Working
  <2>4. GridHolds'
    BY <2>1, <2>3 DEF GridHolds
  <2>5. Pairs(state) \ {LevelCount} \subseteq Pairs(next)
    <3>1. PICK w \in Seq(GridOrder) : w = state.working
      BY <1>2 DEF GridHolds, GridState
    <3>2. QED
      BY <1>2, <2>1, <3>1, WorkKeepsPairs
  <2>6. QED
    BY <2>3, <2>4, <2>5
<1>9. QED
  BY <1>2, <1>4, <1>5, <1>7, <1>8, GridSteps

\* Through every fault, crash and halt a grid keeps its shape.
THEOREM GridKeepsItsShape == Spec => []GridShape
BY GridBegins, GridKeepsShape, PTL DEF Spec

\* A grid drops no pair of levels it has begun, whatever becomes of its orders.
THEOREM PairsAreKept == Spec => GridHasNoHoles
<1>1. GridShape /\ [Next]_makerVars
        => [strategy = "grid" => Pairs(state) \ {LevelCount} \subseteq Pairs(state')]_makerVars
  BY GridKeepsShape
<1>2. QED
  BY <1>1, GridKeepsItsShape, PTL DEF Spec, GridHasNoHoles

\* A job is of one of the strategies, and its time passes.
Timed == strategy \in Strategies /\ now \in 0 .. Duration

\* No step changes the strategy, and the time stays within the run.
LEMMA TimeIsKept == Spec => []Timed
<1>1. Init => Timed
  BY ClockAssumption DEF Init, Timed, ClockAssumption
<1>2. Timed /\ [Next]_makerVars => Timed'
  <2>1. SUFFICES ASSUME Timed, [Next]_makerVars PROVE Timed'
    OBVIOUS
  <2>2. now' = now \/ (now < Duration /\ now' = now + 1)
    BY <2>1 DEF Next, TimePasses, PassTime, makerVars
  <2>3. QED
    BY <2>1, <2>2, StrategyIsFixed, ClockAssumption DEF Timed, ClockAssumption
<1>3. QED
  BY <1>1, <1>2, PTL DEF Spec

\* The variables have their types, whatever the strategy, and the intents tell what the
\* orders are.
THEOREM MakersTypes == Spec => []TypeInv
<1>1. ASSUME IInv, GridShape, Timed PROVE TypeInv
  <2>1. strategy \in {"chase", "iceberg", "grid"}
    BY <1>1, MakersAssumption DEF Timed, MakersAssumption
  <2>2. HostInv /\ HostTypes /\ \A l \in Legs : LegInv(l)
    BY <1>1, <2>1 DEF IInv, GridShape, HostInv
  <2>3. (CASE strategy = "chase"   -> state \in ChaseState
           [] strategy = "iceberg" -> state \in IcebergState
           [] strategy = "grid"    -> state \in GridState)
    <3>1. /\ strategy = "chase" => state \in ChaseState
          /\ strategy = "iceberg" => state \in IcebergState
          /\ strategy = "grid" => state \in GridState
      BY <1>1 DEF IInv, ChaseInv, IcebergInv, GridShape, GridHolds
    <3>2. QED
      BY <2>1, <3>1
  <2>4. actions \in Seq(Action)
    <3>1. actions \in Seq(Sendable) /\ Sendable \subseteq Action
      BY <2>2 DEF HostTypes, Sendable
    <3>2. QED
      BY <3>1
  <2>5. done \in [status : {"none", "completed", "failed"}, reason : BOOLEAN]
    <3>1. CASE done = NotDone
      BY <3>1 DEF NotDone
    <3>2. CASE done \in [status : {"completed", "failed"}, reason : BOOLEAN]
      BY <3>2
    <3>3. QED
      BY <2>2, <3>1, <3>2 DEF HostTypes, Endings
  <2>6. \A l \in Legs : intent[l] = "submitted" => order[l] \in Accepted
    BY <2>2 DEF LegInv
  <2>7. QED
    BY <1>1, <2>2, <2>3, <2>4, <2>5, <2>6 DEF HostTypes, TypeInv, Timed
<1>2. QED
  BY <1>1, MakersInvariant, GridKeepsItsShape, TimeIsKept, PTL

-----------------------------------------------------------------------------
(***************************************************************************)
(* What the orders of a grid ask for.                                      *)
(***************************************************************************)
\* The ids of some orders.
Ids(w) == {w[i].id : i \in DOMAIN w}

\* What a grid may ask for under an id: the order it remembers there, or the exit of its
\* stop, under an id it does not remember.
Fits(s, l, r) ==
  /\ r.market => r.price = 0 /\ r.side = "sell" /\ l \notin Ids(s.working)
  /\ \A j \in DOMAIN s.working :
       LET o == s.working[j]
       IN o.id = l => r = Limit(o.side, QuantityPerGrid, o.level)

\* Every order asks for what the grid remembers of it, and so will every order to be sent.
GridAsks ==
  strategy = "grid" =>
    /\ \A i \in DOMAIN actions :
         actions[i].type = "submit" =>
           /\ Fits(state, actions[i].leg, actions[i].request)
           /\ actions[i].request.market \/ actions[i].leg \in Remembered
    /\ \A l \in Legs : order[l] # "absent" => Fits(state, l, request[l])

\* What is the same after every step a strategy gives back.
LEMMA ReturnLeaves ==
  ASSUME HostInv, pc = "called", NEW next, NEW acts, NEW ending, Return(next, acts, ending)
  PROVE  /\ Stepped /\ state' = next /\ actions' = acts /\ done' = ending
         /\ UNCHANGED <<strategy, intent, order, request, filled, cancelSent, disturbed>>
         /\ InTheBook' = InTheBook
<1>1. Stepped /\ state' = next /\ actions' = acts /\ done' = ending
  BY ReturnIsStep
<1>2. UNCHANGED <<strategy, intent, order, request, filled, cancelSent, disturbed>>
  BY <1>1, SteppedKeepsOrders
<1>3. QED
  BY <1>1, <1>2 DEF InTheBook

\* What a step that does not work sends is the exit of a stop.
LEMMA QuietSends ==
  ASSUME NEW acts, Quiet(acts), NEW i \in DOMAIN acts, acts[i].type = "submit"
  PROVE  /\ acts[i].leg \in Legs \ Remembered /\ acts[i].request.market
         /\ acts[i].request.price = 0 /\ acts[i].request.side = "sell"
<1>1. PICK l \in FreshLegs(Remembered) : acts[i] = Submit(l, Market("sell", ExitQuantity))
  <2>1. \A l : Cancel(l).type = "cancel"
    BY DEF Cancel
  <2>2. QED
    BY <2>1 DEF Quiet
<1>2. l \in Legs \ Remembered
  BY DEF FreshLegs
<1>3. QED
  BY <1>1, <1>2 DEF Submit, Market

\* What a step that works sends is one of the orders it has placed.
LEMMA WorkSends ==
  ASSUME NEW w, NEW listing, NEW credit, NEW next, NEW acts,
         Fate(w, listing, credit, next, acts), NEW i \in DOMAIN acts
  PROVE  \E j \in DOMAIN next.working :
           /\ acts[i].leg = next.working[j].id /\ acts[i].leg \in Legs \ Remembered
           /\ intent[acts[i].leg] = "none"
           /\ acts[i].request = Limit(next.working[j].side, QuantityPerGrid, next.working[j].level)
<1>1. PICK j \in DOMAIN next.working :
        /\ acts[i] = GridSubmit(next.working[j])
        /\ next.working[j].id \in FreshLegs(Remembered)
  BY DEF Fate
<1>2. next.working[j].id \in Legs \ Remembered /\ intent[next.working[j].id] = "none"
  BY <1>1 DEF FreshLegs
<1>3. QED
  BY <1>1, <1>2 DEF GridSubmit, Submit

\* An order a grid works at after a step is one it worked at before, as it was seen, or a
\* new one under an id nobody has used.
LEMMA WorkRemembers ==
  ASSUME GridHolds, NEW listing, NEW credit, NEW next, NEW acts,
         Fate(state.working, listing, credit, next, acts), NEW i \in DOMAIN next.working,
         NEW o, o = next.working[i]
  PROVE  \/ /\ o.id \in Legs \ Remembered /\ intent[o.id] = "none"
            /\ ~o.seenOpen /\ o.missedChecks = 0
            /\ \E k \in DOMAIN acts : acts[k] = GridSubmit(o)
         \/ \E j \in DOMAIN state.working :
              /\ ~Closes(state.working, listing, j) /\ o = SeenAt(state.working, listing, j)
              /\ o.id = state.working[j].id /\ o.level = state.working[j].level
              /\ o.side = state.working[j].side
              /\ o.seenOpen => state.working[j].seenOpen \/ o.id \in listing
<1>1. CASE IsNew(o, acts)
  BY <1>1 DEF IsNew, FreshLegs
<1>2. CASE \E j \in DOMAIN state.working :
             ~Closes(state.working, listing, j) /\ o = SeenAt(state.working, listing, j)
  <2>1. PICK j \in DOMAIN state.working :
          ~Closes(state.working, listing, j) /\ o = SeenAt(state.working, listing, j)
    BY <1>2
  <2>2. state.working[j] \in GridOrder
    BY DEF GridHolds, GridState
  <2>3. PICK was \in GridOrder : was = state.working[j] /\ o = Observe(was, was.id \in listing)
    BY <2>1, <2>2 DEF SeenAt
  <2>4. o.level = was.level /\ o.side = was.side /\ o.id = was.id
        /\ (o.seenOpen <=> was.seenOpen \/ was.id \in listing)
    BY <2>3, GridLearns
  <2>5. QED
    BY <2>1, <2>3, <2>4
<1>3. QED
  BY <1>1, <1>2 DEF Fate

\* The requests of a grid fit what it remembers, after every step.
LEMMA GridKeepsAsking ==
  ASSUME GridShape, GridAsks, [Next]_makerVars
  PROVE  GridAsks'
<1>1. strategy' = strategy
  BY StrategyIsFixed
<1> SUFFICES ASSUME strategy = "grid"
             PROVE  /\ \A i \in DOMAIN actions' :
                         actions'[i].type = "submit" =>
                           /\ Fits(state', actions'[i].leg, actions'[i].request)
                           /\ actions'[i].request.market \/ actions'[i].leg \in Remembered'
                    /\ \A l \in Legs : order'[l] # "absent" => Fits(state', l, request'[l])
  BY <1>1 DEF GridAsks
<1>2. HostInv /\ GridHolds
  BY DEF GridShape
<1>3. /\ \A i \in DOMAIN actions :
           actions[i].type = "submit" =>
             /\ Fits(state, actions[i].leg, actions[i].request)
             /\ actions[i].request.market \/ actions[i].leg \in Remembered
      /\ \A l \in Legs : order[l] # "absent" => Fits(state, l, request[l])
  BY DEF GridAsks
<1>4. ASSUME state'.working = state.working
      PROVE  Remembered' = Remembered /\ \A l, r : Fits(state, l, r) => Fits(state', l, r)
  BY <1>4 DEF Remembered, Ids, Fits
<1>5. CASE HostNext \/ FailJob
  <2>1. /\ UNCHANGED state
        /\ \A i \in DOMAIN actions' : \E j \in DOMAIN actions : actions[j] = actions'[i]
    BY <1>2, <1>5, ActionsAreUsedUp, TailsAreParts
  <2>2. \A l \in Legs : order'[l] # "absent" =>
          \/ order[l] # "absent" /\ request'[l] = request[l]
          \/ \E i \in DOMAIN actions :
               actions[i].type = "submit" /\ actions[i].leg = l /\ actions[i].request = request'[l]
    BY <1>2, <1>5, OrdersAreAskedFor
  <2>3. \A l \in Legs : order'[l] # "absent" => Fits(state, l, request'[l])
    BY <1>3, <2>2
  <2>4. Remembered' = Remembered /\ \A l, r : Fits(state, l, r) => Fits(state', l, r)
    BY <1>4, <2>1
  <2>5. QED
    BY <1>3, <2>1, <2>3, <2>4
<1>6. CASE UNCHANGED hostVars
  <2>1. UNCHANGED <<state, actions, order, request>>
    BY <1>6 DEF hostVars, database, memory, upstream
  <2>2. Remembered' = Remembered /\ \A l, r : Fits(state, l, r) => Fits(state', l, r)
    BY <1>4, <2>1
  <2>3. QED
    BY <1>3, <2>1, <2>2
<1>7. ASSUME pc = "called", NEW next, NEW acts, NEW ending, Stopping(next, acts, ending)
      PROVE  /\ \A i \in DOMAIN acts :
                  acts[i].type = "submit" =>
                    /\ Fits(state', acts[i].leg, acts[i].request)
                    /\ acts[i].request.market \/ acts[i].leg \in Remembered'
             /\ \A l \in Legs : order[l] # "absent" => Fits(state', l, request[l])
             /\ UNCHANGED <<order, request>> /\ actions' = acts
  <2>1. /\ state' = next /\ actions' = acts /\ UNCHANGED <<order, request>>
        /\ next.working = state.working
    BY <1>2, <1>7, ReturnLeaves DEF Stopping
  <2>2. Remembered' = Remembered /\ \A l, r : Fits(state, l, r) => Fits(state', l, r)
    BY <1>4, <2>1
  <2>3. ASSUME NEW i \in DOMAIN acts, acts[i].type = "submit"
        PROVE  Fits(state, acts[i].leg, acts[i].request) /\ acts[i].request.market
    <3>1. /\ acts[i].leg \in Legs \ Remembered /\ acts[i].request.market
          /\ acts[i].request.price = 0 /\ acts[i].request.side = "sell"
      BY <1>7, <2>3, QuietSends DEF Stopping
    <3>2. QED
      BY <3>1 DEF Fits, Ids, Remembered
  <2>4. QED
    BY <1>3, <2>1, <2>2, <2>3
<1>8. ASSUME pc = "called", NEW listing, NEW credit, NEW queue, NEW placing, NEW next, NEW acts,
             Working(listing, credit, queue, placing, next, acts)
      PROVE  /\ \A i \in DOMAIN acts :
                  /\ Fits(state', acts[i].leg, acts[i].request)
                  /\ acts[i].leg \in Remembered'
             /\ \A l \in Legs : order[l] # "absent" => Fits(state', l, request[l])
             /\ UNCHANGED <<order, request>> /\ actions' = acts
  <2>1. state' = next /\ actions' = acts /\ UNCHANGED <<order, request>>
    BY <1>2, <1>8, ReturnLeaves DEF Working
  <2>2. OneEach(next.working) /\ Fate(state.working, listing, credit, next, acts)
    BY <1>2, <1>8, WorkingIs
  <2>3. ASSUME NEW i \in DOMAIN acts
        PROVE  Fits(state', acts[i].leg, acts[i].request) /\ acts[i].leg \in Remembered'
    <3>1. PICK j \in DOMAIN next.working :
            /\ acts[i].leg = next.working[j].id
            /\ acts[i].request
                 = Limit(next.working[j].side, QuantityPerGrid, next.working[j].level)
      BY <2>2, WorkSends
    <3>2. ~acts[i].request.market
      BY <3>1 DEF Limit
    <3>3. \A k \in DOMAIN next.working : next.working[k].id = acts[i].leg => k = j
      BY <2>2, <3>1 DEF OneEach
    <3>4. QED
      BY <2>1, <3>1, <3>2, <3>3 DEF Fits, Ids, Remembered
  <2>4. ASSUME NEW l \in Legs, order[l] # "absent"
        PROVE  Fits(state', l, request[l])
    <3>1. intent[l] # "none" /\ Fits(state, l, request[l])
      BY <1>2, <1>3, <2>4 DEF HostInv, LegInv
    <3>2. ASSUME NEW i \in DOMAIN next.working, next.working[i].id = l
          PROVE  /\ l \in Remembered
                 /\ request[l] = Limit(next.working[i].side, QuantityPerGrid, next.working[i].level)
      <4>1. PICK j \in DOMAIN state.working :
              /\ l = state.working[j].id /\ next.working[i].level = state.working[j].level
              /\ next.working[i].side = state.working[j].side
        BY <1>2, <2>2, <3>1, <3>2, WorkRemembers
      <4>2. QED
        BY <3>1, <4>1 DEF Fits, Ids, Remembered
    <3>3. l \in Remembered' => l \in Remembered
      BY <2>1, <3>2 DEF Remembered
    <3>4. QED
      BY <2>1, <3>1, <3>2, <3>3 DEF Fits, Ids, Remembered
  <2>5. QED
    BY <2>1, <2>3, <2>4
<1>9. QED
  BY <1>2, <1>5, <1>6, <1>7, <1>8, GridSteps

\* A grid remembers every order that may trade, but for the exit of its stop.
Remembers == \A l \in InTheBook : l \in Remembered \/ request[l].market

\* Where no answer is lost a grid remembers its orders, and what it has learnt of one, from
\* a reading or from its absence, is a sighting.
GridSees ==
  strategy = "grid" /\ Truthful =>
    /\ Remembers
    /\ \A j \in DOMAIN state.working :
         LET o == state.working[j]
         IN o.seenOpen \/ o.missedChecks > 0 =>
              o.id \notin Due /\ (o.id \in InTheBook => Spotted(o.id))

\* The orders of a grid have the fields of an order.
LEMMA OrdersAreTyped ==
  ASSUME GridHolds, NEW j \in DOMAIN state.working
  PROVE  /\ state.working[j] \in GridOrder
         /\ state.working[j].id \in Legs /\ state.working[j].id \in Remembered
         /\ state.working[j].level \in Levels /\ state.working[j].side \in Sides
<1>1. state.working[j] \in GridOrder
  BY DEF GridHolds, GridState
<1>2. QED
  BY <1>1 DEF GridOrder, Remembered

\* What is sent is what the grid has placed, or the exit.
LEMMA HostKeepsRemembering ==
  ASSUME strategy = "grid", HostInv, GridAsks, Remembers, HostNext \/ FailJob
  PROVE  Remembers'
<1>1. ASSUME NEW l \in InTheBook' PROVE l \in Remembered \/ request'[l].market
  <2>1. l \in Legs /\ order'[l] # "absent"
    BY <1>1 DEF InTheBook
  <2>2. CASE \E i \in DOMAIN actions :
               actions[i].type = "submit" /\ actions[i].leg = l /\ actions[i].request = request'[l]
    BY <2>2 DEF GridAsks
  <2>3. CASE order[l] # "absent" /\ request'[l] = request[l]
    <3>1. ~(SendOrder /\ Leg = l)
      BY <2>3 DEF SendOrder, HostInv, ProcessInv
    <3>2. l \in InTheBook
      BY <2>1, <3>1, <1>1, OnlySendingExposes
    <3>3. QED
      BY <2>3, <3>2 DEF Remembers
  <2>4. QED
    BY <2>1, <2>2, <2>3, OrdersAreAskedFor
<1>2. Remembered' = Remembered
  BY ActionsAreUsedUp DEF Remembered
<1>3. QED
  BY <1>1, <1>2 DEF Remembers

\* The engine and Robinhood add nothing the grid does not know of.
LEMMA HostKeepsSight ==
  ASSUME strategy = "grid", Truthful, HostInv, GridHolds, GridAsks, GridSees,
         HostNext \/ FailJob
  PROVE  GridSees'
<1>1. Remembers' /\ state' = state
  BY HostKeepsRemembering, ActionsAreUsedUp DEF GridSees
<1>2. ASSUME NEW j \in DOMAIN state.working,
             state.working[j].seenOpen \/ state.working[j].missedChecks > 0
      PROVE  /\ state.working[j].id \notin Due'
             /\ state.working[j].id \in InTheBook' => Spotted(state.working[j].id)'
  <2>1. PICK l \in Legs : l = state.working[j].id
    BY OrdersAreTyped
  <2>2. l \notin Due /\ (l \in InTheBook => Spotted(l))
    BY <1>2, <2>1 DEF GridSees
  <2>3. l \notin Due'
    BY <2>2, ActionsAreUsedUp
  <2>4. l \in InTheBook' => l \in InTheBook
    BY <2>2, BookIsSent
  <2>5. l \in InTheBook => Spotted(l)'
    BY <2>2, OrdersMoveOn, SpottedStays
  <2>6. Spotted(state.working[j].id)' <=> Spotted(l)'
    BY <1>1, <2>1 DEF Spotted
  <2>7. QED
    BY <2>1, <2>3, <2>4, <2>5, <2>6
<1>3. QED
  BY <1>1, <1>2 DEF GridSees

\* A step that does not work sends nothing the grid has seen.
LEMMA StopKeepsSight ==
  ASSUME strategy = "grid", Truthful, HostInv, GridHolds, GridSees, pc = "called",
         NEW next, NEW acts, NEW ending, Stopping(next, acts, ending)
  PROVE  GridSees'
<1>1. /\ Stepped /\ state' = next /\ actions' = acts /\ InTheBook' = InTheBook
      /\ UNCHANGED <<intent, order, request>>
      /\ read' = read /\ next.working = state.working
  BY ReturnLeaves DEF Stopping, ReadsNothing
<1>2. Remembered' = Remembered
  BY <1>1 DEF Remembered
<1>3. \A l \in Due' : l \notin Remembered
  BY <1>1, QuietSends DEF Due, Stopping
<1>4. \A l \in Legs : Spotted(l) => Spotted(l)'
  BY <1>1 DEF Spotted
<1>5. ASSUME NEW j \in DOMAIN state.working
      PROVE  state.working[j].id \in Remembered /\ state.working[j].id \in Legs
  BY OrdersAreTyped
<1>6. QED
  BY <1>1, <1>2, <1>3, <1>4, <1>5 DEF GridSees, Remembers

\* An order that a step takes for closed was listed or missed before, and is missed now.
LEMMA ClosedIsMissed ==
  ASSUME GridHolds, NEW listing, NEW j \in DOMAIN state.working,
         Closes(state.working, listing, j)
  PROVE  /\ state.working[j].id \notin listing
         /\ state.working[j].seenOpen \/ state.working[j].missedChecks > 0
<1>1. PICK was \in GridOrder : was = state.working[j]
  BY OrdersAreTyped
<1>2. PICK seen : seen = Observe(was, was.id \in listing)
  OBVIOUS
<1>3. IsResolved(seen, ABSENCE_GRACE_CHECKS)
  BY <1>1, <1>2 DEF Closes, SeenAt
<1>4. QED
  BY <1>1, <1>2, <1>3, GridLearns

\* So it is not in the book.
LEMMA ClosedIsClosed ==
  ASSUME strategy = "grid", Truthful, HostInv, GridHolds, GridSees,
         NEW listing \in Listings, NEW j \in DOMAIN state.working,
         Closes(state.working, listing, j)
  PROVE  state.working[j].id \notin InTheBook
<1>1. PICK l \in Legs : l = state.working[j].id
  BY OrdersAreTyped
<1>2. l \notin listing /\ (l \in InTheBook => Spotted(l))
  BY <1>1, ClosedIsMissed DEF GridSees
<1>3. SUFFICES ASSUME l \in InTheBook PROVE FALSE
  BY <1>1
<1>4. order[l] \in {"filled", "cancelled"}
  BY <1>2, <1>3, MissingIsClosed
<1>5. QED
  BY <1>3, <1>4 DEF InTheBook

\* A step that forgets only orders that are closed still remembers the others.
LEMMA ForgetsOnlyClosed ==
  ASSUME GridHolds, Remembers, NEW listing, NEW credit, NEW next, NEW acts,
         Fate(state.working, listing, credit, next, acts),
         \A j \in DOMAIN state.working :
           Closes(state.working, listing, j) => state.working[j].id \notin InTheBook,
         state' = next, InTheBook' = InTheBook, request' = request
  PROVE  Remembers'
<1>1. ASSUME NEW l \in InTheBook, l \in Remembered PROVE l \in Remembered'
  <2>1. PICK j \in DOMAIN state.working : l = state.working[j].id
    BY <1>1 DEF Remembered
  <2>2. ~Closes(state.working, listing, j)
    BY <1>1, <2>1
  <2>3. PICK i \in DOMAIN next.working : next.working[i] = SeenAt(state.working, listing, j)
    BY <2>2 DEF Fate
  <2>4. PICK was, seen : /\ was \in GridOrder /\ was = state.working[j]
                         /\ seen = Observe(was, was.id \in listing)
    BY OrdersAreTyped
  <2>5. seen.id = l
    BY <2>1, <2>4, GridLearns
  <2>6. QED
    BY <2>3, <2>4, <2>5 DEF Remembered, SeenAt
<1>2. QED
  BY <1>1 DEF Remembers

\* A step that works forgets only orders that are closed, and learns by reading.
LEMMA WorkKeepsSight ==
  ASSUME strategy = "grid", Truthful, HostInv, HonestInv, GridHolds, GridSees, pc = "called",
         NEW listing, NEW credit, NEW queue, NEW placing, NEW next, NEW acts,
         Working(listing, credit, queue, placing, next, acts)
  PROVE  GridSees'
<1>1. /\ Stepped /\ state' = next /\ actions' = acts /\ InTheBook' = InTheBook
      /\ UNCHANGED <<intent, order, request>>
  BY ReturnLeaves DEF Working
<1>2. /\ listing \in Listings /\ Reads(listing)
      /\ Fate(state.working, listing, credit, next, acts)
  BY WorkingIs DEF Working
<1>3. Remembers'
  BY <1>1, <1>2, ClosedIsClosed, ForgetsOnlyClosed DEF GridSees
<1>4. \A l \in Due' : l \notin Remembered
  BY <1>1, <1>2, WorkSends DEF Due
<1>5. ASSUME NEW i \in DOMAIN next.working,
             next.working[i].seenOpen \/ next.working[i].missedChecks > 0
      PROVE  /\ next.working[i].id \notin Due'
             /\ next.working[i].id \in InTheBook => Spotted(next.working[i].id)'
  <2>1. PICK o : o = next.working[i]
    OBVIOUS
  <2>2. o.id \in Remembered
    <3>1. PICK j \in DOMAIN state.working : o.id = state.working[j].id
      BY <1>2, <1>5, <2>1, WorkRemembers
    <3>2. QED
      BY <3>1 DEF Remembered
  <2>3. ASSUME o.id \in InTheBook PROVE Spotted(o.id)'
    <3>1. o.id \in Legs /\ intent[o.id] = "submitted"
      BY <2>3, CalledKnowsAll
    <3>2. QED
      BY <1>1, <1>2, <3>1, ReadingSpots
  <2>4. QED
    BY <1>4, <2>1, <2>2, <2>3
<1>6. QED
  BY <1>1, <1>3, <1>5 DEF GridSees

\* What a grid knows of the book where no answer is lost.
GridBook ==
  strategy = "grid" => HostInv /\ CalmInv /\ GridHolds /\ HonestInv /\ GridAsks /\ GridSees

\* A job begins with an empty book.
LEMMA BookBegins == Init => GridBook
<1> SUFFICES ASSUME Init, strategy = "grid"
             PROVE  HostInv /\ CalmInv /\ GridHolds /\ HonestInv /\ GridAsks /\ GridSees
  BY DEF GridBook
<1>1. HostInv /\ CalmInv /\ GridHolds
  BY GridBegins DEF GridShape
<1>2. /\ HostInit /\ actions = <<>> /\ state.working = <<>>
      /\ \A l \in Legs : order[l] = "absent"
  BY DEF Init, HostInit, GridInit
<1>3. HonestInv
  BY <1>2, HonestBegins
<1>4. QED
  BY <1>1, <1>2, <1>3 DEF GridAsks, GridSees, Remembers, InTheBook

\* Every step keeps it.
LEMMA StepsKeepBook ==
  ASSUME GridBook, [Next]_makerVars
  PROVE  GridBook'
<1>1. strategy' = strategy
  BY StrategyIsFixed
<1> SUFFICES ASSUME strategy = "grid"
             PROVE  (HostInv /\ CalmInv /\ GridHolds /\ HonestInv /\ GridAsks /\ GridSees)'
  BY <1>1 DEF GridBook
<1>2. HostInv /\ CalmInv /\ GridHolds /\ HonestInv /\ GridAsks /\ GridSees
  BY DEF GridBook
<1>3. (HostInv /\ CalmInv /\ GridHolds /\ GridAsks)'
  BY <1>1, <1>2, GridKeepsShape, GridKeepsAsking DEF GridShape
<1>4. CASE ~Truthful
  BY <1>3, <1>4 DEF HonestInv, GridSees
<1>5. ASSUME Truthful, HostNext \/ FailJob PROVE HonestInv' /\ GridSees'
  BY <1>2, <1>5, HostKeepsHonest, HostKeepsSight
<1>6. ASSUME Truthful, UNCHANGED hostVars PROVE HonestInv' /\ GridSees'
  <2>1. UNCHANGED <<strategy, state, actions, order, request, intent, read>>
    BY <1>6 DEF hostVars, database, memory, upstream
  <2>2. HonestInv'
    BY <1>2, <1>6, StutterKeepsHonest
  <2>3. QED
    BY <1>2, <1>6, <2>1, <2>2 DEF GridSees, Remembers, Remembered, InTheBook, Due, Spotted
<1>7. ASSUME Truthful, pc = "called", NEW next, NEW acts, NEW ending, Stopping(next, acts, ending)
      PROVE  HonestInv' /\ GridSees'
  BY <1>2, <1>7, StopKeepsSight, ReturnLeaves, StepKeepsHonest DEF Stopping
<1>8. ASSUME Truthful, pc = "called", NEW listing, NEW credit, NEW queue, NEW placing,
             NEW next, NEW acts, Working(listing, credit, queue, placing, next, acts)
      PROVE  HonestInv' /\ GridSees'
  BY <1>2, <1>8, WorkKeepsSight, ReturnLeaves, StepKeepsHonest DEF Working
<1>9. QED
  BY <1>2, <1>3, <1>4, <1>5, <1>6, <1>7, <1>8, GridSteps

\* Two orders in the book at one price are one order.
LEMMA OnePerLevel == GridBook /\ Truthful => OneOrderPerLevel
<1> SUFFICES ASSUME GridBook, Truthful, strategy = "grid", NEW p \in InTheBook, NEW q \in InTheBook,
                    request[p].price = request[q].price
             PROVE  p = q
  BY DEF OneOrderPerLevel
<1>1. HostInv /\ GridHolds /\ HonestInv /\ GridAsks /\ GridSees
  BY DEF GridBook
<1>2. ASSUME NEW l \in InTheBook
      PROVE  /\ l \in Legs /\ Fits(state, l, request[l])
             /\ l \in Remembered \/ (order[l] = "wire" /\ request[l].market)
  <2>1. l \in Legs /\ order[l] \in {"wire", "live"} /\ LegInv(l)
    BY <1>1, <1>2 DEF InTheBook, HostInv
  <2>2. QED
    BY <1>1, <2>1 DEF GridAsks, GridSees, Remembers, LegInv
<1>3. ASSUME NEW l \in InTheBook, l \in Remembered
      PROVE  \E j \in DOMAIN state.working :
               state.working[j].id = l /\ request[l].price = state.working[j].level
                 /\ state.working[j].level \in Levels
  <2>1. PICK j \in DOMAIN state.working : state.working[j].id = l
    BY <1>3 DEF Remembered
  <2>2. request[l].price = state.working[j].level
    <3>1. request[l] = Limit(state.working[j].side, QuantityPerGrid, state.working[j].level)
      BY <1>2, <2>1 DEF Fits
    <3>2. QED
      BY <3>1 DEF Limit
  <2>3. state.working[j].level \in Levels
    BY <1>1, OrdersAreTyped
  <2>4. QED
    BY <2>1, <2>2, <2>3
<1>4. CASE p \in Remembered /\ q \in Remembered
  BY <1>1, <1>3, <1>4 DEF GridHolds, OneEach
<1>5. CASE p \notin Remembered /\ q \notin Remembered
  BY <1>1, <1>2, <1>5 DEF HonestInv
<1>6. ASSUME NEW k \in InTheBook, NEW l \in InTheBook, k \in Remembered, l \notin Remembered
      PROVE  request[k].price # request[l].price
  <2>1. request[k].price \in Levels /\ request[l].price = 0
    BY <1>2, <1>3, <1>6 DEF Fits
  <2>2. QED
    BY <2>1 DEF Levels
<1>7. QED
  BY <1>4, <1>5, <1>6

\* Through every refusal, crash, halt and failed cancel, for any number of levels and ids,
\* a grid never has two orders in the book at one level, if no answer of Robinhood is lost
\* and no restart gives up its search for an order.
THEOREM OneOrderALevel ==
  ASSUME Truthful
  PROVE  Spec => []OneOrderPerLevel
<1>1. GridBook => OneOrderPerLevel
  BY OnePerLevel
<1>2. GridBook /\ [Next]_makerVars => GridBook'
  BY StepsKeepBook
<1>3. QED
  BY <1>1, <1>2, BookBegins, PTL DEF Spec

-----------------------------------------------------------------------------
(***************************************************************************)
(* What the sells of a grid offer, and what it owns.                       *)
(***************************************************************************)
\* The sells of a grid can be counted.
LEMMA SellsAreCounted ==
  ASSUME NEW w \in Seq(GridOrder)
  PROVE  IsFiniteSet(SellsResting(w)) /\ Cardinality(SellsResting(w)) \in Nat
<1>1. PICK m \in Nat : DOMAIN w = 1 .. m
  OBVIOUS
<1>2. SellsResting(w) \subseteq 1 .. m
  BY <1>1 DEF SellsResting
<1>3. IsFiniteSet(1 .. m)
  BY FS_Interval
<1>4. QED
  BY <1>2, <1>3, FS_Subset, FS_CardinalityType

\* One more order is one more sell, or not.
LEMMA OneMoreSell ==
  ASSUME NEW w \in Seq(GridOrder), NEW o \in GridOrder
  PROVE  Cardinality(SellsResting(Append(w, o)))
           = IF o.side = "sell" THEN Cardinality(SellsResting(w)) + 1
                                ELSE Cardinality(SellsResting(w))
<1>1. PICK m \in Nat : m = Len(w) /\ DOMAIN w = 1 .. m
  OBVIOUS
<1>2. PICK v \in Seq(GridOrder) : v = Append(w, o)
  BY AppendProperties
<1>3. /\ Len(v) = m + 1 /\ v[m + 1] = o /\ \A i \in 1 .. m : v[i] = w[i]
  BY <1>1, <1>2, AppendProperties
<1>4. DOMAIN v = 1 .. (m + 1)
  BY <1>3
<1>5. SellsResting(v) = IF o.side = "sell" THEN SellsResting(w) \cup {m + 1} ELSE SellsResting(w)
  <2>1. SellsResting(v) = {i \in 1 .. (m + 1) : v[i].side = "sell"}
    BY <1>4 DEF SellsResting
  <2>2. SellsResting(w) = {i \in 1 .. m : w[i].side = "sell"}
    BY <1>1 DEF SellsResting
  <2>3. QED
    BY <1>3, <2>1, <2>2
<1>6. m + 1 \notin SellsResting(w)
  BY <1>1 DEF SellsResting
<1>7. IsFiniteSet(SellsResting(w))
  BY SellsAreCounted
<1>8. QED
  BY <1>2, <1>5, <1>6, <1>7, FS_AddElement

\* What n sells and one more are worth.
LEMMA OneMoreQuantity ==
  ASSUME NEW n \in Nat
  PROVE  /\ QuantityPerGrid \in Nat /\ QuantityPerGrid * n \in Nat
         /\ QuantityPerGrid * (n + 1) = QuantityPerGrid * n + QuantityPerGrid
<1>1. QuantityPerGrid \in Nat
  BY GridAssumption DEF GridAssumption
<1>2. \A q, k \in Nat : q * k \in Nat /\ q * (k + 1) = q * k + q
  OBVIOUS
<1>3. QED
  BY <1>1, <1>2

\* What is free is what is owned and offered by no sell.
Free(p, inventory) ==
  /\ p.free = inventory - QuantityPerGrid * Cardinality(SellsResting(p.working))
  /\ p.free >= 0

\* A placement offers only what is free.
LEMMA PlacingStaysFunded ==
  ASSUME NEW p \in Placings, NEW inventory \in Nat, Free(p, inventory), NEW item \in Placement,
         NEW next, next = Place(p, item)
  PROVE  next \in Placings /\ Free(next, inventory)
<1>1. next \in Placings
  BY PlaceIs
<1>2. PICK c \in Nat : c = Cardinality(SellsResting(p.working))
  BY SellsAreCounted DEF Placings
<1>3. CASE Drops(p, item, next)
  BY <1>1, <1>3 DEF Drops
<1>4. CASE Waits(p, item, next)
  BY <1>1, <1>4 DEF Waits, Free
<1>5. CASE Rests(p, item, next)
  <2>1. PICK o : o = NewGridOrder(item, p.ids[p.placed + 1])
    OBVIOUS
  <2>2. p.working \in Seq(GridOrder) /\ p.placed \in Nat /\ p.ids \in Seq(Legs) /\ p.free \in Int
    BY DEF Placings
  <2>3. p.placed + 1 \in DOMAIN p.ids
    BY <1>5, <2>2 DEF Rests
  <2>4. p.ids[p.placed + 1] \in Legs /\ item.side \in Sides /\ item.level \in Levels
    BY <2>2, <2>3 DEF Placement
  <2>5. o \in GridOrder /\ o.side = item.side
    BY <2>1, <2>4 DEF NewGridOrder, GridOrder, ABSENCE_GRACE_CHECKS
  <2>6. /\ next.working = Append(p.working, o)
        /\ item.side = "sell" => p.free >= QuantityPerGrid
        /\ next.free = IF item.side = "sell" THEN p.free - QuantityPerGrid ELSE p.free
    BY <1>5, <2>1 DEF Rests
  <2>7. Cardinality(SellsResting(next.working)) = IF item.side = "sell" THEN c + 1 ELSE c
    BY <1>2, <2>2, <2>5, <2>6, OneMoreSell
  <2>8. /\ QuantityPerGrid \in Nat /\ QuantityPerGrid * c \in Nat
        /\ QuantityPerGrid * (c + 1) = QuantityPerGrid * c + QuantityPerGrid
    BY OneMoreQuantity
  <2>9. p.free = inventory - QuantityPerGrid * c /\ p.free >= 0
    BY <1>2 DEF Free
  <2>10. CASE item.side = "sell"
    <3>1. next.free = inventory - QuantityPerGrid * (c + 1) /\ next.free >= 0
      BY <2>2, <2>6, <2>8, <2>9, <2>10
    <3>2. QED
      BY <1>1, <2>7, <2>10, <3>1 DEF Free
  <2>11. CASE item.side # "sell"
    <3>1. next.free = inventory - QuantityPerGrid * c /\ next.free >= 0
      BY <2>2, <2>6, <2>8, <2>9, <2>11
    <3>2. QED
      BY <1>1, <2>7, <2>11, <3>1 DEF Free
  <2>12. QED
    BY <2>10, <2>11
<1>6. QED
  BY <1>3, <1>4, <1>5, PlaceIs

\* When the sells are funded before the placing, they are after it.
LEMMA PlacedIsFunded ==
  ASSUME NEW book \in Books, NEW queue \in Queues, NEW ids \in Seq(Legs),
         QuantityPerGrid * Cardinality(SellsResting(book.working)) <= book.inventory,
         NEW last, last = PlaceAll(book, queue, ids)
  PROVE  QuantityPerGrid * Cardinality(SellsResting(last.working)) <= book.inventory
<1>1. PICK N \in Nat : N = Len(queue) /\ DOMAIN queue = 1 .. N
  BY DEF Queues
<1>2. PICK inventory \in Nat, old \in Seq(GridOrder) :
        inventory = book.inventory /\ old = book.working
  BY DEF Books
<1>3. PICK c \in Nat : c = Cardinality(SellsResting(old))
  BY SellsAreCounted
<1>4. QuantityPerGrid * c \in Nat /\ inventory - QuantityPerGrid * c \in Int
      /\ inventory - QuantityPerGrid * c >= 0
  <2>1. QuantityPerGrid * c <= inventory
    BY <1>2, <1>3
  <2>2. PICK worth \in Nat : worth = QuantityPerGrid * c
    BY OneMoreQuantity
  <2>3. inventory - worth \in Int /\ inventory - worth >= 0
    BY <2>1, <2>2
  <2>4. QED
    BY <2>2, <2>3
<1>5. PICK start : start = Unplaced(book, ids)
  OBVIOUS
<1>6. /\ start.working = old /\ start.free = inventory - QuantityPerGrid * c
      /\ start.pending = <<>> /\ start.placed = 0 /\ start.ids = ids
  BY <1>2, <1>3, <1>5 DEF Unplaced, FreeInventory
<1>7. start \in Placings
  <2>1. <<>> \in Seq(Placement)
    OBVIOUS
  <2>2. PICK free \in Int : free = inventory - QuantityPerGrid * c
    BY <1>4
  <2>3. start = [working |-> old, pending |-> <<>>, placed |-> 0, ids |-> ids, free |-> free]
    BY <1>2, <1>3, <1>5, <2>2 DEF Unplaced, FreeInventory
  <2>4. QED
    BY <2>1, <2>3 DEF Placings
<1>8. PICK f \in [0 .. N -> Placings] :
        /\ f[0] = start /\ last = f[N]
        /\ \A n \in 1 .. N : f[n] = Place(f[n - 1], queue[n])
  <2>1. queue \in Seq(Placement)
    BY DEF Queues
  <2>2. PlacingRuns(start, queue, PlaceAll(book, queue, ids))
    BY <1>5, <1>7, <2>1, PlaceAllRuns
  <2>3. QED
    BY <1>1, <2>2 DEF PlacingRuns
<1> DEFINE T == {n \in 0 .. N : Free(f[n], inventory)}
<1>9. 0 \in T
  BY <1>3, <1>4, <1>6, <1>8 DEF Free
<1>10. ASSUME NEW n \in 1 .. N, n - 1 \in T PROVE n \in T
  <2>1. f[n - 1] \in Placings /\ queue[n] \in Placement /\ Free(f[n - 1], inventory)
    BY <1>1, <1>10, SMTT(30) DEF Queues
  <2>2. f[n] = Place(f[n - 1], queue[n])
    BY <1>8
  <2>3. PICK p \in Placings, item \in Placement : p = f[n - 1] /\ item = queue[n]
    BY <2>1
  <2>4. Free(f[n], inventory)
    BY <2>1, <2>2, <2>3, PlacingStaysFunded
  <2>5. QED
    BY <2>4
<1> HIDE DEF T
<1>11. \A n \in 0 .. N : n \in T
  BY <1>9, <1>10, Induct
<1>12. Free(last, inventory)
  <2>1. N \in T
    BY <1>11
  <2>2. QED
    BY <1>8, <2>1 DEF T
<1>13. last.working \in Seq(GridOrder)
  BY <1>8 DEF Placings
<1>14. PICK d \in Nat : d = Cardinality(SellsResting(last.working))
  BY <1>13, SellsAreCounted
<1>15. QuantityPerGrid * d \in Nat /\ inventory - QuantityPerGrid * d >= 0
  BY <1>12, <1>14, OneMoreQuantity DEF Free
<1>16. QED
  BY <1>2, <1>14, <1>15

-----------------------------------------------------------------------------
(***************************************************************************)
(* What the orders a grid has settled have traded.                         *)
(***************************************************************************)
\* What an order of F has sold at its limit, and what one has bought.
SoldOf(F, l) ==
  IF l \in F /\ request[l].side = "sell" /\ ~request[l].market THEN filled[l] ELSE 0
BoughtOf(F, l) == IF l \in F /\ request[l].side = "buy" THEN filled[l] ELSE 0

Sold(F)   == SumFunctionOnSet([l \in Legs |-> SoldOf(F, l)], Legs)
Bought(F) == SumFunctionOnSet([l \in Legs |-> BoughtOf(F, l)], Legs)

\* What was sold is a number, and so is what was bought.
LEMMA TradesAreTyped ==
  ASSUME HostInv, NEW F
  PROVE  /\ IsFiniteSet(Legs)
         /\ \A l \in Legs : filled[l] \in Nat /\ SoldOf(F, l) \in Nat /\ BoughtOf(F, l) \in Nat
         /\ Sold(F) \in Nat /\ Bought(F) \in Nat
<1>1. IsFiniteSet(Legs) /\ \A l \in Legs : filled[l] \in Nat
  BY StrategyHostAssumption DEF StrategyHostAssumption, HostInv, HostTypes
<1>2. \A l \in Legs : SoldOf(F, l) \in Nat /\ BoughtOf(F, l) \in Nat
  BY <1>1 DEF SoldOf, BoughtOf
<1>3. PICK s, b : s = [l \in Legs |-> SoldOf(F, l)] /\ b = [l \in Legs |-> BoughtOf(F, l)]
  OBVIOUS
<1>4. SumFunctionOnSet(s, Legs) \in Nat /\ SumFunctionOnSet(b, Legs) \in Nat
  BY <1>1, <1>2, <1>3, SumType
<1>5. QED
  BY <1>1, <1>2, <1>3, <1>4 DEF Sold, Bought

\* Settling one more order adds what it has traded.
LEMMA SettlingAdds ==
  ASSUME HostInv, NEW F, NEW l \in Legs \ F
  PROVE  /\ Sold(F \union {l}) = Sold(F) + SoldOf({l}, l)
         /\ Bought(F \union {l}) = Bought(F) + BoughtOf({l}, l)
<1>1. PICK G : G = F \union {l}
  OBVIOUS
<1>2. PICK s, b, t, c :
        /\ s = [k \in Legs |-> SoldOf(F, k)] /\ b = [k \in Legs |-> BoughtOf(F, k)]
        /\ t = [k \in Legs |-> SoldOf(G, k)] /\ c = [k \in Legs |-> BoughtOf(G, k)]
  OBVIOUS
<1>3. /\ IsFiniteSet(Legs)
      /\ \A k \in Legs : s[k] \in Nat /\ b[k] \in Nat /\ t[k] \in Nat /\ c[k] \in Nat
  BY <1>2, TradesAreTyped
<1>4. \A k \in Legs \ {l} : s[k] = t[k] /\ b[k] = c[k]
  BY <1>1, <1>2 DEF SoldOf, BoughtOf
<1>5. s[l] = 0 /\ b[l] = 0 /\ t[l] = SoldOf({l}, l) /\ c[l] = BoughtOf({l}, l)
  BY <1>1, <1>2 DEF SoldOf, BoughtOf
<1>6. /\ SumFunctionOnSet(s, Legs) + t[l] = SumFunctionOnSet(t, Legs) + s[l]
      /\ SumFunctionOnSet(b, Legs) + c[l] = SumFunctionOnSet(c, Legs) + b[l]
  BY <1>3, <1>4, SumUpdate
<1>7. /\ SumFunctionOnSet(s, Legs) = Sold(F) /\ SumFunctionOnSet(t, Legs) = Sold(G)
      /\ SumFunctionOnSet(b, Legs) = Bought(F) /\ SumFunctionOnSet(c, Legs) = Bought(G)
  BY <1>2 DEF Sold, Bought
<1>8. /\ Sold(F) \in Nat /\ Sold(G) \in Nat /\ Bought(F) \in Nat /\ Bought(G) \in Nat
      /\ SoldOf({l}, l) \in Nat /\ BoughtOf({l}, l) \in Nat
  BY TradesAreTyped
<1>9. QED
  BY <1>1, <1>5, <1>6, <1>7, <1>8

-----------------------------------------------------------------------------
(***************************************************************************)
(* What the review makes of the inventory.                                 *)
(***************************************************************************)
\* The sells that are still to be reviewed or have stayed, the first n reviewed.
Kept(w, listing, n) ==
  {j \in DOMAIN w : w[j].side = "sell" /\ (j > n \/ ~Closes(w, listing, j))}

\* The orders that are forgotten then.
Forgotten == Legs \ Remembered

\* What is forgotten once the first n orders are reviewed.
Settled(w, listing, n) ==
  Forgotten \union {w[j].id : j \in {k \in 1 .. n : Closes(w, listing, k)}}

\* An order that is taken for closed has traded in full, and is credited with that.
Exact(w, listing, credit) ==
  \A j \in DOMAIN w :
    Closes(w, listing, j) =>
      /\ credit[w[j].id] = QuantityPerGrid /\ filled[w[j].id] = QuantityPerGrid
      /\ request[w[j].id].side = w[j].side /\ ~request[w[j].id].market

\* The sells a review leaves can be counted, and it takes them off one by one.
LEMMA KeptAreCounted ==
  ASSUME NEW w \in Seq(GridOrder), NEW listing, NEW n \in 1 .. Len(w)
  PROVE  /\ Cardinality(Kept(w, listing, n - 1)) \in Nat
         /\ IF w[n].side = "sell" /\ Closes(w, listing, n)
            THEN Cardinality(Kept(w, listing, n - 1)) = Cardinality(Kept(w, listing, n)) + 1
            ELSE Kept(w, listing, n) = Kept(w, listing, n - 1)
         /\ Cardinality(Kept(w, listing, n)) \in Nat
<1>1. PICK N \in Nat : N = Len(w) /\ DOMAIN w = 1 .. N /\ n \in 1 .. N
  OBVIOUS
<1>2. ASSUME NEW k PROVE Kept(w, listing, k) \in SUBSET (1 .. N)
  BY <1>1 DEF Kept
<1>3. IsFiniteSet(1 .. N)
  BY FS_Interval
<1>4. ASSUME NEW k
      PROVE  IsFiniteSet(Kept(w, listing, k)) /\ Cardinality(Kept(w, listing, k)) \in Nat
  BY <1>2, <1>3, FS_Subset, FS_CardinalityType
<1>5. \A j \in 1 .. N : j > n - 1 <=> j > n \/ j = n
  BY <1>1
<1>6. CASE w[n].side = "sell" /\ Closes(w, listing, n)
  <2>1. n \in Kept(w, listing, n - 1)
    BY <1>1, <1>5, <1>6 DEF Kept
  <2>2. Kept(w, listing, n) = Kept(w, listing, n - 1) \ {n}
    BY <1>1, <1>5, <1>6 DEF Kept
  <2>3. Cardinality(Kept(w, listing, n)) = Cardinality(Kept(w, listing, n - 1)) - 1
    <3>1. PICK K : K = Kept(w, listing, n - 1)
      OBVIOUS
    <3>2. IsFiniteSet(K) /\ n \in K
      BY <1>4, <2>1, <3>1
    <3>3. Cardinality(K \ {n}) = Cardinality(K) - 1
      BY <3>2, FS_RemoveElement
    <3>4. QED
      BY <2>2, <3>1, <3>3
  <2>4. QED
    BY <1>4, <1>6, <2>3
<1>7. CASE ~(w[n].side = "sell" /\ Closes(w, listing, n))
  <2>1. Kept(w, listing, n) = Kept(w, listing, n - 1)
    BY <1>1, <1>5, <1>7 DEF Kept
  <2>2. QED
    BY <1>4, <1>7, <2>1
<1>8. QED
  BY <1>6, <1>7

\* What a review leaves is owned, and what it settles is booked, order by order.
FundedAt(w, listing, n, inventory) ==
  QuantityPerGrid * Cardinality(Kept(w, listing, n)) <= inventory
BookedAt(w, listing, n, inventory) ==
  inventory + Sold(Settled(w, listing, n)) <= Bought(Settled(w, listing, n))

\* The inventory after the review of one more order.
InventoryAt(w, listing, credit, n, inventory, next) ==
  next = IF Closes(w, listing, n)
         THEN NewInventory(inventory, SeenAt(w, listing, n), credit[w[n].id])
         ELSE inventory

\* A sell that closes gives back no more than it was promised.
LEMMA OneMoreIsFunded ==
  ASSUME NEW w \in Seq(GridOrder), NEW listing, NEW credit, NEW n \in 1 .. Len(w),
         credit[w[n].id] \in 0 .. QuantityPerGrid,
         NEW inventory \in Nat, FundedAt(w, listing, n - 1, inventory),
         NEW next, InventoryAt(w, listing, credit, n, inventory, next)
  PROVE  FundedAt(w, listing, n, next)
<1>1. PICK c, d \in Nat :
        /\ c = Cardinality(Kept(w, listing, n - 1)) /\ d = Cardinality(Kept(w, listing, n))
        /\ IF w[n].side = "sell" /\ Closes(w, listing, n) THEN c = d + 1 ELSE c = d
  BY KeptAreCounted
<1>2. PICK q \in Nat : q = QuantityPerGrid
  BY GridAssumption DEF GridAssumption
<1>3. PICK x, y \in Nat : x = q * c /\ y = q * d
  BY <1>2, OneMoreQuantity
<1>4. x <= inventory
  BY <1>1, <1>2, <1>3 DEF FundedAt
<1>5. PICK was, seen, m :
        /\ was \in GridOrder /\ m \in 0 .. q
        /\ was = w[n] /\ seen = SeenAt(w, listing, n) /\ m = credit[w[n].id]
  BY <1>2
<1>6. seen.side = was.side
  BY <1>5, GridLearns DEF SeenAt
<1>7. y <= next
  <2>1. CASE ~Closes(w, listing, n)
    BY <1>1, <1>3, <1>4, <2>1 DEF InventoryAt
  <2>2. CASE Closes(w, listing, n)
    <3>1. next = NewInventory(inventory, seen, m)
      BY <1>5, <2>2 DEF InventoryAt
    <3>2. CASE was.side = "buy"
      <4>1. next = inventory + m
        BY <1>6, <3>1, <3>2 DEF NewInventory
      <4>2. c = d
        BY <1>1, <1>5, <3>2
      <4>3. QED
        BY <1>3, <1>4, <1>5, <4>1, <4>2
    <3>3. CASE was.side = "sell"
      <4>1. c = d + 1
        BY <1>1, <1>5, <2>2, <3>3
      <4>2. x = y + q
        BY <1>2, <1>3, <4>1, OneMoreQuantity
      <4>3. next = IF inventory > m THEN inventory - m ELSE 0
        BY <1>6, <3>1, <3>3 DEF NewInventory
      <4>4. QED
        BY <1>3, <1>4, <1>5, <4>2, <4>3, SMTT(30)
    <3>4. QED
      BY <1>5, <3>2, <3>3 DEF GridOrder, Sides
  <2>3. QED
    BY <2>1, <2>2
<1>8. QED
  BY <1>1, <1>2, <1>3, <1>7 DEF FundedAt

\* An order that closes is booked for what it has traded.
LEMMA OneMoreIsBooked ==
  ASSUME HostInv, GridHolds, NEW w \in Seq(GridOrder), w = state.working,
         NEW listing, NEW credit, Exact(w, listing, credit), NEW n \in 1 .. Len(w),
         NEW inventory \in Nat, FundedAt(w, listing, n - 1, inventory),
         BookedAt(w, listing, n - 1, inventory),
         NEW next, InventoryAt(w, listing, credit, n, inventory, next)
  PROVE  BookedAt(w, listing, n, next)
<1>1. PICK N \in Nat : N = Len(w) /\ DOMAIN w = 1 .. N /\ n \in 1 .. N
  OBVIOUS
<1>2. \A k \in 1 .. n : k \in 1 .. (n - 1) \/ k = n
  BY <1>1
<1>3. 1 .. (n - 1) \subseteq 1 .. n /\ n \in 1 .. n /\ n \notin 1 .. (n - 1)
  BY <1>1
<1>4. CASE ~Closes(w, listing, n)
  <2>1. Settled(w, listing, n) = Settled(w, listing, n - 1)
    BY <1>2, <1>3, <1>4 DEF Settled
  <2>2. QED
    BY <1>4, <2>1 DEF BookedAt, InventoryAt
<1>5. CASE Closes(w, listing, n)
  <2>1. PICK was, seen, l :
          /\ was \in GridOrder /\ l \in Legs
          /\ was = w[n] /\ seen = SeenAt(w, listing, n) /\ l = was.id
    <3>1. w[n] \in GridOrder
      BY <1>1
    <3>2. w[n].id \in Legs
      BY <3>1 DEF GridOrder
    <3>3. QED
      BY <3>1, <3>2
  <2>2. seen.side = was.side /\ was.side \in {"buy", "sell"}
    <3>1. seen = Observe(was, was.id \in listing)
      BY <2>1 DEF SeenAt
    <3>2. seen.side = was.side
      BY <2>1, <3>1, GridLearns
    <3>3. QED
      BY <2>1, <3>2 DEF GridOrder, Sides
  <2>3. PICK F, G : F = Settled(w, listing, n - 1) /\ G = Settled(w, listing, n)
    OBVIOUS
  <2>4. l \notin F
    <3>1. l \in Remembered
      BY <1>1, <2>1 DEF Remembered
    <3>2. \A k \in 1 .. (n - 1) : w[k].id # l
      BY <1>1, <2>1 DEF GridHolds, OneEach
    <3>3. QED
      BY <2>3, <3>1, <3>2 DEF Settled, Forgotten
  <2>5. G = F \union {l}
    BY <1>2, <1>3, <1>5, <2>1, <2>3 DEF Settled
  <2>6. PICK q \in Nat : q = QuantityPerGrid
    BY GridAssumption DEF GridAssumption
  <2>7. credit[l] = q /\ filled[l] = q /\ request[l].side = was.side /\ ~request[l].market
    BY <1>1, <1>5, <2>1, <2>6 DEF Exact
  <2>8. /\ Sold(F) \in Nat /\ Bought(F) \in Nat
        /\ Sold(G) = Sold(F) + SoldOf({l}, l) /\ Bought(G) = Bought(F) + BoughtOf({l}, l)
    BY <2>1, <2>4, <2>5, TradesAreTyped, SettlingAdds
  <2>9. inventory + Sold(F) <= Bought(F)
    BY <2>3 DEF BookedAt
  <2>10. next = NewInventory(inventory, seen, q)
    BY <1>5, <2>1, <2>7 DEF InventoryAt
  <2>11. next + Sold(G) <= Bought(G)
    <3>1. CASE was.side = "buy"
      <4>1. SoldOf({l}, l) = 0 /\ BoughtOf({l}, l) = q
        BY <2>7, <3>1 DEF SoldOf, BoughtOf
      <4>2. next = inventory + q
        BY <2>2, <2>10, <3>1 DEF NewInventory
      <4>3. QED
        BY <2>6, <2>8, <2>9, <4>1, <4>2
    <3>2. CASE was.side = "sell"
      <4>1. SoldOf({l}, l) = q /\ BoughtOf({l}, l) = 0
        BY <2>7, <3>2 DEF SoldOf, BoughtOf
      <4>2. q <= inventory
        <5>1. PICK c, d \in Nat : c = Cardinality(Kept(w, listing, n - 1)) /\ c = d + 1
          BY <1>5, <2>1, <3>2, KeptAreCounted
        <5>2. PICK x, y \in Nat : x = q * c /\ y = q * d /\ x = y + q
          BY <2>6, <5>1, OneMoreQuantity
        <5>3. x <= inventory
          BY <2>6, <5>1, <5>2 DEF FundedAt
        <5>4. QED
          BY <2>6, <5>2, <5>3
      <4>3. next = IF inventory > q THEN inventory - q ELSE 0
        BY <2>2, <2>10, <3>2 DEF NewInventory
      <4>4. next = inventory - q
        BY <2>6, <4>2, <4>3
      <4>5. QED
        BY <2>6, <2>8, <2>9, <4>1, <4>2, <4>4
    <3>3. QED
      BY <2>2, <3>1, <3>2
  <2>12. QED
    BY <2>3, <2>11 DEF BookedAt
<1>6. QED
  BY <1>4, <1>5

\* What the review of one more order makes of the inventory.
LEMMA ReviewBooks ==
  ASSUME NEW w \in Seq(GridOrder), NEW n \in 1 .. Len(w), NEW listing, NEW credit,
         credit[w[n].id] \in Nat, NEW book \in Books,
         NEW next, next = Review(book, w[n], w[n].id \in listing, credit[w[n].id])
  PROVE  InventoryAt(w, listing, credit, n, book.inventory, next.inventory)
<1>1. PICK o \in GridOrder : o = w[n]
  OBVIOUS
<1>2. PICK seen, m : m \in Nat /\ seen = Observe(o, o.id \in listing) /\ m = credit[w[n].id]
  OBVIOUS
<1>3. next = Review(book, o, o.id \in listing, m)
  BY <1>1, <1>2
<1>4. IF IsResolved(seen, ABSENCE_GRACE_CHECKS) THEN Answers(book, seen, m, next)
                                                ELSE Keeps(book, seen, next)
  BY <1>2, <1>3, ReviewIs
<1>5. seen = SeenAt(w, listing, n)
  BY <1>1, <1>2 DEF SeenAt
<1>6. CASE Closes(w, listing, n)
  <2>1. next.inventory = NewInventory(book.inventory, seen, m)
    BY <1>4, <1>5, <1>6 DEF Closes, Answers
  <2>2. QED
    BY <1>2, <1>5, <1>6, <2>1 DEF InventoryAt
<1>7. CASE ~Closes(w, listing, n)
  <2>1. next.inventory = book.inventory
    BY <1>4, <1>5, <1>7 DEF Closes, Keeps
  <2>2. QED
    BY <1>7, <2>1 DEF InventoryAt
<1>8. QED
  BY <1>6, <1>7

\* When all orders are reviewed, the sells that stay are funded; and when the orders that
\* closed have traded in full, the inventory is no more than what they have left.
LEMMA ReviewedIsFunded ==
  ASSUME HostInv, GridHolds, NEW w \in Seq(GridOrder), w = state.working, NEW listing,
         NEW credit, \A j \in DOMAIN w : credit[w[j].id] \in 0 .. QuantityPerGrid,
         FundedAt(w, listing, 0, state.inventory), NEW book, book = ReviewAll(listing, credit)
  PROVE  /\ FundedAt(w, listing, Len(w), book.inventory)
         /\ Exact(w, listing, credit) /\ BookedAt(w, listing, 0, state.inventory)
              => BookedAt(w, listing, Len(w), book.inventory)
<1>1. PICK N \in Nat : N = Len(w) /\ DOMAIN w = 1 .. N
  OBVIOUS
<1>2. PICK first : first = [working |-> <<>>, queue |-> state.queue,
                            inventory |-> state.inventory, cyclesDone |-> state.cyclesDone]
  OBVIOUS
<1>3. PICK start \in Books : start = first
  <2>1. first \in Books
    BY <1>2 DEF Books, Queues, GridHolds, GridState
  <2>2. QED
    BY <2>1
<1>4. \A j \in DOMAIN w : credit[w[j].id] \in Nat
  BY GridAssumption DEF GridAssumption
<1>5. PICK f \in [0 .. N -> Books] :
        /\ f[0] = start /\ ReviewAll(listing, credit) = f[N]
        /\ \A n \in 1 .. N :
             f[n] = Review(f[n - 1], w[n], w[n].id \in listing, credit[w[n].id])
  BY <1>1, <1>2, <1>3, <1>4, ReviewAllRuns, SMTT(30)
<1>6. f[0].inventory = state.inventory
  BY <1>2, <1>3, <1>5
<1>7. ASSUME NEW n \in 1 .. N
      PROVE  /\ InventoryAt(w, listing, credit, n, f[n - 1].inventory, f[n].inventory)
             /\ f[n - 1].inventory \in Nat /\ n \in 1 .. Len(w)
             /\ credit[w[n].id] \in 0 .. QuantityPerGrid
  <2>1. n \in 1 .. Len(w) /\ n \in DOMAIN w /\ f[n - 1] \in Books
    BY <1>1
  <2>2. PICK book0 \in Books : book0 = f[n - 1]
    BY <2>1
  <2>3. f[n] = Review(book0, w[n], w[n].id \in listing, credit[w[n].id])
    BY <1>5, <2>2
  <2>4. InventoryAt(w, listing, credit, n, book0.inventory, f[n].inventory)
    BY <1>4, <2>1, <2>3, ReviewBooks
  <2>5. QED
    BY <2>1, <2>2, <2>4 DEF Books
<1> DEFINE T == {n \in 0 .. N : FundedAt(w, listing, n, f[n].inventory)}
           U == {n \in T : BookedAt(w, listing, n, f[n].inventory)}
<1>8. 0 \in T
  BY <1>6
<1>9. ASSUME NEW n \in 1 .. N, n - 1 \in T PROVE n \in T
  <2>1. FundedAt(w, listing, n - 1, f[n - 1].inventory)
    BY <1>9
  <2>2. PICK inventory, next : inventory = f[n - 1].inventory /\ next = f[n].inventory
    OBVIOUS
  <2>3. FundedAt(w, listing, n, next)
    BY <1>7, <2>1, <2>2, OneMoreIsFunded
  <2>4. QED
    BY <2>2, <2>3
<1>10. \A n \in 0 .. N : n \in T
  <2> HIDE DEF T
  <2> QED BY <1>8, <1>9, Induct
<1>11. FundedAt(w, listing, Len(w), book.inventory)
  <2>1. N \in T
    BY <1>10
  <2>2. QED
    BY <1>1, <1>5, <2>1
<1>12. ASSUME Exact(w, listing, credit), BookedAt(w, listing, 0, state.inventory)
       PROVE  BookedAt(w, listing, Len(w), book.inventory)
  <2>1. 0 \in U
    BY <1>6, <1>8, <1>12
  <2>2. ASSUME NEW n \in 1 .. N, n - 1 \in U PROVE n \in U
    <3>1. n \in T
      BY <1>10
    <3>2. FundedAt(w, listing, n - 1, f[n - 1].inventory)
          /\ BookedAt(w, listing, n - 1, f[n - 1].inventory)
      BY <2>2
    <3>3. BookedAt(w, listing, n, f[n].inventory)
      BY <1>7, <1>12, <3>2, OneMoreIsBooked
    <3>4. QED
      BY <3>1, <3>3
  <2>3. \A n \in 0 .. N : n \in U
    <3> HIDE DEF U
    <3> QED BY <2>1, <2>2, Induct
  <2>4. N \in U
    BY <2>3
  <2>5. QED
    BY <1>1, <1>5, <2>4
<1>13. QED
  BY <1>11, <1>12

\* The sells that have stayed are the ones the review has kept.
LEMMA KeptAreTheSells ==
  ASSUME NEW w \in Seq(GridOrder), NEW listing, NEW credit, NEW old, NEW book \in Books,
         Reviewed(w, listing, credit, old, book, Len(w))
  PROVE  Cardinality(SellsResting(book.working)) <= Cardinality(Kept(w, listing, Len(w)))
<1>1. PICK N \in Nat : N = Len(w) /\ DOMAIN w = 1 .. N
  OBVIOUS
<1>2. PICK kept \in Seq(GridOrder) : kept = book.working
  BY DEF Books
<1>3. PICK S, K : S = SellsResting(kept) /\ K = Kept(w, listing, N)
  OBVIOUS
<1>4. \A i \in DOMAIN kept :
        \E j \in 1 .. N : ~Closes(w, listing, j) /\ kept[i] = SeenAt(w, listing, j)
  BY <1>1, <1>2 DEF Reviewed
<1>5. PICK m :
        m = [i \in S |-> CHOOSE j \in 1 .. N :
                                  ~Closes(w, listing, j) /\ kept[i] = SeenAt(w, listing, j)]
  OBVIOUS
<1>6. ASSUME NEW i \in S
      PROVE  /\ i \in DOMAIN kept /\ kept[i].side = "sell"
             /\ m[i] \in 1 .. N /\ ~Closes(w, listing, m[i]) /\ kept[i] = SeenAt(w, listing, m[i])
  <2>1. i \in DOMAIN kept /\ kept[i].side = "sell"
    BY <1>3 DEF SellsResting
  <2>2. QED
    BY <1>4, <1>5, <2>1
<1>7. ASSUME NEW i \in S PROVE m[i] \in K
  <2>1. PICK j, was, seen : /\ j = m[i] /\ j \in 1 .. N /\ was = w[j] /\ was \in GridOrder
                            /\ seen = Observe(was, was.id \in listing)
    BY <1>1, <1>6
  <2>2. kept[i] = seen
    BY <1>6, <2>1 DEF SeenAt
  <2>3. was.side = "sell"
    BY <1>6, <2>1, <2>2, GridLearns
  <2>4. QED
    BY <1>1, <1>3, <1>6, <2>1, <2>3 DEF Kept
<1>8. ASSUME NEW i \in S, NEW k \in S, m[i] = m[k] PROVE i = k
  <2>1. kept[i] = kept[k] /\ i \in DOMAIN kept /\ k \in DOMAIN kept
    BY <1>6, <1>8
  <2>2. OneEach(kept)
    BY <1>2 DEF Reviewed
  <2>3. QED
    BY <2>1, <2>2 DEF OneEach
<1>9. m \in [S -> K]
  BY <1>5, <1>7
<1>10. m \in Injection(S, K)
  BY <1>8, <1>9 DEF Injection, IsInjective
<1>11. IsFiniteSet(K)
  <2>1. K \in SUBSET (1 .. N)
    BY <1>1, <1>3 DEF Kept
  <2>2. IsFiniteSet(1 .. N)
    BY FS_Interval
  <2>3. QED
    BY <2>1, <2>2, FS_Subset
<1>12. Cardinality(S) <= Cardinality(K)
  BY <1>10, <1>11, FS_Injection
<1>13. QED
  BY <1>1, <1>2, <1>3, <1>12

\* The orders of a grid are as well funded after a step that works as before it.
Funds(s) == QuantityPerGrid * Cardinality(SellsResting(s.working)) <= s.inventory

\* A step that works leaves the sells funded, and settles orders that have traded in full.
LEMMA WorkIsFunded ==
  ASSUME HostInv, GridHolds, Funds(state),
         NEW listing, NEW credit, NEW queue, NEW placing, NEW next, NEW acts,
         Working(listing, credit, queue, placing, next, acts)
  PROVE  /\ Funds(next)
         /\ Exact(state.working, listing, credit)
              /\ state.inventory + Sold(Forgotten) <= Bought(Forgotten)
              => BookedAt(state.working, listing, Len(state.working), next.inventory)
<1>1. PICK w \in Seq(GridOrder) : w = state.working
  BY DEF GridHolds, GridState
<1>2. PICK book : book = ReviewAll(listing, credit)
  OBVIOUS
<1>3. /\ \A j \in DOMAIN w : credit[w[j].id] \in 0 .. QuantityPerGrid
      /\ Through(w, listing, credit, book, queue, placing)
      /\ placing = PlaceAll(book, queue, SetToSeq(FreshLegs(Remembered)))
      /\ Outcome(book, placing, next, acts)
  BY <1>1, <1>2 DEF Working
<1>4. /\ book \in Books /\ Reviewed(w, listing, credit, state.queue, book, Len(w))
      /\ queue \in Queues /\ placing \in Placings
  BY <1>3 DEF Through
<1>5. next.working = placing.working /\ next.inventory = book.inventory
  BY <1>1, <1>3, OutcomeIs
<1>6. FundedAt(w, listing, 0, state.inventory)
  <2>1. \A j \in DOMAIN w : j > 0
    BY <1>1
  <2>2. Kept(w, listing, 0) = SellsResting(w)
    BY <2>1 DEF Kept, SellsResting
  <2>3. QED
    BY <1>1, <2>2 DEF FundedAt, Funds
<1>7. /\ FundedAt(w, listing, Len(w), book.inventory)
      /\ Exact(w, listing, credit) /\ BookedAt(w, listing, 0, state.inventory)
           => BookedAt(w, listing, Len(w), book.inventory)
  BY <1>1, <1>2, <1>3, <1>6, ReviewedIsFunded
<1>8. QuantityPerGrid * Cardinality(SellsResting(book.working)) <= book.inventory
  <2>1. PICK c, d :
          /\ c \in Nat /\ d \in Nat /\ c <= d
          /\ c = Cardinality(SellsResting(book.working))
          /\ d = Cardinality(Kept(w, listing, Len(w)))
    <3>1. Cardinality(SellsResting(book.working)) \in Nat
      BY <1>4, SellsAreCounted DEF Books
    <3>2. Cardinality(Kept(w, listing, Len(w))) \in Nat
      <4>1. PICK N \in Nat : DOMAIN w = 1 .. N
        OBVIOUS
      <4>2. Kept(w, listing, Len(w)) \in SUBSET (1 .. N)
        BY <4>1 DEF Kept
      <4>3. IsFiniteSet(1 .. N)
        BY FS_Interval
      <4>4. QED
        BY <4>2, <4>3, FS_Subset, FS_CardinalityType
    <3>3. Cardinality(SellsResting(book.working)) <= Cardinality(Kept(w, listing, Len(w)))
      BY <1>4, KeptAreTheSells
    <3>4. QED
      BY <3>1, <3>2, <3>3
  <2>2. PICK q \in Nat : q = QuantityPerGrid
    BY GridAssumption DEF GridAssumption
  <2>3. \A a, b \in Nat : a <= b => q * a <= q * b
    BY <2>2
  <2>4. q * d <= book.inventory
    BY <1>7, <2>1, <2>2 DEF FundedAt
  <2>5. q * c \in Nat /\ q * d \in Nat /\ q * c <= q * d /\ book.inventory \in Nat
    BY <1>4, <2>1, <2>2, <2>3, OneMoreQuantity DEF Books
  <2>6. QED
    BY <2>1, <2>2, <2>4, <2>5
<1>9. SetToSeq(FreshLegs(Remembered)) \in Seq(Legs)
  BY FreshIdsAreCounted
<1>10. QuantityPerGrid * Cardinality(SellsResting(placing.working)) <= book.inventory
  BY <1>3, <1>4, <1>8, <1>9, PlacedIsFunded
<1>11. Settled(w, listing, 0) = Forgotten
  <2>1. 1 .. 0 = {}
    OBVIOUS
  <2>2. QED
    BY <2>1 DEF Settled
<1>12. QED
  BY <1>1, <1>5, <1>7, <1>10, <1>11 DEF Funds, BookedAt

-----------------------------------------------------------------------------
(***************************************************************************)
(* What a grid that nothing disturbed has bought and sold.                 *)
(***************************************************************************)
\* Only an order that is being sent, or is on its way, gets another request.
LEMMA RequestsStay ==
  ASSUME HostInv, HostNext \/ FailJob, NEW l \in Legs, ~(SendOrder /\ Leg = l),
         order[l] # "wire"
  PROVE  request'[l] = request[l]
<1>0. request \in [Legs -> Request]
  BY DEF HostInv, HostTypes
<1>1. CASE Tick \/ FailJob \/ EndAdvance \/ UpdateThrows \/ Crash \/ Restart \/ Operator
  BY <1>1
  DEF Tick, FailJob, EndAdvance, UpdateThrows, Crash, Restart, Operator, Engage, Release,
      CancelJob, upstream
<1>2. CASE Perform /\ ~SendOrder
  BY <1>2
  DEF Perform, RefuseOrder, ReserveIntent, RefuseReserved, OrderRefused, AnswerLost,
      OrderAnswered, CancelOrder, CancelFails, SettleFailed, upstream
<1>3. CASE SendOrder
  BY <1>0, <1>3 DEF SendOrder
<1>4. CASE Robinhood
  BY <1>0, <1>4
  DEF Robinhood, Judge, LoseRequest, Fill, CancelTakesEffect, CancelledOutside, Fills, upstream
<1>5. QED
  BY <1>1, <1>2, <1>3, <1>4 DEF HostNext, Process

\* What a grid has forgotten trades no more, but for the exit of its stop.
LEMMA ForgottenTradesNoMore ==
  ASSUME strategy = "grid", HostInv, GridAsks, Remembers, HostNext \/ FailJob
  PROVE  Sold(Forgotten)' = Sold(Forgotten) /\ Bought(Forgotten)' = Bought(Forgotten)
<1>1. Remembered' = Remembered
  BY ActionsAreUsedUp DEF Remembered
<1>2. ASSUME NEW l \in Legs \ Remembered
      PROVE  /\ request[l].market => request[l].side = "sell"
             /\ request'[l].market => request'[l].side = "sell"
             /\ \/ request'[l] = request[l] /\ filled'[l] = filled[l]
                \/ /\ request[l].market \/ filled[l] = 0
                   /\ request'[l].market \/ filled'[l] = 0
  <2>1. LegInv(l) /\ LegInv(l)' /\ HostInv'
    BY HostKeepsHost DEF HostInv
  <2>2. GridAsks =>
          /\ request[l].market => request[l].side = "sell"
          /\ \A i \in DOMAIN actions : actions[i].type = "submit" /\ actions[i].leg = l =>
               actions[i].request.market /\ actions[i].request.side = "sell"
    BY <1>2, <2>1 DEF GridAsks, Fits, LegInv, NoRequest, Limit
  <2>3. CASE order'[l] = "absent"
    <3>1. request'[l] = NoRequest /\ filled'[l] = 0
      BY <2>1, <2>3 DEF LegInv
    <3>2. ~request'[l].market
      BY <3>1 DEF NoRequest, Limit
    <3>3. CASE l \in InTheBook
      BY <1>2, <2>2, <3>1, <3>2, <3>3 DEF Remembers
    <3>4. CASE l \notin InTheBook
      <4>1. ~(SendOrder /\ Leg = l)
        BY <2>3 DEF SendOrder, HostInv, HostTypes
      <4>2. request'[l] = request[l] /\ filled'[l] = filled[l]
        BY <3>4, <4>1, RequestsStay, OnlySendingExposes DEF InTheBook
      <4>3. QED
        BY <2>2, <3>2, <4>2
    <3>5. QED
      BY <3>3, <3>4
  <2>4. CASE order'[l] # "absent"
    <3>1. request'[l].market => request'[l].side = "sell"
      BY <2>2, <2>4, OrdersAreAskedFor
    <3>2. CASE l \in InTheBook
      <4>1. request[l].market /\ order[l] # "absent"
        BY <1>2, <3>2 DEF Remembers, InTheBook
      <4>2. request'[l].market
        BY <2>2, <2>4, <4>1, OrdersAreAskedFor
      <4>3. QED
        BY <2>2, <3>1, <4>1, <4>2
    <3>3. CASE l \notin InTheBook /\ SendOrder /\ Leg = l
      <4>1. order[l] = "absent" /\ filled' = filled
        BY <3>3 DEF SendOrder, HostInv, ProcessInv
      <4>2. filled[l] = 0 /\ filled'[l] = 0
        BY <2>1, <4>1 DEF LegInv
      <4>3. QED
        BY <2>2, <3>1, <4>2
    <3>4. CASE l \notin InTheBook /\ ~(SendOrder /\ Leg = l)
      <4>1. request'[l] = request[l] /\ filled'[l] = filled[l]
        BY <3>4, RequestsStay, OnlySendingExposes DEF InTheBook
      <4>2. QED
        BY <2>2, <3>1, <4>1
    <3>5. QED
      BY <3>2, <3>3, <3>4
  <2>5. QED
    BY <2>3, <2>4
<1>3. ASSUME NEW l \in Legs
      PROVE  /\ SoldOf(Forgotten, l)' = SoldOf(Forgotten, l)
             /\ BoughtOf(Forgotten, l)' = BoughtOf(Forgotten, l)
  <2>1. CASE l \in Remembered
    BY <1>1, <2>1 DEF SoldOf, BoughtOf, Forgotten
  <2>2. CASE l \notin Remembered
    BY <1>1, <1>2, <2>2 DEF SoldOf, BoughtOf, Forgotten
  <2>3. QED
    BY <2>1, <2>2
<1>4. /\ [l \in Legs |-> SoldOf(Forgotten, l)]' = [l \in Legs |-> SoldOf(Forgotten, l)]
      /\ [l \in Legs |-> BoughtOf(Forgotten, l)]' = [l \in Legs |-> BoughtOf(Forgotten, l)]
  BY <1>3
<1>5. QED
  BY <1>4 DEF Sold, Bought

-----------------------------------------------------------------------------
(***************************************************************************)
(* What a grid that nothing disturbed knows of its orders.                 *)
(***************************************************************************)
\* Nothing is cancelled before the grid ends.
NothingCancelled == ~Over => cancelSent \union Cancelled = {}

\* Every order of the grid was accepted, or has still to be sent, or will be missed.
OrdersAreSent ==
  \A j \in DOMAIN state.working :
    LET l == state.working[j].id
    IN Over \/ intent[l] = "submitted" \/ (state.submitted /\ (lastError \/ l \in Due))

\* What it has learnt of an order is a sighting.
OrdersAreSpotted ==
  \A j \in DOMAIN state.working :
    LET o == state.working[j]
    IN o.seenOpen \/ o.missedChecks > 0 => Spotted(o.id)

\* The inventory is no more than what the orders it has forgotten have left.
Booked == state.inventory + Sold(Forgotten) <= Bought(Forgotten)

\* The ledger of a grid that nothing has disturbed.
CalmLedger == NothingCancelled /\ OrdersAreSent /\ OrdersAreSpotted /\ Remembers /\ Booked

\* The sells of a grid are funded, and while nothing disturbs it the inventory they are
\* funded with is what has really been traded.
GridLedger ==
  strategy = "grid" => Funds(state) /\ (disturbed = {} => CalmLedger)

\* What nothing has disturbed is calm, and was before.
LEMMA UndisturbedIsCalm ==
  ASSUME HostInv, HostNext \/ FailJob, disturbed' = {}
  PROVE  disturbed = {} /\ Calm /\ Calm'
BY ActionsAreUsedUp DEF Calm

\* The engine and Robinhood leave the ledger as it was.
LEMMA HostKeepsLedger ==
  ASSUME strategy = "grid", HostInv, CalmInv, GridHolds, GridAsks, GridLedger,
         HostNext \/ FailJob, disturbed' = {}
  PROVE  CalmLedger'
<1>1. disturbed = {} /\ Calm /\ Calm' /\ CalmLedger /\ state' = state
  BY UndisturbedIsCalm, ActionsAreUsedUp DEF GridLedger
<1>2. Over \/ FailJob => Over'
  BY <1>1, OverIsFinal
<1>3. NothingCancelled'
  <2>1. cancelSent' \union Cancelled' \subseteq cancelSent \union Cancelled
    BY ActionsAreUsedUp
  <2>2. QED
    BY <1>1, <1>2, <2>1 DEF NothingCancelled, CalmLedger
<1>4. OrdersAreSent'
  <2>1. SUFFICES ASSUME NEW j \in DOMAIN state.working
                 PROVE  \/ Over' \/ intent'[state.working[j].id] = "submitted"
                        \/ state.submitted /\ (lastError' \/ state.working[j].id \in Due')
    BY <1>1 DEF OrdersAreSent
  <2>2. PICK l \in Legs : l = state.working[j].id
    BY OrdersAreTyped
  <2>3. Over \/ intent[l] = "submitted" \/ (state.submitted /\ (lastError \/ l \in Due))
    BY <1>1, <2>2 DEF CalmLedger, OrdersAreSent
  <2>4. intent[l] = "submitted" => intent'[l] = "submitted"
    BY OrdersMoveOn DEF Onward
  <2>5. lastError \/ l \in Due => intent'[l] = "submitted" \/ lastError' \/ l \in Due' \/ Over'
    BY <1>1, DueIsSent
  <2>6. QED
    BY <1>2, <2>2, <2>3, <2>4, <2>5
<1>5. OrdersAreSpotted'
  <2>1. SUFFICES ASSUME NEW j \in DOMAIN state.working,
                        state.working[j].seenOpen \/ state.working[j].missedChecks > 0
                 PROVE  Spotted(state.working[j].id)'
    BY <1>1 DEF OrdersAreSpotted
  <2>2. PICK l \in Legs : l = state.working[j].id
    BY OrdersAreTyped
  <2>3. Spotted(l)
    BY <1>1, <2>1, <2>2 DEF CalmLedger, OrdersAreSpotted
  <2>4. Spotted(l)'
    BY <2>3, OrdersMoveOn, SpottedStays
  <2>5. QED
    BY <1>1, <2>2, <2>4 DEF Spotted
<1>6. Remembers'
  BY <1>1, HostKeepsRemembering DEF CalmLedger
<1>7. Booked'
  <2>1. Sold(Forgotten)' = Sold(Forgotten) /\ Bought(Forgotten)' = Bought(Forgotten)
    BY <1>1, ForgottenTradesNoMore DEF CalmLedger
  <2>2. QED
    BY <1>1, <2>1 DEF CalmLedger, Booked
<1>8. QED
  BY <1>3, <1>4, <1>5, <1>6, <1>7 DEF CalmLedger

\* A step that does not end a grid finds every order of it accepted.
LEMMA CalledIsAccepted ==
  ASSUME strategy = "grid", HostInv, CalmInv, GridLedger, disturbed = {}, pc = "called", ~Over,
         Due = {}, ~(state.submitted /\ row.lastError), NEW j \in DOMAIN state.working
  PROVE  intent[state.working[j].id] = "submitted"
<1>1. Calm
  BY DEF Calm
<1>2. row.lastError = lastError
  BY <1>1 DEF CalmInv
<1>3. QED
  BY <1>2 DEF GridLedger, CalmLedger, OrdersAreSent

\* A step that does not work changes nothing of the ledger, and cancels when it ends.
LEMMA StopKeepsLedger ==
  ASSUME strategy = "grid", HostInv, CalmInv, GridHolds, GridLedger, disturbed = {},
         pc = "called", NEW next, NEW acts, NEW ending, Stopping(next, acts, ending)
  PROVE  CalmLedger'
<1>1. /\ Stepped /\ state' = next /\ actions' = acts /\ done' = ending
      /\ ~Over /\ Due = {}
      /\ UNCHANGED <<intent, order, request, filled, cancelSent>> /\ InTheBook' = InTheBook
      /\ read' = read /\ next.working = state.working /\ next.inventory = state.inventory
  BY ReturnLeaves, ReturnIsStep DEF Stopping, ReadsNothing
<1>2. CalmLedger /\ (ending = NotDone => acts = <<>> /\ ~(state.submitted /\ row.lastError))
  BY DEF Stopping, GridLedger
<1>3. ending # NotDone => Over'
  BY <1>1 DEF Over
<1>4. Remembered' = Remembered
  BY <1>1 DEF Remembered
<1>5. NothingCancelled'
  <2>1. acts = <<>> => Cancelled' = {}
    BY <1>1 DEF Cancelled
  <2>2. QED
    BY <1>1, <1>2, <1>3, <2>1 DEF NothingCancelled, CalmLedger
<1>6. OrdersAreSent'
  <2>1. CASE ending # NotDone
    BY <1>3, <2>1 DEF OrdersAreSent
  <2>2. CASE ending = NotDone
    <3>1. \A j \in DOMAIN state.working : intent[state.working[j].id] = "submitted"
      BY <1>1, <1>2, <2>2, CalledIsAccepted
    <3>2. QED
      BY <1>1, <3>1 DEF OrdersAreSent
  <2>3. QED
    BY <2>1, <2>2
<1>7. OrdersAreSpotted'
  BY <1>1, <1>2 DEF OrdersAreSpotted, CalmLedger, Spotted
<1>8. Remembers'
  BY <1>1, <1>2, <1>4 DEF Remembers, CalmLedger
<1>9. Booked'
  <2>1. Sold(Forgotten)' = Sold(Forgotten) /\ Bought(Forgotten)' = Bought(Forgotten)
    BY <1>1, <1>4 DEF Sold, Bought, SoldOf, BoughtOf, Forgotten
  <2>2. QED
    BY <1>1, <1>2, <2>1 DEF Booked, CalmLedger
<1>10. QED
  BY <1>5, <1>6, <1>7, <1>8, <1>9 DEF CalmLedger

\* An order of such a grid that a step takes for closed has traded in full.
LEMMA ClosedIsFilled ==
  ASSUME strategy = "grid", HostInv, GridHolds, GridAsks, GridLedger, disturbed = {}, ~Over,
         NEW listing \in Listings, NEW j \in DOMAIN state.working,
         Closes(state.working, listing, j), NEW l, l = state.working[j].id
  PROVE  /\ order[l] = "filled" /\ filled[l] = QuantityPerGrid
         /\ request[l] = Limit(state.working[j].side, QuantityPerGrid, state.working[j].level)
<1>1. l \in Legs /\ LegInv(l)
  BY OrdersAreTyped DEF HostInv
<1>2. l \notin listing /\ Spotted(l)
  BY ClosedIsMissed DEF GridLedger, CalmLedger, OrdersAreSpotted
<1>3. order[l] \in {"filled", "cancelled"}
  BY <1>1, <1>2, MissingIsClosed
<1>4. cancelSent = {}
  BY DEF GridLedger, CalmLedger, NothingCancelled
<1>5. order[l] = "filled"
  BY <1>1, <1>3, <1>4 DEF LegInv
<1>6. request[l] = Limit(state.working[j].side, QuantityPerGrid, state.working[j].level)
  BY <1>1, <1>5 DEF GridAsks, Fits
<1>7. filled[l] = request[l].size
  BY <1>1, <1>5 DEF LegInv
<1>8. QED
  BY <1>5, <1>6, <1>7 DEF Limit

\* What a step that works forgets is what it has settled, and the new orders have traded
\* nothing.
LEMMA SettledIsForgotten ==
  ASSUME HostInv, GridHolds, NEW listing, NEW credit, NEW next, NEW acts,
         Fate(state.working, listing, credit, next, acts), NEW N \in Nat,
         N = Len(state.working), state' = next, filled' = filled, request' = request
  PROVE  /\ Sold(Forgotten)' = Sold(Settled(state.working, listing, N))
         /\ Bought(Forgotten)' = Bought(Settled(state.working, listing, N))
<1>1. PICK w \in Seq(GridOrder) : w = state.working /\ DOMAIN w = 1 .. N
  BY DEF GridHolds, GridState
<1>2. PICK F : F = Settled(w, listing, N)
  OBVIOUS
<1>3. ASSUME NEW l \in Legs, l \in Remembered', l \in Remembered
      PROVE  l \notin F \/ intent[l] = "none"
  <2>1. PICK i \in DOMAIN next.working : l = next.working[i].id
    BY <1>3 DEF Remembered
  <2>2. \/ intent[l] = "none"
        \/ \E j \in DOMAIN w : ~Closes(w, listing, j) /\ l = w[j].id
    BY <1>1, <2>1, WorkRemembers
  <2>3. ASSUME NEW j \in DOMAIN w, ~Closes(w, listing, j), l = w[j].id PROVE l \notin F
    <3>1. \A k \in DOMAIN w : w[k].id = l => k = j
      BY <1>1, <2>3 DEF GridHolds, OneEach
    <3>2. QED
      BY <1>1, <1>2, <1>3, <2>3, <3>1 DEF Settled, Forgotten
  <2>4. QED
    BY <2>2, <2>3
<1>4. ASSUME NEW l \in Legs, l \in Remembered', l \notin Remembered
      PROVE  intent[l] = "none"
  <2>1. PICK i \in DOMAIN next.working : l = next.working[i].id
    BY <1>4 DEF Remembered
  <2>2. \/ intent[l] = "none"
        \/ \E j \in DOMAIN state.working : l = state.working[j].id
    BY <2>1, WorkRemembers
  <2>3. QED
    BY <1>4, <2>2 DEF Remembered
<1>5. ASSUME NEW l \in Legs, l \notin Remembered' PROVE l \in F
  <2>1. CASE l \notin Remembered
    BY <1>2, <2>1 DEF Settled, Forgotten
  <2>2. CASE l \in Remembered
    <3>1. PICK j \in DOMAIN w : l = w[j].id
      BY <1>1, <2>2 DEF Remembered
    <3>2. Closes(w, listing, j)
      <4>1. SUFFICES ASSUME ~Closes(w, listing, j) PROVE FALSE
        OBVIOUS
      <4>2. PICK i \in DOMAIN next.working : next.working[i] = SeenAt(w, listing, j)
        BY <1>1, <4>1 DEF Fate
      <4>3. PICK was, seen : /\ was \in GridOrder /\ was = w[j]
                             /\ seen = Observe(was, was.id \in listing)
        OBVIOUS
      <4>4. seen.id = l
        BY <3>1, <4>3, GridLearns
      <4>5. l \in Remembered'
        BY <4>2, <4>3, <4>4 DEF Remembered, SeenAt
      <4>6. QED
        BY <1>5, <4>5
    <3>3. QED
      BY <1>1, <1>2, <3>1, <3>2 DEF Settled
  <2>3. QED
    BY <2>1, <2>2
<1>6. ASSUME NEW l \in Legs
      PROVE  filled[l] = 0 \/ (l \in Forgotten' <=> l \in F)
  <2>1. intent[l] = "none" => filled[l] = 0
    BY DEF HostInv, LegInv
  <2>2. QED
    BY <1>3, <1>4, <1>5, <2>1 DEF Forgotten
<1>7. ASSUME NEW l \in Legs
      PROVE  SoldOf(Forgotten, l)' = SoldOf(F, l) /\ BoughtOf(Forgotten, l)' = BoughtOf(F, l)
  BY <1>6 DEF SoldOf, BoughtOf
<1>8. /\ [l \in Legs |-> SoldOf(Forgotten, l)]' = [l \in Legs |-> SoldOf(F, l)]
      /\ [l \in Legs |-> BoughtOf(Forgotten, l)]' = [l \in Legs |-> BoughtOf(F, l)]
  BY <1>7
<1>9. QED
  BY <1>1, <1>2, <1>8 DEF Sold, Bought

\* A step that works books what has really been traded.
LEMMA WorkKeepsLedger ==
  ASSUME strategy = "grid", HostInv, CalmInv, GridHolds, GridAsks, GridLedger, disturbed = {},
         pc = "called", NEW listing, NEW credit, NEW queue, NEW placing, NEW next, NEW acts,
         Working(listing, credit, queue, placing, next, acts)
  PROVE  CalmLedger'
<1>1. /\ Stepped /\ state' = next /\ actions' = acts /\ done' = NotDone
      /\ ~Over /\ Due = {}
      /\ UNCHANGED <<intent, order, request, filled, cancelSent>> /\ InTheBook' = InTheBook
  BY ReturnLeaves, ReturnIsStep DEF Working
<1>2. /\ listing \in Listings /\ Reads(listing) /\ ~(state.submitted /\ row.lastError)
      /\ Fate(state.working, listing, credit, next, acts)
      /\ next.submitted <=> acts # <<>>
      /\ CalmLedger /\ Funds(state)
  BY WorkingIs DEF Working, GridLedger
<1>3. \A j \in DOMAIN state.working : intent[state.working[j].id] = "submitted"
  BY <1>1, <1>2, CalledIsAccepted
<1>4. NothingCancelled'
  <2>1. \A i \in DOMAIN acts : acts[i].type = "submit"
    BY <1>2 DEF Fate, GridSubmit, Submit
  <2>2. Cancelled' = {}
    BY <1>1, <2>1 DEF Cancelled
  <2>3. QED
    BY <1>1, <1>2, <2>2 DEF NothingCancelled, CalmLedger
<1>5. ASSUME NEW i \in DOMAIN next.working, NEW o, o = next.working[i]
      PROVE  /\ intent[o.id] = "submitted" \/ (next.submitted /\ o.id \in Due')
             /\ o.seenOpen \/ o.missedChecks > 0 => Spotted(o.id)'
  <2>1. CASE /\ o.id \in Legs \ Remembered /\ ~o.seenOpen /\ o.missedChecks = 0
             /\ \E k \in DOMAIN acts : acts[k] = GridSubmit(o)
    <3>1. PICK k \in DOMAIN acts : acts[k] = GridSubmit(o)
      BY <2>1
    <3>2. acts[k].type = "submit" /\ acts[k].leg = o.id
      BY <3>1 DEF GridSubmit, Submit
    <3>3. acts # <<>>
      <4>1. DOMAIN <<>> = {}
        OBVIOUS
      <4>2. QED
        BY <4>1
    <3>4. QED
      BY <1>1, <1>2, <2>1, <3>2, <3>3 DEF Due
  <2>2. CASE \E j \in DOMAIN state.working : o.id = state.working[j].id
    <3>1. PICK j \in DOMAIN state.working : o.id = state.working[j].id
      BY <2>2
    <3>2. PICK l \in Legs : l = o.id
      BY <3>1, OrdersAreTyped
    <3>3. intent[l] = "submitted"
      BY <1>3, <3>1, <3>2
    <3>4. Spotted(l)'
      BY <1>1, <1>2, <3>3, ReadingSpots
    <3>5. QED
      BY <3>2, <3>3, <3>4
  <2>3. QED
    BY <1>2, <1>5, <2>1, <2>2, WorkRemembers
<1>6. OrdersAreSent'
  BY <1>1, <1>5 DEF OrdersAreSent
<1>7. OrdersAreSpotted'
  <2>1. SUFFICES ASSUME NEW i \in DOMAIN next.working,
                        next.working[i].seenOpen \/ next.working[i].missedChecks > 0
                 PROVE  Spotted(next.working[i].id)'
    BY <1>1 DEF OrdersAreSpotted
  <2>2. QED
    BY <1>5, <2>1
<1>8. ASSUME NEW j \in DOMAIN state.working, Closes(state.working, listing, j),
             NEW l, l = state.working[j].id
      PROVE  /\ l \notin InTheBook /\ filled[l] = QuantityPerGrid
             /\ credit[l] = QuantityPerGrid
             /\ request[l].side = state.working[j].side /\ ~request[l].market
  <2>1. /\ order[l] = "filled" /\ filled[l] = QuantityPerGrid
        /\ request[l] = Limit(state.working[j].side, QuantityPerGrid, state.working[j].level)
    BY <1>1, <1>2, <1>8, ClosedIsFilled
  <2>2. credit[l] \in Credits(l, QuantityPerGrid, SeenAt(state.working, listing, j).seenOpen)
    BY <1>8 DEF Working
  <2>3. credit[l] \in {filled[l], QuantityPerGrid}
    BY <2>2 DEF Credits
  <2>4. QED
    BY <2>1, <2>3 DEF InTheBook, Limit
<1>9. Remembers'
  BY <1>1, <1>2, <1>8, ForgetsOnlyClosed DEF CalmLedger
<1>10. Booked'
  <2>1. Exact(state.working, listing, credit)
    BY <1>8 DEF Exact
  <2>2. PICK N \in Nat : N = Len(state.working)
    <3>1. state.working \in Seq(GridOrder)
      BY DEF GridHolds, GridState
    <3>2. QED
      BY <3>1
  <2>3. BookedAt(state.working, listing, N, next.inventory)
    BY <1>2, <2>1, <2>2, WorkIsFunded DEF CalmLedger, Booked
  <2>4. /\ Sold(Forgotten)' = Sold(Settled(state.working, listing, N))
        /\ Bought(Forgotten)' = Bought(Settled(state.working, listing, N))
    BY <1>1, <1>2, <2>2, SettledIsForgotten
  <2>5. QED
    BY <1>1, <2>3, <2>4 DEF Booked, BookedAt
<1>11. QED
  BY <1>4, <1>6, <1>7, <1>9, <1>10 DEF CalmLedger

\* The ledger of a grid, with what it rests on.
GridFunded ==
  strategy = "grid" => HostInv /\ CalmInv /\ GridHolds /\ GridAsks /\ GridLedger

\* A job begins with an empty ledger.
LEMMA FundedBegins == Init => GridFunded
<1> SUFFICES ASSUME Init, strategy = "grid"
             PROVE  HostInv /\ CalmInv /\ GridHolds /\ GridAsks /\ GridLedger
  BY DEF GridFunded
<1>1. HostInv /\ CalmInv /\ GridHolds /\ GridAsks
  BY BookBegins DEF GridBook
<1>2. /\ actions = <<>> /\ state.working = <<>> /\ state.inventory = 0 /\ cancelSent = {}
      /\ \A l \in Legs : order[l] = "absent" /\ filled[l] = 0
  BY DEF Init, HostInit, GridInit
<1>3. DOMAIN <<>> = {}
  OBVIOUS
<1>4. Funds(state)
  <2>1. SellsResting(state.working) = {}
    BY <1>2, <1>3 DEF SellsResting
  <2>2. Cardinality(SellsResting(state.working)) = 0
    BY <2>1, FS_EmptySet
  <2>3. QED
    BY <1>2, <2>2, GridAssumption DEF Funds, GridAssumption
<1>5. NothingCancelled /\ OrdersAreSent /\ OrdersAreSpotted /\ Remembers
  BY <1>2, <1>3
  DEF NothingCancelled, OrdersAreSent, OrdersAreSpotted, Remembers, Cancelled, InTheBook
<1>6. Booked
  <2>1. [l \in Legs |-> SoldOf(Forgotten, l)] = [l \in Legs |-> BoughtOf(Forgotten, l)]
    BY <1>2 DEF SoldOf, BoughtOf
  <2>2. Sold(Forgotten) = Bought(Forgotten) /\ Sold(Forgotten) \in Nat
    BY <1>1, <2>1, TradesAreTyped DEF Sold, Bought
  <2>3. QED
    BY <1>2, <2>2 DEF Booked
<1>7. QED
  BY <1>1, <1>4, <1>5, <1>6 DEF GridLedger, CalmLedger

\* Every step keeps the ledger.
LEMMA StepsKeepFunds ==
  ASSUME GridFunded, [Next]_makerVars
  PROVE  GridFunded'
<1>1. strategy' = strategy
  BY StrategyIsFixed
<1> SUFFICES ASSUME strategy = "grid"
             PROVE  (HostInv /\ CalmInv /\ GridHolds /\ GridAsks /\ GridLedger)'
  BY <1>1 DEF GridFunded
<1>2. HostInv /\ CalmInv /\ GridHolds /\ GridAsks /\ GridLedger
  BY DEF GridFunded
<1>3. (HostInv /\ CalmInv /\ GridHolds /\ GridAsks)'
  BY <1>1, <1>2, GridKeepsShape, GridKeepsAsking DEF GridShape
<1>4. CASE HostNext \/ FailJob
  <2>1. state' = state
    BY <1>2, <1>4, ActionsAreUsedUp
  <2>2. Funds(state)'
    BY <1>2, <2>1 DEF GridLedger, Funds
  <2>3. disturbed' = {} => CalmLedger'
    BY <1>2, <1>4, HostKeepsLedger
  <2>4. QED
    BY <1>3, <2>2, <2>3 DEF GridLedger
<1>5. CASE UNCHANGED hostVars
  <2>1. UNCHANGED <<state, actions, done, status, lastError, order, request, filled, intent,
                    read, cancelSent, disturbed>>
    BY <1>5 DEF hostVars, database, memory, upstream, history
  <2>2. Remembered' = Remembered /\ Over' = Over /\ Due' = Due /\ Cancelled' = Cancelled
        /\ InTheBook' = InTheBook
    BY <2>1 DEF Remembered, Over, Due, Cancelled, InTheBook
  <2>3. Sold(Forgotten)' = Sold(Forgotten) /\ Bought(Forgotten)' = Bought(Forgotten)
    BY <2>1, <2>2 DEF Sold, Bought, SoldOf, BoughtOf, Forgotten
  <2>4. Funds(state)'
    BY <1>2, <2>1 DEF GridLedger, Funds
  <2>5. CalmLedger => CalmLedger'
    BY <2>1, <2>2, <2>3
    DEF CalmLedger, NothingCancelled, OrdersAreSent, OrdersAreSpotted, Spotted, Remembers, Booked
  <2>6. QED
    BY <1>2, <1>3, <2>1, <2>4, <2>5 DEF GridLedger
<1>6. ASSUME pc = "called", NEW next, NEW acts, NEW ending, Stopping(next, acts, ending)
      PROVE  Funds(state)' /\ (disturbed' = {} => CalmLedger')
  <2>1. /\ state' = next /\ disturbed' = disturbed
        /\ next.working = state.working /\ next.inventory = state.inventory
    BY <1>2, <1>6, ReturnLeaves DEF Stopping
  <2>2. Funds(state)'
    BY <1>2, <2>1 DEF GridLedger, Funds
  <2>3. QED
    BY <1>2, <1>6, <2>1, <2>2, StopKeepsLedger
<1>7. ASSUME pc = "called", NEW listing, NEW credit, NEW queue, NEW placing, NEW next, NEW acts,
             Working(listing, credit, queue, placing, next, acts)
      PROVE  Funds(state)' /\ (disturbed' = {} => CalmLedger')
  <2>1. state' = next /\ disturbed' = disturbed
    BY <1>2, <1>7, ReturnLeaves DEF Working
  <2>2. Funds(next)
    BY <1>2, <1>7, WorkIsFunded DEF GridLedger
  <2>3. Funds(state)'
    BY <2>1, <2>2 DEF Funds
  <2>4. QED
    BY <1>2, <1>7, <2>1, <2>3, WorkKeepsLedger
<1>8. QED
  BY <1>2, <1>3, <1>4, <1>5, <1>6, <1>7, GridSteps DEF GridLedger

\* What the limit sells expose is within what the forgotten ones have traded and what the
\* remembered ones were promised.
LEMMA SellsAreCovered ==
  ASSUME strategy = "grid", HostInv, GridHolds, GridAsks, Remembers, Funds(state)
  PROVE  Exposed(LimitSells) <= Sold(Forgotten) + state.inventory
<1>1. IsFiniteSet(Legs) /\ \A l \in Legs : LegInv(l) /\ request[l] \in Request /\ filled[l] \in Nat
  BY StrategyHostAssumption DEF StrategyHostAssumption, HostInv, HostTypes
<1>2. PICK w \in Seq(GridOrder) : w = state.working
  BY DEF GridHolds, GridState
<1>3. PICK e, s : e = [l \in Legs |-> Exposure(l)] /\ s = [l \in Legs |-> SoldOf(Forgotten, l)]
  OBVIOUS
<1>4. \A l \in Legs : e[l] \in Nat /\ s[l] \in Nat
  BY <1>3, SumsAreTyped, TradesAreTyped
<1>5. PICK q \in Nat : q = QuantityPerGrid
  BY GridAssumption DEF GridAssumption
<1>6. PICK A, B, C, D :
        /\ A = LimitSells \ Remembered
        /\ B = {l \in LimitSells \cap Remembered : order[l] # "absent"}
        /\ C = {l \in LimitSells \cap Remembered : order[l] = "absent"}
        /\ D = Legs \ A
  OBVIOUS
<1>7. /\ A \in SUBSET Legs /\ B \in SUBSET Legs /\ C \in SUBSET Legs /\ D \in SUBSET Legs
      /\ LimitSells = A \cup (B \cup C) /\ A \cap (B \cup C) = {} /\ B \cap C = {}
      /\ Legs = A \cup D /\ A \cap D = {}
  BY <1>6 DEF LimitSells, Buys
<1>8. /\ IsFiniteSet(A) /\ IsFiniteSet(B) /\ IsFiniteSet(C) /\ IsFiniteSet(D)
      /\ IsFiniteSet(B \cup C)
  BY <1>1, <1>7, FS_Subset
<1>9. PICK m, n, k, d, b :
        /\ m = SumFunctionOnSet(e, LimitSells) /\ n = SumFunctionOnSet(e, A)
        /\ k = SumFunctionOnSet(e, B) /\ d = SumFunctionOnSet(e, C)
        /\ b = SumFunctionOnSet(e, B \cup C)
  OBVIOUS
<1>10. m \in Nat /\ n \in Nat /\ k \in Nat /\ d \in Nat /\ b \in Nat
  <2>1. n \in Nat /\ k \in Nat /\ d \in Nat /\ b \in Nat
    BY <1>4, <1>7, <1>8, <1>9, SumType
  <2>2. m = n + b
    BY <1>4, <1>7, <1>8, <1>9, SumSplit
  <2>3. QED
    BY <2>1, <2>2
<1>11. m = n + b /\ b = k + d
  BY <1>4, <1>7, <1>8, <1>9, SumSplit
<1>12. n <= Sold(Forgotten)
  <2>1. ASSUME NEW l \in A PROVE e[l] = s[l]
    <3>1. l \in Legs \ Remembered /\ request[l].side = "sell" /\ ~request[l].market
      BY <1>1, <1>6, <2>1 DEF LimitSells, Buys, Request, Sides
    <3>2. l \notin InTheBook
      BY <3>1 DEF Remembers
    <3>3. QED
      BY <1>3, <3>1, <3>2 DEF Exposure, SoldOf, Forgotten
  <2>2. n = SumFunctionOnSet(s, A)
    BY <1>8, <1>9, <2>1, SumEqual
  <2>3. PICK x, y : x = SumFunctionOnSet(s, A) /\ y = SumFunctionOnSet(s, D)
    OBVIOUS
  <2>4. x \in Nat /\ y \in Nat
    BY <1>4, <1>7, <1>8, <2>3, SumType
  <2>5. SumFunctionOnSet(s, Legs) = x + y
    BY <1>4, <1>7, <1>8, <2>3, SumSplit
  <2>6. Sold(Forgotten) = x + y
    BY <1>3, <2>5 DEF Sold
  <2>7. QED
    BY <2>2, <2>3, <2>4, <2>6
<1>13. d = 0
  <2>1. \A l \in C : e[l] \in 0 .. 0
    BY <1>1, <1>3, <1>6, <1>7 DEF Exposure, InTheBook, LegInv
  <2>2. d <= Cardinality(C) * 0
    BY <1>8, <1>9, <2>1, SumBound
  <2>3. Cardinality(C) \in Nat
    BY <1>8, FS_CardinalityType
  <2>4. QED
    BY <1>10, <2>2, <2>3
<1>14. k <= state.inventory
  <2>1. ASSUME NEW l \in B
        PROVE  /\ e[l] \in 0 .. q
               /\ \E j \in DOMAIN w : w[j].id = l /\ w[j].side = "sell"
    <3>1. PICK j \in DOMAIN w : w[j].id = l
      BY <1>2, <1>6, <2>1 DEF Remembered
    <3>2. request[l] = Limit(w[j].side, q, w[j].level)
      BY <1>2, <1>5, <1>6, <1>7, <2>1, <3>1 DEF GridAsks, Fits
    <3>3. request[l].size = q /\ request[l].side = w[j].side
      BY <3>2 DEF Limit
    <3>4. w[j].side = "sell"
      <4>1. request[l].side # "buy"
        BY <1>6, <1>7, <2>1 DEF LimitSells, Buys
      <4>2. request[l].side \in Sides
        BY <1>1, <1>7, <2>1 DEF Request
      <4>3. QED
        BY <3>3, <4>1, <4>2, SMTT(30) DEF Sides
    <3>5. e[l] = request[l].size \/ e[l] = filled[l]
      BY <1>3, <1>7, <2>1 DEF Exposure
    <3>6. filled[l] <= request[l].size /\ filled[l] \in Nat
      BY <1>1, <1>7, <2>1 DEF LegInv
    <3>7. QED
      BY <1>5, <3>1, <3>3, <3>4, <3>5, <3>6
  <2>2. PICK S : S = SellsResting(w)
    OBVIOUS
  <2>3. PICK f : f = [l \in B |-> CHOOSE j \in DOMAIN w : w[j].id = l /\ w[j].side = "sell"]
    OBVIOUS
  <2>4. ASSUME NEW l \in B PROVE f[l] \in S /\ w[f[l]].id = l
    BY <2>1, <2>2, <2>3 DEF SellsResting
  <2>5. f \in Injection(B, S)
    <3>1. f \in [B -> S]
      BY <2>3, <2>4
    <3>2. \A x, y \in B : f[x] = f[y] => x = y
      BY <2>4
    <3>3. QED
      BY <3>1, <3>2 DEF Injection, IsInjective
  <2>6. IsFiniteSet(S) /\ Cardinality(S) \in Nat
    BY <2>2, SellsAreCounted
  <2>7. Cardinality(B) <= Cardinality(S)
    BY <2>5, <2>6, FS_Injection
  <2>8. Cardinality(B) \in Nat
    BY <1>8, FS_CardinalityType
  <2>9. k <= Cardinality(B) * q
    BY <1>5, <1>8, <1>9, <2>1, SumBound
  <2>10. PICK u, v \in Nat : u = Cardinality(B) /\ v = Cardinality(S) /\ u <= v
    BY <2>6, <2>7, <2>8
  <2>11. q * v <= state.inventory
    BY <1>2, <1>5, <2>2, <2>10 DEF Funds
  <2>12. u * q \in Nat /\ q * v \in Nat /\ u * q <= q * v
    BY <1>5, <2>10
  <2>13. state.inventory \in Nat
    BY DEF GridHolds, GridState
  <2>14. QED
    BY <1>10, <2>9, <2>10, <2>11, <2>12, <2>13
<1>15. Exposed(LimitSells) = m
  BY <1>3, <1>9 DEF Exposed
<1>16. Sold(Forgotten) \in Nat /\ state.inventory \in Nat
  BY TradesAreTyped DEF GridHolds, GridState
<1>17. QED
  BY <1>10, <1>11, <1>12, <1>13, <1>14, <1>15, <1>16

\* What the forgotten buys have traded, the buys have traded.
LEMMA BoughtIsTraded ==
  ASSUME HostInv
  PROVE  Bought(Forgotten) <= Traded(Buys) /\ Traded(Buys) \in Nat
<1>1. PICK b, D : b = [l \in Legs |-> BoughtOf(Forgotten, l)] /\ D = Legs \ Buys
  OBVIOUS
<1>2. /\ Buys \in SUBSET Legs /\ D \in SUBSET Legs /\ Legs = Buys \cup D /\ Buys \cap D = {}
      /\ IsFiniteSet(Legs)
  BY <1>1, TradesAreTyped DEF Buys
<1>3. IsFiniteSet(Buys) /\ IsFiniteSet(D)
  BY <1>2, FS_Subset
<1>4. \A l \in Legs : b[l] \in Nat /\ filled[l] \in Nat
  BY <1>1, TradesAreTyped
<1>5. \A l \in Legs : b[l] <= filled[l]
  BY <1>1, <1>4 DEF BoughtOf
<1>6. \A l \in D : b[l] \in 0 .. 0
  BY <1>1 DEF BoughtOf, Buys
<1>7. PICK x, y, z :
        /\ x = SumFunctionOnSet(b, Buys) /\ y = SumFunctionOnSet(b, D)
        /\ z = SumFunctionOnSet(filled, Buys)
  OBVIOUS
<1>8. x \in Nat /\ y \in Nat /\ z \in Nat
  BY <1>2, <1>3, <1>4, <1>7, SumType
<1>9. x <= z
  BY <1>2, <1>3, <1>4, <1>5, <1>7, SumMonotone
<1>10. y = 0
  <2>1. y <= Cardinality(D) * 0
    BY <1>3, <1>6, <1>7, SumBound
  <2>2. Cardinality(D) \in Nat
    BY <1>3, FS_CardinalityType
  <2>3. QED
    BY <1>8, <2>1, <2>2
<1>11. SumFunctionOnSet(b, Legs) = x + y
  BY <1>2, <1>3, <1>4, <1>7, SumSplit
<1>12. Bought(Forgotten) = x + y
  BY <1>1, <1>11 DEF Bought
<1>13. Traded(Buys) = z
  BY <1>7 DEF Traded
<1>14. QED
  BY <1>8, <1>9, <1>10, <1>12, <1>13

\* For any number of levels, ids and units, the limit sells of a grid, filled and resting,
\* never exceed what its buys have traded, if no process died, no halt came and no order was
\* cancelled from outside: whatever is refused, goes unanswered or cannot be read.
THEOREM LimitSellsAreFunded == Spec => []SellsAreFunded
<1>1. GridFunded => SellsAreFunded
  <2>1. SUFFICES ASSUME GridFunded, strategy = "grid", disturbed = {}
                 PROVE  Exposed(LimitSells) <= Traded(Buys)
    BY DEF SellsAreFunded
  <2>2. HostInv /\ GridHolds /\ GridAsks /\ Funds(state) /\ Remembers /\ Booked
    BY <2>1 DEF GridFunded, GridLedger, CalmLedger
  <2>3. Exposed(LimitSells) <= Sold(Forgotten) + state.inventory
    BY <2>1, <2>2, SellsAreCovered
  <2>4. Bought(Forgotten) <= Traded(Buys) /\ Traded(Buys) \in Nat
    BY <2>2, BoughtIsTraded
  <2>5. state.inventory + Sold(Forgotten) <= Bought(Forgotten)
    BY <2>2 DEF Booked
  <2>6. /\ Exposed(LimitSells) \in Nat /\ Sold(Forgotten) \in Nat
        /\ Bought(Forgotten) \in Nat /\ state.inventory \in Nat
    BY <2>2, TradesAreTyped, SumsAreTyped DEF GridHolds, GridState, LimitSells
  <2>7. QED
    BY <2>3, <2>4, <2>5, <2>6
<1>2. GridFunded /\ [Next]_makerVars => GridFunded'
  BY StepsKeepFunds
<1>3. QED
  BY <1>1, <1>2, FundedBegins, PTL DEF Spec
=============================================================================
