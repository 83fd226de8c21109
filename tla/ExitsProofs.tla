---------------------------- MODULE ExitsProofs -----------------------------
(***************************************************************************)
(* Theorems about the exit strategies, for every finite set of client      *)
(* order ids, every number of crashes, every fault and every quote.        *)
(***************************************************************************)
EXTENDS Exits, HostProofs, FiniteSetTheorems

\* The actions of the exit strategies: orders for one unit, cancels of exits.
ExitAction ==
  {a \in Action : /\ a.type = "submit" => a.request.size = 1
                  /\ a.type = "cancel" => a.leg \in ExitLegs}

\* The state of the job has the type its strategy gives it.
StateTypes ==
  /\ strategy = "oco" => state \in OcoState
  /\ strategy = "bracket" => state \in BracketState
  /\ strategy = "trailing_stop" => state \in TrailingStopState

\* What the variables are, beyond what the engine asks of every strategy.
ExitTypes ==
  /\ strategy \in {"oco", "bracket", "trailing_stop"}
  /\ StateTypes
  /\ actions \in Seq(ExitAction) /\ Len(actions) <= 2
  /\ cancelSent \in SUBSET ExitLegs
  /\ \A l \in Legs : order[l] # "absent" => request[l].size = 1

\* A cancel of an exit is asked for, and accepted, only when the other exit has filled.
CancelsAreEarned ==
  \A l \in cancelSent \union Cancelled : order[Twin(l)] = "filled"

SeenIsSpotted(legs) ==
  \A l \in legs : state.legs[l].seenOpen => Spotted(l)

CountedIsSpotted(legs) ==
  \A l \in legs : state.legs[l].missedChecks > 0 => Spotted(l)

\* An OCO that watches has both legs at Robinhood, or will read that one is not; it fires
\* with one cancel to send, and completes once that cancel or a fill has closed the survivor.
OcoInv ==
  strategy = "oco" =>
    /\ SeenIsSpotted(ExitLegs)
    /\ state.phase = "cancelling" =>
         /\ state.filledBy \in ExitLegs /\ state.cancelAttempts > 0
         /\ state.legs[Twin(state.filledBy)].seenOpen
         /\ Due = {}
    /\ done.status = "completed" =>
         /\ state.phase = "cancelling"
         /\ order[Twin(state.filledBy)] \in {"filled", "cancelled"}
    /\ status = "completed" => state.phase = "cancelling"
    /\ state.phase # "cancelling" => cancelSent \union Cancelled = {}
    /\ state.phase = "cancelling" => cancelSent \union Cancelled \subseteq {Twin(state.filledBy)}
    /\ Calm /\ state.phase = "cancelling" =>
         \/ Twin(state.filledBy) \in cancelSent
         \/ /\ status # "completed" /\ done.status # "completed"
            /\ \/ actions # <<>> \/ lastError
               \/ done.status = "failed" \/ status \in {"failed", "cancelled"}
    /\ disturbed = {} =>
         /\ CountedIsSpotted(ExitLegs)
         /\ CancelsAreEarned
         /\ state.phase = "place" => Due = {}
         /\ state.phase = "monitor" => Placed(ExitLegs)
         /\ state.phase = "cancelling" => order[state.filledBy] = "filled"

\* A bracket that nothing disturbs has nothing out before its entry, its exits out once it
\* watches, and cancels one of them only as it ends.
BracketInv ==
  strategy = "bracket" /\ disturbed = {} =>
    /\ SeenIsSpotted(PairLegs) /\ CountedIsSpotted(PairLegs)
    /\ CancelsAreEarned
    /\ state.phase \in {"entry", "entry_fill"} =>
         \A l \in ExitLegs : order[l] = "absent" /\ l \notin Due
    /\ state.phase \in {"entry", "entry_fill", "exits"} => cancelSent \union Cancelled = {}
    /\ state.phase = "entry" => order["entry"] = "absent" /\ Due = {}
    /\ state.phase = "entry_fill" =>
         /\ Placed({"entry"})
         /\ \A i \in DOMAIN actions : actions[i].request = Entry(state.entryType)
         /\ order["entry"] # "absent" => request["entry"] = Entry(state.entryType)
    /\ state.phase \in {"exits", "monitor"} => order["entry"] = "filled"
    /\ state.phase = "monitor" =>
         /\ Placed(ExitLegs)
         /\ ~Over => cancelSent \union Cancelled = {}

\* The ids an order has been sent for, or has still to be.
Touched == {l \in Legs : order[l] # "absent" \/ l \in Due}

\* A trailing stop has no watermark before it is activated, cancels nothing, and has one
\* order at most, sent by the step it ends with.
TrailingInv ==
  strategy = "trailing_stop" =>
    /\ ~state.activated => state.watermark = NoPrice
    /\ cancelSent \union Cancelled = {}
    /\ disturbed = {} =>
         /\ ~Over => Due = {} /\ \A l \in Legs : order[l] = "absent"
         /\ \A k, l \in Touched : k = l

\* The inductive invariant.
IInv == HostInv /\ CalmInv /\ ExitTypes /\ OcoInv /\ BracketInv /\ TrailingInv

\* The two exits are each other's twin.
LEMMA TwoLegs ==
  /\ Twin("take_profit") = "stop" /\ Twin("stop") = "take_profit"
  /\ \A l \in ExitLegs : Twin(l) \in ExitLegs /\ Twin(l) # l /\ Twin(Twin(l)) = l
<1>1. Twin("take_profit") = "stop" /\ Twin("stop") = "take_profit"
  BY DEF Twin, ExitLegs
<1>2. QED
  BY <1>1 DEF ExitLegs

\* The orders of the exit strategies are for one unit.
LEMMA ExitActions ==
  /\ ExitAction \subseteq Sendable
  /\ \A l \in ExitLegs : Cancel(l) \in ExitAction /\ Submit(l, Exit) \in ExitAction
  /\ \A type \in {"market", "limit"} : Submit("entry", Entry(type)) \in ExitAction
  /\ \A l \in Legs, side \in Sides : Submit(l, Market(side, 1)) \in ExitAction
<1>1. ExitAction \subseteq Sendable
  BY DEF ExitAction, Sendable
<1>2. /\ Exit \in Request /\ NoRequest \in Request /\ \A type : Entry(type) \in Request
      /\ \A side \in Sides : Market(side, 1) \in Request
  BY DEF Exit, NoRequest, Entry, Limit, Market, Request, Sides
<1>3. "entry" \in Legs /\ ExitLegs \subseteq Legs
  BY ExitsAssumption DEF ExitsAssumption, PairLegs
<1>4. QED
  BY <1>1, <1>2, <1>3
  DEF ExitAction, Action, Cancel, Submit, Exit, Entry, Limit, Market

\* Every job of an exit strategy begins in the invariant.
LEMMA ExitsBegin == Init => IInv
<1> SUFFICES ASSUME Init PROVE IInv
  OBVIOUS
<1>1. strategy \in {"oco", "bracket", "trailing_stop"} /\ HostInv /\ CalmInv
  BY HostBegins, CalmBegins, ExitsAssumption DEF Init, ExitsAssumption
<1>2. /\ strategy = "oco" => OcoInit
      /\ strategy = "bracket" => BracketInit
      /\ strategy = "trailing_stop" => TrailingStopInit
  BY DEF Init
<1>3. NewLeg \in LegRecord
  BY DEF NewLeg, LegRecord, ABSENCE_GRACE_CHECKS
<1>4. StateTypes
  <2>1. ASSUME strategy = "oco" PROVE state \in OcoState
    <3>1. PICK sized \in BOOLEAN :
            state = [phase |-> "place", sized |-> sized, legs |-> [l \in ExitLegs |-> NewLeg],
                     filledBy |-> "none", cancelAttempts |-> 0, fresh |-> TRUE]
      BY <1>2, <2>1 DEF OcoInit
    <3>2. [l \in ExitLegs |-> NewLeg] \in [ExitLegs -> LegRecord]
      BY <1>3
    <3>3. QED
      BY <3>1, <3>2 DEF OcoState, MAX_CANCEL_ATTEMPTS
  <2>2. ASSUME strategy = "bracket" PROVE state \in BracketState
    <3>1. PICK type \in {"market", "limit"}, sized \in BOOLEAN :
            state = [phase |-> "entry", sized |-> sized, entryType |-> type,
                     legs |-> [l \in PairLegs |-> NewLeg], fresh |-> TRUE]
      BY <1>2, <2>2 DEF BracketInit
    <3>2. [l \in PairLegs |-> NewLeg] \in [PairLegs -> LegRecord]
      BY <1>3
    <3>3. QED
      BY <3>1, <3>2 DEF BracketState
  <2>3. ASSUME strategy = "trailing_stop" PROVE state \in TrailingStopState
    <3>1. PICK side \in {"sell", "buy"}, sized \in BOOLEAN, trail \in Trails,
               price \in ActivationPrices \union {NoPrice} :
            state = [side |-> side, sized |-> sized, trail |-> trail, activationPrice |-> price,
                     activated |-> price = NoPrice, watermark |-> NoPrice]
      BY <1>2, <2>3 DEF TrailingStopInit
    <3>2. (price = NoPrice) \in BOOLEAN
      OBVIOUS
    <3>3. PICK activated \in BOOLEAN : activated = (price = NoPrice)
      BY <3>2
    <3>4. NoPrice \in Prices \union {NoPrice}
      OBVIOUS
    <3>5. QED
      BY <3>1, <3>3, <3>4 DEF TrailingStopState
  <2>4. QED
    BY <2>1, <2>2, <2>3 DEF StateTypes
<1>5. Due = {} /\ Cancelled = {} /\ cancelSent = {} /\ done = NotDone /\ actions = <<>>
      /\ status = "pending" /\ \A l \in Legs : order[l] = "absent"
  BY DEF Init, HostInit, Due, Cancelled
<1>6. ExitTypes
  BY <1>1, <1>4, <1>5 DEF ExitTypes
<1>7. OcoInv
  BY <1>2, <1>5 DEF OcoInv, OcoInit, NewLeg, SeenIsSpotted, CountedIsSpotted, CancelsAreEarned,
                    NotDone
<1>8. BracketInv
  BY <1>2, <1>5, ExitsAssumption
  DEF BracketInv, BracketInit, NewLeg, SeenIsSpotted, CountedIsSpotted, CancelsAreEarned,
      ExitsAssumption, PairLegs
<1>9. TrailingInv
  BY <1>2, <1>5 DEF TrailingInv, TrailingStopInit, Touched
<1>10. QED
  BY <1>1, <1>6, <1>7, <1>8, <1>9 DEF IInv

\* Whatever the engine, Robinhood and the tools do between two steps keeps the types.
LEMMA HostKeepsExitTypes ==
  ASSUME IInv, HostNext \/ FailJob
  PROVE  ExitTypes'
<1> USE DEF IInv
<1>1. actions \in Seq(ExitAction) /\ Len(actions) <= 2
  BY DEF ExitTypes
<1>2. actions' \in Seq(ExitAction) /\ Len(actions') <= 2
  <2>1. <<>> \in Seq(ExitAction) /\ Len(<<>>) = 0
    OBVIOUS
  <2>2. actions # <<>> => Tail(actions) \in Seq(ExitAction) /\ Len(Tail(actions)) <= 2
    BY <1>1
  <2>3. \/ actions' = actions \/ actions' = <<>>
        \/ actions # <<>> /\ actions' = Tail(actions)
    BY ActionsAreUsedUp
  <2>4. CASE actions' = actions
    BY <1>1, <2>4
  <2>5. CASE actions' = <<>>
    BY <2>1, <2>5
  <2>6. CASE actions # <<>> /\ actions' = Tail(actions)
    BY <2>2, <2>6
  <2>7. QED
    BY <2>3, <2>4, <2>5, <2>6
<1>3. Cancelled \subseteq ExitLegs
  BY <1>1 DEF Cancelled, ExitAction
<1>4. cancelSent' \in SUBSET ExitLegs
  BY <1>3, ActionsAreUsedUp DEF ExitTypes
<1>5. \A l \in Legs : order'[l] # "absent" => request'[l].size = 1
  BY <1>1, OrdersAreAskedFor DEF ExitTypes, ExitAction
<1>6. strategy' = strategy /\ state' = state
  BY ActionsAreUsedUp
<1>7. QED
  BY <1>2, <1>4, <1>5, <1>6 DEF ExitTypes, StateTypes

\* It keeps what an OCO knows of its legs, and the cancel it has asked for.
LEMMA HostKeepsOco ==
  ASSUME IInv, HostNext \/ FailJob
  PROVE  OcoInv'
<1> USE DEF IInv
<1> SUFFICES ASSUME strategy = "oco" PROVE OcoInv'
  BY ActionsAreUsedUp DEF OcoInv
<1>0. /\ ExitLegs \subseteq Legs
      /\ state.phase \in {"place", "monitor", "cancelling"}
      /\ state' = state /\ strategy' = "oco"
  BY ExitsAssumption, ActionsAreUsedUp
  DEF ExitsAssumption, PairLegs, ExitTypes, StateTypes, OcoState
<1>1. SeenIsSpotted(ExitLegs)'
  BY <1>0, OrdersMoveOn, SpottedStays DEF OcoInv, SeenIsSpotted
<1>2. ASSUME state.phase = "cancelling"
      PROVE  /\ state.filledBy \in ExitLegs /\ state.cancelAttempts > 0
             /\ state.legs[Twin(state.filledBy)].seenOpen
             /\ Due = {} /\ Due' = {}
  BY <1>2, ActionsAreUsedUp DEF OcoInv
<1>3. ASSUME done'.status = "completed"
      PROVE  /\ state.phase = "cancelling"
             /\ order'[Twin(state.filledBy)] \in {"filled", "cancelled"}
  <2>1. done.status = "completed"
    BY <1>3, ActionsAreUsedUp DEF NotDone
  <2>2. state.phase = "cancelling" /\ order[Twin(state.filledBy)] \in {"filled", "cancelled"}
    BY <2>1 DEF OcoInv
  <2>3. Twin(state.filledBy) \in Legs
    BY <1>0, <1>2, <2>2, TwoLegs
  <2>4. QED
    BY <2>2, <2>3, OrdersMoveOn DEF Onward
<1>4. ASSUME status' = "completed" PROVE state.phase = "cancelling"
  BY <1>4, ActionsAreUsedUp DEF OcoInv
<1>5. /\ state.phase # "cancelling" => cancelSent' \union Cancelled' = {}
      /\ state.phase = "cancelling" =>
           cancelSent' \union Cancelled' \subseteq {Twin(state.filledBy)}
  BY <1>0, ActionsAreUsedUp DEF OcoInv
<1>6. ASSUME Calm', state.phase = "cancelling", Twin(state.filledBy) \notin cancelSent'
      PROVE  /\ status' # "completed" /\ done'.status # "completed"
             /\ \/ actions' # <<>> \/ lastError'
                \/ done'.status = "failed" \/ status' \in {"failed", "cancelled"}
  <2>1. Calm /\ Twin(state.filledBy) \notin cancelSent
    BY <1>6, ActionsAreUsedUp DEF Calm
  <2>2. /\ status # "completed" /\ done.status # "completed"
        /\ \/ actions # <<>> \/ lastError
           \/ done.status = "failed" \/ status \in {"failed", "cancelled"}
    BY <1>0, <1>6, <2>1 DEF OcoInv
  <2>3. status' # "completed" /\ done'.status # "completed"
    BY <2>2, ActionsAreUsedUp DEF NotDone
  <2>4. ASSUME UNCHANGED <<actions, lastError, done, status>>
        PROVE  \/ actions' # <<>> \/ lastError'
               \/ done'.status = "failed" \/ status' \in {"failed", "cancelled"}
    BY <2>2, <2>4
  <2>5. ASSUME actions # <<>>
        PROVE  Head(actions).type = "cancel"
    <3>1. 1 \in DOMAIN actions /\ actions[1] = Head(actions)
      BY <2>5 DEF HostInv, HostTypes
    <3>2. Head(actions).type # "submit"
      BY <1>2, <1>6, <2>5, <3>1, ActionsAreTyped DEF Due, Leg, HostInv
    <3>3. QED
      BY <2>5, <3>2, ActionsAreTyped DEF HostInv, Sendable, Action
  <2>6. CASE Tick
    BY <2>3, <2>4, <2>6 DEF Tick, database
  <2>7. CASE FailJob
    BY <2>3, <2>7 DEF FailJob
  <2>8. CASE EndAdvance
    BY <2>2, <2>8 DEF EndAdvance, HostInv, HostTypes, Endings, NotDone
  <2>9. CASE UpdateThrows
    <3>1. pc' = "down"
      BY <2>9 DEF UpdateThrows, Vanish
    <3>2. IsTerminal(status')
      BY <1>6, <2>9, <3>1, HostKeepsCalm DEF CalmInv, HostNext, Process
    <3>3. QED
      BY <2>3, <3>2 DEF IsTerminal, TerminalStatuses
  <2>10. CASE Crash
    BY <1>6, <2>10 DEF Crash, Calm
  <2>11. CASE Restart
    BY <2>3, <2>4, <2>11 DEF Restart
  <2>12. CASE Perform
    <3>1. CASE CancelOrder
      <4>1. Leg \in cancelSent' /\ cancelSent' \subseteq {Twin(state.filledBy)}
        BY <1>5, <1>6, <3>1 DEF CancelOrder
      <4>2. QED
        BY <1>6, <4>1
    <3>2. CASE CancelFails
      BY <2>3, <3>2 DEF CancelFails, ActionFailed
    <3>3. CASE RefuseOrder \/ ReserveIntent
      BY <2>5, <3>3 DEF RefuseOrder, ReserveIntent, Performing
    <3>4. CASE SendOrder \/ RefuseReserved \/ OrderRefused \/ AnswerLost \/ OrderAnswered
      BY <2>5, <3>4
      DEF SendOrder, RefuseReserved, OrderRefused, AnswerLost, OrderAnswered, HostInv, ProcessInv
    <3>5. QED
      BY <2>12, <3>1, <3>2, <3>3, <3>4 DEF Perform
  <2>13. CASE Robinhood
    BY <2>3, <2>4, <2>13
    DEF Robinhood, Judge, LoseRequest, Fill, CancelTakesEffect, CancelledOutside, Fills,
        OrderBecomes, database, memory
  <2>14. CASE Operator
    <3>1. ~Release
      BY <2>1 DEF CalmInv, Release
    <3>2. CASE Engage
      BY <1>6, <3>2 DEF Engage, Calm
    <3>3. CASE CancelJob
      BY <2>3, <3>3 DEF CancelJob
    <3>4. QED
      BY <2>14, <3>1, <3>2, <3>3 DEF Operator
  <2>15. QED
    BY <2>3, <2>6, <2>7, <2>8, <2>9, <2>10, <2>11, <2>12, <2>13, <2>14 DEF HostNext, Process
<1>7. ASSUME disturbed' = {}
      PROVE  /\ CountedIsSpotted(ExitLegs)'
             /\ CancelsAreEarned'
             /\ state.phase = "place" => Due' = {}
             /\ state.phase = "monitor" => Placed(ExitLegs)'
             /\ state.phase = "cancelling" => order'[state.filledBy] = "filled"
  <2>1. disturbed = {} /\ Calm'
    BY <1>7, ActionsAreUsedUp DEF Calm
  <2>2. CountedIsSpotted(ExitLegs)'
    BY <1>0, <2>1, OrdersMoveOn, SpottedStays DEF OcoInv, CountedIsSpotted
  <2>3. \A l \in Legs : order[l] = "filled" => order'[l] = "filled"
    BY OrdersMoveOn DEF Onward
  <2>4. CancelsAreEarned'
    <3>1. \A l \in cancelSent' \union Cancelled' : l \in ExitLegs /\ order[Twin(l)] = "filled"
      BY <1>0, <2>1, ActionsAreUsedUp DEF OcoInv, CancelsAreEarned, ExitTypes, Cancelled, ExitAction
    <3>2. QED
      BY <1>0, <2>3, <3>1, TwoLegs DEF CancelsAreEarned
  <2>5. state.phase = "monitor" => Placed(ExitLegs)'
    BY <1>0, <2>1, PlacedStays DEF OcoInv
  <2>6. state.phase = "cancelling" => order'[state.filledBy] = "filled"
    BY <1>0, <1>2, <2>1, <2>3 DEF OcoInv
  <2>7. state.phase = "place" => Due' = {}
    BY <2>1, ActionsAreUsedUp DEF OcoInv
  <2>8. QED
    BY <2>2, <2>4, <2>5, <2>6, <2>7
<1>8. QED
  BY <1>0, <1>1, <1>2, <1>3, <1>4, <1>5, <1>6, <1>7 DEF OcoInv

\* An order appears only where the step being performed had one to send.
LEMMA TouchedIsKept ==
  ASSUME HostInv, HostNext \/ FailJob
  PROVE  Touched' \subseteq Touched
<1>1. Due' \subseteq Due
  BY ActionsAreUsedUp
<1>2. ASSUME NEW l \in Legs, order'[l] # "absent" PROVE order[l] # "absent" \/ l \in Due
  BY <1>2, OrdersAreAskedFor DEF Due
<1>3. QED
  BY <1>1, <1>2 DEF Touched

\* It keeps what a bracket that nothing disturbs has reached.
LEMMA HostKeepsBracket ==
  ASSUME IInv, HostNext \/ FailJob
  PROVE  BracketInv'
<1> USE DEF IInv
<1> SUFFICES ASSUME strategy = "bracket", disturbed' = {} PROVE BracketInv'
  BY ActionsAreUsedUp DEF BracketInv
<1>0. /\ PairLegs \subseteq Legs /\ ExitLegs \subseteq Legs /\ "entry" \in Legs
      /\ disturbed = {} /\ Calm'
      /\ state' = state /\ strategy' = "bracket"
  BY ExitsAssumption, ActionsAreUsedUp DEF ExitsAssumption, PairLegs, Calm
<1>1. SeenIsSpotted(PairLegs)' /\ CountedIsSpotted(PairLegs)'
  BY <1>0, OrdersMoveOn, SpottedStays DEF BracketInv, SeenIsSpotted, CountedIsSpotted
<1>2. \A l \in Legs : order[l] = "filled" => order'[l] = "filled"
  BY OrdersMoveOn DEF Onward
<1>3. CancelsAreEarned'
  <2>1. \A l \in cancelSent' \union Cancelled' : l \in ExitLegs /\ order[Twin(l)] = "filled"
    BY <1>0, ActionsAreUsedUp
    DEF BracketInv, CancelsAreEarned, ExitTypes, Cancelled, ExitAction
  <2>2. QED
    BY <1>0, <1>2, <2>1, TwoLegs DEF CancelsAreEarned
<1>4. ASSUME NEW l \in Legs, order[l] = "absent", l \notin Due
      PROVE  order'[l] = "absent" /\ l \notin Due'
  BY <1>4, TouchedIsKept DEF Touched
<1>5. state.phase \in {"entry", "entry_fill"} =>
        \A l \in ExitLegs : order'[l] = "absent" /\ l \notin Due'
  BY <1>0, <1>4 DEF BracketInv
<1>6. state.phase \in {"entry", "entry_fill", "exits"} => cancelSent' \union Cancelled' = {}
  BY <1>0, ActionsAreUsedUp DEF BracketInv
<1>7. state.phase = "entry" => order'["entry"] = "absent" /\ Due' = {}
  BY <1>0, <1>4, ActionsAreUsedUp DEF BracketInv
<1>8. ASSUME state.phase = "entry_fill"
      PROVE  /\ Placed({"entry"})'
             /\ \A i \in DOMAIN actions' : actions'[i].request = Entry(state.entryType)
             /\ order'["entry"] # "absent" => request'["entry"] = Entry(state.entryType)
  <2>1. Placed({"entry"})'
    BY <1>0, <1>8, PlacedStays DEF BracketInv
  <2>2. \A i \in DOMAIN actions' : actions'[i].request = Entry(state.entryType)
    BY <1>0, <1>8, ActionsAreUsedUp, TailsAreParts DEF BracketInv
  <2>3. order'["entry"] # "absent" => request'["entry"] = Entry(state.entryType)
    BY <1>0, <1>8, OrdersAreAskedFor DEF BracketInv
  <2>4. QED
    BY <2>1, <2>2, <2>3
<1>9. state.phase \in {"exits", "monitor"} => order'["entry"] = "filled"
  BY <1>0, <1>2 DEF BracketInv
<1>10. ASSUME state.phase = "monitor"
       PROVE  Placed(ExitLegs)' /\ (~Over' => cancelSent' \union Cancelled' = {})
  <2>1. Placed(ExitLegs)'
    BY <1>0, <1>10, PlacedStays DEF BracketInv
  <2>2. Over => Over'
    BY <1>0, OverIsFinal
  <2>3. QED
    BY <1>0, <1>10, <2>1, <2>2, ActionsAreUsedUp DEF BracketInv
<1>11. QED
  BY <1>0, <1>1, <1>3, <1>5, <1>6, <1>7, <1>8, <1>9, <1>10 DEF BracketInv

\* And that a trailing stop has one id to send its exit under.
LEMMA HostKeepsTrailing ==
  ASSUME IInv, HostNext \/ FailJob
  PROVE  TrailingInv'
<1> USE DEF IInv
<1> SUFFICES ASSUME strategy = "trailing_stop" PROVE TrailingInv'
  BY ActionsAreUsedUp DEF TrailingInv
<1>1. state' = state /\ disturbed \subseteq disturbed'
  BY ActionsAreUsedUp
<1>2. cancelSent' \union Cancelled' = {}
  BY ActionsAreUsedUp DEF TrailingInv
<1>3. ASSUME disturbed' = {}
      PROVE  /\ ~Over' => Due' = {} /\ \A l \in Legs : order'[l] = "absent"
             /\ \A k, l \in Touched' : k = l
  <2>1. disturbed = {} /\ Calm'
    BY <1>1, <1>3 DEF Calm
  <2>2. Over => Over'
    BY <2>1, OverIsFinal
  <2>3. (Due = {} /\ \A l \in Legs : order[l] = "absent") <=> Touched = {}
    BY DEF Touched, Due
  <2>4. Touched' = {} => Due' = {} /\ \A l \in Legs : order'[l] = "absent"
    BY DEF Touched, Due
  <2>5. Touched' \subseteq Touched
    BY TouchedIsKept
  <2>6. QED
    BY <2>1, <2>2, <2>3, <2>4, <2>5 DEF TrailingInv
<1>4. QED
  BY <1>1, <1>2, <1>3 DEF TrailingInv

\* Whatever happens between two steps of an exit strategy keeps the invariant.
LEMMA HostKeepsExits ==
  ASSUME IInv, HostNext \/ FailJob
  PROVE  IInv'
BY HostKeepsHost, HostKeepsCalm, HostKeepsExitTypes, HostKeepsOco, HostKeepsBracket,
   HostKeepsTrailing
DEF IInv

-----------------------------------------------------------------------------
(***************************************************************************)
(* The steps of the strategies.                                            *)
(***************************************************************************)

\* What a reading of the open orders makes of a leg: one that is listed is seen, one
\* that is not is taken for closed if it had been seen, or missed before.
LEMMA ObserveLearns ==
  ASSUME NEW leg \in LegRecord, NEW l, NEW listing
  PROVE  /\ Observe(leg, l \in listing) \in LegRecord
         /\ leg.seenOpen => Observe(leg, l \in listing).seenOpen
         /\ Observe(leg, l \in listing).seenOpen => leg.seenOpen \/ l \in listing
<1>1. PICK seen \in BOOLEAN, n \in 0 .. ABSENCE_GRACE_CHECKS :
        leg = [seenOpen |-> seen, missedChecks |-> n]
  BY DEF LegRecord
<1>2. OneMore(n) \in 0 .. ABSENCE_GRACE_CHECKS
  BY DEF OneMore, ABSENCE_GRACE_CHECKS
<1>3. CASE l \in listing
  <2>1. Observe(leg, l \in listing) = [seenOpen |-> TRUE, missedChecks |-> 0]
    BY <1>1, <1>3 DEF Observe
  <2>2. [seenOpen |-> TRUE, missedChecks |-> 0] \in LegRecord
    BY DEF LegRecord, ABSENCE_GRACE_CHECKS
  <2>3. QED
    BY <1>3, <2>1, <2>2
<1>4. CASE l \notin listing
  <2>1. Observe(leg, l \in listing) = [seenOpen |-> seen, missedChecks |-> OneMore(n)]
    BY <1>1, <1>4 DEF Observe
  <2>2. QED
    BY <1>1, <1>2, <1>4, <2>1 DEF LegRecord
<1>5. QED
  BY <1>3, <1>4

\* A leg that is taken for closed is one that is not listed, and that had been seen,
\* or missed before, unless one reading without it is enough.
LEMMA ResolvedIsMissed ==
  ASSUME NEW leg \in LegRecord, NEW l, NEW listing, NEW grace \in {1, ABSENCE_GRACE_CHECKS},
         IsResolved(Observe(leg, l \in listing), grace)
  PROVE  /\ l \notin listing
         /\ leg.seenOpen \/ leg.missedChecks > 0 \/ grace = 1
<1>1. PICK seen \in BOOLEAN, n \in 0 .. ABSENCE_GRACE_CHECKS :
        leg = [seenOpen |-> seen, missedChecks |-> n]
  BY DEF LegRecord
<1>2. l \notin listing
  <2>1. SUFFICES ASSUME l \in listing PROVE FALSE
    OBVIOUS
  <2>2. Observe(leg, l \in listing) = [seenOpen |-> TRUE, missedChecks |-> 0]
    BY <1>1, <2>1 DEF Observe
  <2>3. ~IsResolved([seenOpen |-> TRUE, missedChecks |-> 0], grace)
    BY DEF IsResolved
  <2>4. QED
    BY <2>2, <2>3
<1>3. ASSUME ~seen, n = 0 PROVE grace = 1
  <2>1. Observe(leg, l \in listing) = [seenOpen |-> FALSE, missedChecks |-> 1]
    <3>1. OneMore(0) = 1
      BY DEF OneMore, ABSENCE_GRACE_CHECKS
    <3>2. seen = FALSE
      BY <1>3
    <3>3. leg = [seenOpen |-> FALSE, missedChecks |-> 0]
      BY <1>1, <1>3, <3>2, Zenon
    <3>4. QED
      BY <1>2, <3>1, <3>3 DEF Observe
  <2>2. QED
    BY <2>1 DEF IsResolved, ABSENCE_GRACE_CHECKS
<1>4. QED
  BY <1>1, <1>2, <1>3 DEF ABSENCE_GRACE_CHECKS

\* The engine takes what a step of a strategy gives back, and the strategy finds
\* nothing left of the step before.
LEMMA ReturnSteps ==
  ASSUME IInv, pc = "called", NEW newState, NEW newActions, NEW ending,
         Return(newState, newActions, ending)
  PROVE  /\ Stepped /\ state' = newState /\ actions' = newActions /\ done' = ending
         /\ ~Over /\ actions = <<>> /\ done = NotDone /\ Due = {} /\ Cancelled = {}
BY ReturnIsStep DEF IInv

\* A step that gives back what has its types keeps what does not depend on the strategy.
LEMMA StepKeepsExitTypes ==
  ASSUME IInv, Stepped, StateTypes', actions' \in Seq(ExitAction), Len(actions') <= 2,
         done' \in Endings, read' \in SUBSET Legs
  PROVE  HostInv' /\ CalmInv' /\ ExitTypes'
<1>1. actions' \in Seq(Sendable)
  BY ExitActions
<1>2. HostInv' /\ CalmInv'
  BY <1>1, StepKeepsHost, StepKeepsCalm DEF IInv
<1>3. ExitTypes'
  BY DEF IInv, ExitTypes, Stepped, upstream
<1>4. QED
  BY <1>2, <1>3

\* Every step of an OCO has its types.
LEMMA OcoStepIsTyped ==
  ASSUME IInv, OcoAdvance
  PROVE  HostInv' /\ CalmInv' /\ ExitTypes' /\ Stepped
<1>0. /\ strategy = "oco" /\ pc = "called" /\ state \in OcoState /\ HostInv
      /\ \A l \in ExitLegs : state.legs[l] \in LegRecord
      /\ state.cancelAttempts \in 0 .. MAX_CANCEL_ATTEMPTS
  BY DEF OcoAdvance, OcoRoundedToZero, OcoPlace, OcoLegRejected, OcoMonitor, OcoDoubleFill,
         OcoCancelling, OcoIn, Called, IInv, ExitTypes, StateTypes, OcoState
<1>1. SUFFICES Stepped /\ state' \in OcoState /\ actions' \in Seq(ExitAction)
               /\ Len(actions') <= 2 /\ done' \in Endings /\ read' \in SUBSET Legs
  <2>1. Stepped => strategy' = "oco"
    BY <1>0 DEF Stepped
  <2>2. QED
    BY <2>1, StepKeepsExitTypes DEF StateTypes
<1>2. ASSUME NEW newState \in OcoState, NEW newActions \in Seq(ExitAction), Len(newActions) <= 2,
             NEW ending \in Endings, Return(newState, newActions, ending),
             read' \in SUBSET Legs
      PROVE  Stepped /\ state' \in OcoState /\ actions' \in Seq(ExitAction)
             /\ Len(actions') <= 2 /\ done' \in Endings /\ read' \in SUBSET Legs
  BY <1>0, <1>2, ReturnSteps
<1>3. /\ <<>> \in Seq(ExitAction) /\ Len(<<>>) <= 2
      /\ \A l \in ExitLegs : <<Cancel(l)>> \in Seq(ExitAction) /\ Len(<<Cancel(l)>>) <= 2
      /\ <<Submit("take_profit", Exit), Submit("stop", Exit)>> \in Seq(ExitAction)
      /\ Len(<<Submit("take_profit", Exit), Submit("stop", Exit)>>) <= 2
  BY ExitActions DEF ExitLegs
<1>4. CASE OcoRoundedToZero \/ OcoLegRejected \/ OcoDoubleFill
  BY <1>0, <1>2, <1>3, <1>4, EndingsAreKnown, ReadingIsTyped
  DEF OcoRoundedToZero, OcoLegRejected, OcoDoubleFill
<1>5. CASE OcoPlace
  <2>1. [state EXCEPT !.phase = "monitor", !.fresh = TRUE] \in OcoState
    BY <1>0 DEF OcoState
  <2>2. QED
    BY <1>0, <1>2, <1>3, <1>5, <2>1, EndingsAreKnown, ReadingIsTyped DEF OcoPlace
<1>6. CASE OcoMonitor
  <2>1. PICK listing \in Listings :
          LET legs == Observed(listing)
              next == [state EXCEPT !.legs = legs, !.fresh = FALSE]
          IN /\ Reads(listing)
             /\ \/ \E ending \in {NotDone, Ending("failed", TRUE)} : Return(next, <<>>, ending)
                \/ \E gone \in ExitLegs :
                     Return([next EXCEPT !.phase = "cancelling", !.filledBy = gone,
                                         !.cancelAttempts = 1],
                            <<Cancel(Twin(gone))>>, NotDone)
    BY <1>6 DEF OcoMonitor, Firing
  <2>2. Observed(listing) \in [ExitLegs -> LegRecord]
    BY <1>0, ObserveLearns DEF Observed
  <2>3. [state EXCEPT !.legs = Observed(listing), !.fresh = FALSE] \in OcoState
    BY <1>0, <2>2 DEF OcoState
  <2>4. ASSUME NEW gone \in ExitLegs
        PROVE  [[state EXCEPT !.legs = Observed(listing), !.fresh = FALSE]
                  EXCEPT !.phase = "cancelling", !.filledBy = gone, !.cancelAttempts = 1]
                 \in OcoState
    <3>1. 1 \in 0 .. MAX_CANCEL_ATTEMPTS /\ "cancelling" \in {"place", "monitor", "cancelling"}
      BY DEF MAX_CANCEL_ATTEMPTS
    <3>2. PICK s \in OcoState : s = [state EXCEPT !.legs = Observed(listing), !.fresh = FALSE]
      BY <2>3
    <3>3. [s EXCEPT !.phase = "cancelling", !.filledBy = gone, !.cancelAttempts = 1] \in OcoState
      BY <3>1 DEF OcoState
    <3>4. QED
      BY <3>2, <3>3
  <2>5. read' \in SUBSET Legs
    BY <1>0, <2>1, ReadingIsTyped
  <2>6. \A gone \in ExitLegs : /\ <<Cancel(Twin(gone))>> \in Seq(ExitAction)
                               /\ Len(<<Cancel(Twin(gone))>>) <= 2
    BY <1>3, TwoLegs
  <2>7. NotDone \in Endings /\ Ending("failed", TRUE) \in Endings
    BY EndingsAreKnown
  <2>8. CASE \E ending \in {NotDone, Ending("failed", TRUE)} :
               Return([state EXCEPT !.legs = Observed(listing), !.fresh = FALSE], <<>>, ending)
    BY <1>2, <1>3, <2>3, <2>5, <2>7, <2>8
  <2>9. CASE \E gone \in ExitLegs :
               Return([[state EXCEPT !.legs = Observed(listing), !.fresh = FALSE]
                         EXCEPT !.phase = "cancelling", !.filledBy = gone, !.cancelAttempts = 1],
                      <<Cancel(Twin(gone))>>, NotDone)
    BY <1>2, <2>4, <2>5, <2>6, <2>7, <2>9
  <2>10. QED
    BY <2>1, <2>8, <2>9
<1>7. CASE OcoCancelling
  <2>1. state.filledBy \in ExitLegs
    BY <1>7 DEF OcoCancelling, OcoIn, Called, IInv, OcoInv
  <2>2. PICK listing \in Listings, survivor \in ExitLegs :
          LET leg  == Observe(state.legs[survivor], survivor \in listing)
              next == [state EXCEPT !.legs[survivor] = leg]
          IN /\ Reads(listing)
             /\ \/ \E s \in {"completed", "failed"} : Return(next, <<>>, Ending(s, TRUE))
                \/ /\ state.cancelAttempts < MAX_CANCEL_ATTEMPTS
                   /\ Return([next EXCEPT !.cancelAttempts = @ + 1], <<Cancel(survivor)>>, NotDone)
    <3> DEFINE survivor == Twin(state.filledBy)
               leg(listing) == Observe(state.legs[survivor], survivor \in listing)
               next(listing) == [state EXCEPT !.legs[survivor] = leg(listing)]
    <3>1. survivor \in ExitLegs
      BY <2>1, TwoLegs
    <3>2. PICK listing \in Listings :
            /\ Reads(listing)
            /\ \/ \E s \in {"completed", "failed"} : Return(next(listing), <<>>, Ending(s, TRUE))
               \/ /\ ~(state.cancelAttempts >= MAX_CANCEL_ATTEMPTS)
                  /\ Return([next(listing) EXCEPT !.cancelAttempts = @ + 1],
                            <<Cancel(survivor)>>, NotDone)
      BY <1>7 DEF OcoCancelling
    <3>3. state.cancelAttempts < MAX_CANCEL_ATTEMPTS
            <=> ~(state.cancelAttempts >= MAX_CANCEL_ATTEMPTS)
      BY <1>0 DEF MAX_CANCEL_ATTEMPTS
    <3>4. QED
      BY <3>1, <3>2, <3>3
  <2>3. Observe(state.legs[survivor], survivor \in listing) \in LegRecord
    BY <1>0, ObserveLearns
  <2> DEFINE next == [state EXCEPT !.legs[survivor]
                                     = Observe(state.legs[survivor], survivor \in listing)]
  <2>4. next \in OcoState /\ next.cancelAttempts = state.cancelAttempts
    BY <1>0, <2>3 DEF OcoState
  <2>5. state.cancelAttempts < MAX_CANCEL_ATTEMPTS
          => [next EXCEPT !.cancelAttempts = @ + 1] \in OcoState
    <3> HIDE DEF next
    <3> QED
      BY <1>0, <2>4 DEF OcoState, MAX_CANCEL_ATTEMPTS
  <2>6. read' \in SUBSET Legs
    BY <1>0, <2>2, ReadingIsTyped
  <2>7. QED
    BY <1>2, <1>3, <2>2, <2>4, <2>5, <2>6, EndingsAreKnown
<1>8. QED
  BY <1>4, <1>5, <1>6, <1>7 DEF OcoAdvance

\* When a leg of an OCO or of a bracket is taken for closed, it is, if it was sighted.
LEMMA GoneIsClosed ==
  ASSUME HostInv, NEW leg \in LegRecord, NEW l \in Legs, NEW listing \in Listings,
         NEW grace \in {1, ABSENCE_GRACE_CHECKS}, grace = 1 => leg.seenOpen,
         IsResolved(Observe(leg, l \in listing), grace),
         leg.seenOpen \/ leg.missedChecks > 0 => Spotted(l)
  PROVE  order[l] \in {"filled", "cancelled"}
<1>1. l \notin listing /\ (leg.seenOpen \/ leg.missedChecks > 0)
  BY ResolvedIsMissed
<1>2. QED
  BY <1>1, MissingIsClosed

\* An OCO that places its legs, or fails, knows no more of them than before.
LEMMA OcoQuietKeepsOco ==
  ASSUME IInv, OcoRoundedToZero \/ OcoPlace \/ OcoLegRejected \/ OcoDoubleFill
  PROVE  OcoInv'
<1>0. /\ strategy = "oco" /\ pc = "called" /\ state \in OcoState /\ OcoInv
      /\ HostInv' /\ Stepped /\ ExitLegs \subseteq Legs
  BY OcoStepIsTyped, ExitsAssumption
  DEF OcoAdvance, OcoRoundedToZero, OcoPlace, OcoLegRejected, OcoDoubleFill, OcoIn, Called,
      IInv, ExitTypes, StateTypes, ExitsAssumption, PairLegs
<1>1. /\ UNCHANGED <<intent, order, cancelSent, disturbed, strategy, read>>
      /\ status' = "running" /\ lastError' = FALSE
  BY <1>0
  DEF Stepped, upstream, history, OcoRoundedToZero, OcoPlace, OcoLegRejected, OcoDoubleFill,
      ReadsNothing
<1>2. \A l \in Legs : Spotted(l) => Spotted(l)'
  BY <1>1 DEF Spotted
<1>3. CASE OcoRoundedToZero \/ OcoLegRejected \/ OcoDoubleFill
  <2>1. /\ state' = state /\ actions' = <<>> /\ done' = Ending("failed", TRUE)
        /\ Due = {} /\ Cancelled = {}
    BY <1>0, <1>3, ReturnSteps DEF OcoRoundedToZero, OcoLegRejected, OcoDoubleFill
  <2>2. Due' = {} /\ Cancelled' = {} /\ done'.status = "failed" /\ Over'
    <3>1. Ending("failed", TRUE).status = "failed" /\ Ending("failed", TRUE) # NotDone
      BY EndingsAreKnown
    <3>2. QED
      BY <2>1, <3>1 DEF Due, Cancelled, Over, Ending
  <2>3. SeenIsSpotted(ExitLegs)' /\ (CountedIsSpotted(ExitLegs) => CountedIsSpotted(ExitLegs)')
    BY <1>0, <1>2, <2>1 DEF OcoInv, SeenIsSpotted, CountedIsSpotted
  <2>4. CancelsAreEarned => CancelsAreEarned'
    BY <1>1, <2>2 DEF CancelsAreEarned
  <2>5. Placed(ExitLegs)'
    BY <2>2 DEF Placed
  <2>6. QED
    BY <1>0, <1>1, <2>1, <2>2, <2>3, <2>4, <2>5 DEF OcoInv
<1>4. CASE OcoPlace
  <2>1. /\ state' = [state EXCEPT !.phase = "monitor", !.fresh = TRUE]
        /\ actions' = <<Submit("take_profit", Exit), Submit("stop", Exit)>> /\ done' = NotDone
        /\ state.phase = "place"
    BY <1>0, <1>4, ReturnSteps DEF OcoPlace, OcoIn
  <2>2. state'.phase = "monitor" /\ state'.fresh = TRUE /\ state'.legs = state.legs
    BY <1>0, <2>1 DEF OcoState
  <2>3. Due' = ExitLegs /\ Cancelled' = {}
    <3>1. /\ DOMAIN actions' = {1, 2}
          /\ actions'[1].type = "submit" /\ actions'[1].leg = "take_profit"
          /\ actions'[2].type = "submit" /\ actions'[2].leg = "stop"
      BY <2>1 DEF Submit
    <3>2. QED
      BY <1>0, <3>1 DEF Due, Cancelled, ExitLegs
  <2>4. SeenIsSpotted(ExitLegs)' /\ (CountedIsSpotted(ExitLegs) => CountedIsSpotted(ExitLegs)')
    BY <1>0, <1>2, <2>2 DEF OcoInv, SeenIsSpotted, CountedIsSpotted
  <2>5. CancelsAreEarned => CancelsAreEarned'
    BY <1>1, <2>3 DEF CancelsAreEarned
  <2>6. Placed(ExitLegs)'
    BY <2>2, <2>3 DEF Placed
  <2>7. done'.status = "none"
    BY <2>1, EndingsAreKnown
  <2>8. QED
    BY <1>0, <1>1, <2>1, <2>2, <2>3, <2>4, <2>5, <2>6, <2>7 DEF OcoInv
<1>5. QED
  BY <1>3, <1>4

\* The legs after a reading: a leg that is known to have been open was sighted.
LEMMA ObservedIsSpotted ==
  ASSUME HostInv, Stepped, NEW leg \in LegRecord, NEW l \in Legs, NEW listing \in Listings,
         Reads(listing), leg.seenOpen => Spotted(l),
         Observe(leg, l \in listing).seenOpen
  PROVE  Spotted(l)'
<1>1. leg.seenOpen \/ l \in listing
  BY ObserveLearns
<1>2. UNCHANGED <<intent, order>> /\ read \subseteq read'
  BY SteppedKeepsOrders DEF Reads
<1>3. CASE leg.seenOpen
  BY <1>2, <1>3 DEF Spotted
<1>4. CASE l \in listing
  BY <1>2, <1>4, ListedIsKnown, ReadingSpots
<1>5. QED
  BY <1>1, <1>3, <1>4

\* An OCO that watches fires only when a leg has closed, which is then a leg that has
\* filled unless a crash, a halt or somebody else came between.
LEMMA OcoMonitorKeepsOco ==
  ASSUME IInv, OcoMonitor
  PROVE  OcoInv'
<1>0. /\ strategy = "oco" /\ pc = "called" /\ state \in OcoState /\ OcoInv /\ CalmInv
      /\ HostInv /\ Stepped /\ ExitLegs \subseteq Legs
      /\ state.phase = "monitor" /\ ~(state.fresh /\ row.lastError)
      /\ \A l \in ExitLegs : state.legs[l] \in LegRecord
  BY OcoStepIsTyped, ExitsAssumption
  DEF OcoAdvance, OcoMonitor, OcoIn, Called, IInv, ExitTypes, StateTypes, ExitsAssumption,
      PairLegs, OcoState
<1>1. /\ UNCHANGED <<intent, order, cancelSent, disturbed, strategy>>
      /\ status' = "running" /\ lastError' = FALSE
      /\ cancelSent = {}
  BY <1>0, SteppedKeepsOrders DEF OcoInv
<1>2. PICK listing \in Listings :
        LET legs == Observed(listing)
            next == [state EXCEPT !.legs = legs, !.fresh = FALSE]
        IN /\ Reads(listing)
           /\ \/ Return(next, <<>>, NotDone)
              \/ Return(next, <<>>, Ending("failed", TRUE))
              \/ \E gone \in ExitLegs :
                   /\ Gone(legs) = {gone}
                   /\ legs[Twin(gone)].seenOpen
                   /\ Return([next EXCEPT !.phase = "cancelling", !.filledBy = gone,
                                          !.cancelAttempts = 1],
                             <<Cancel(Twin(gone))>>, NotDone)
  BY DEF OcoMonitor, Firing
<1> DEFINE legs == Observed(listing)
           next == [state EXCEPT !.legs = legs, !.fresh = FALSE]
<1>3. \A l \in ExitLegs : legs[l] = Observe(state.legs[l], l \in listing)
  BY DEF Observed
<1>4. /\ next.legs = legs /\ next.phase = "monitor" /\ next.fresh = FALSE
      /\ \A gone \in ExitLegs :
           LET fired == [next EXCEPT !.phase = "cancelling", !.filledBy = gone,
                                     !.cancelAttempts = 1]
           IN /\ fired.legs = legs /\ fired.phase = "cancelling" /\ fired.filledBy = gone
              /\ fired.cancelAttempts = 1
  BY <1>0 DEF OcoState
<1> HIDE DEF legs, next
<1>5. ASSUME NEW l \in ExitLegs, legs[l].seenOpen PROVE Spotted(l)'
  <2>1. Observe(state.legs[l], l \in listing).seenOpen
    BY <1>3, <1>5
  <2>2. state.legs[l].seenOpen => Spotted(l)
    BY <1>0 DEF OcoInv, SeenIsSpotted
  <2>3. QED
    BY <1>0, <1>2, <2>1, <2>2, ObservedIsSpotted
<1>6. ASSUME disturbed = {}
      PROVE  /\ \A l \in ExitLegs : intent[l] = "submitted" /\ Spotted(l)'
             /\ \A l \in Gone(legs) : order[l] = "filled"
  <2>1. ~Over /\ Due = {} /\ row.lastError = lastError
    BY <1>0, <1>2, <1>6, ReturnSteps DEF OcoInv, CalmInv, Calm
  <2>2. \A l \in ExitLegs : intent[l] = "submitted"
    BY <1>0, <1>6, <2>1 DEF OcoInv, Placed
  <2>3. \A l \in ExitLegs : Spotted(l)'
    BY <1>0, <1>1, <1>2, <2>2, ReadingSpots
  <2>4. ASSUME NEW l \in Gone(legs) PROVE order[l] = "filled"
    <3>1. l \in ExitLegs /\ IsResolved(Observe(state.legs[l], l \in listing), ABSENCE_GRACE_CHECKS)
      BY <1>3, <2>4 DEF Gone
    <3>2. state.legs[l].seenOpen \/ state.legs[l].missedChecks > 0 => Spotted(l)
      BY <1>0, <1>6, <3>1 DEF OcoInv, SeenIsSpotted, CountedIsSpotted
    <3>3. ABSENCE_GRACE_CHECKS # 1
      BY DEF ABSENCE_GRACE_CHECKS
    <3>4. order[l] \in {"filled", "cancelled"}
      BY <1>0, <3>1, <3>2, <3>3, GoneIsClosed
    <3>5. QED
      BY <1>0, <1>1, <1>6, <2>1, <3>1, <3>4 DEF HostInv, LegInv
  <2>5. QED
    BY <2>1, <2>2, <2>3, <2>4
<1>7. ASSUME NEW ending \in {NotDone, Ending("failed", TRUE)}, Return(next, <<>>, ending)
      PROVE  OcoInv'
  <2>1. state' = next /\ actions' = <<>> /\ done' = ending
    BY <1>0, <1>7, ReturnSteps
  <2>2. Due' = {} /\ Cancelled' = {} /\ done'.status # "completed"
    <3>1. NotDone.status = "none" /\ Ending("failed", TRUE).status = "failed"
      BY DEF NotDone, Ending
    <3>2. QED
      BY <2>1, <3>1 DEF Due, Cancelled, Ending, NotDone
  <2>3. SeenIsSpotted(ExitLegs)'
    BY <1>4, <1>5, <2>1 DEF SeenIsSpotted
  <2>4. ASSUME disturbed = {}
        PROVE  /\ CountedIsSpotted(ExitLegs)' /\ CancelsAreEarned' /\ Placed(ExitLegs)'
    BY <1>1, <1>6, <2>2, <2>4 DEF CountedIsSpotted, CancelsAreEarned, Placed
  <2>5. QED
    BY <1>1, <1>4, <2>1, <2>2, <2>3, <2>4 DEF OcoInv
<1>8. ASSUME NEW gone \in ExitLegs, Gone(legs) = {gone}, legs[Twin(gone)].seenOpen,
             Return([next EXCEPT !.phase = "cancelling", !.filledBy = gone,
                                 !.cancelAttempts = 1],
                    <<Cancel(Twin(gone))>>, NotDone)
      PROVE  OcoInv'
  <2>1. /\ state'.legs = legs /\ state'.phase = "cancelling" /\ state'.filledBy = gone
        /\ state'.cancelAttempts = 1
        /\ actions' = <<Cancel(Twin(gone))>> /\ done' = NotDone
    <3>1. /\ state' = [next EXCEPT !.phase = "cancelling", !.filledBy = gone, !.cancelAttempts = 1]
          /\ actions' = <<Cancel(Twin(gone))>> /\ done' = NotDone
      BY <1>0, <1>8, ReturnSteps
    <3>2. QED
      BY <1>4, <3>1
  <2>2. Due' = {} /\ Cancelled' = {Twin(gone)} /\ done'.status = "none" /\ actions' # <<>>
    <3>1. /\ DOMAIN actions' = {1} /\ actions'[1].type = "cancel" /\ actions'[1].leg = Twin(gone)
          /\ actions' # <<>>
      BY <2>1 DEF Cancel
    <3>2. Twin(gone) \in Legs
      BY <1>0, TwoLegs
    <3>3. QED
      BY <2>1, <3>1, <3>2 DEF Due, Cancelled, NotDone
  <2>3. SeenIsSpotted(ExitLegs)'
    BY <1>5, <2>1 DEF SeenIsSpotted
  <2>4. ASSUME disturbed = {}
        PROVE  /\ CountedIsSpotted(ExitLegs)' /\ CancelsAreEarned'
               /\ order'[gone] = "filled"
    <3>1. order[gone] = "filled"
      BY <1>6, <1>8, <2>4
    <3>2. Twin(Twin(gone)) = gone
      BY TwoLegs
    <3>3. QED
      BY <1>1, <1>6, <2>2, <2>4, <3>1, <3>2 DEF CountedIsSpotted, CancelsAreEarned
  <2>5. QED
    BY <1>1, <1>8, <2>1, <2>2, <2>3, <2>4 DEF OcoInv
<1>9. QED
  BY <1>2, <1>7, <1>8 DEF legs, next

\* An OCO that cancels the survivor completes when it is closed, after a cancel that
\* Robinhood accepted, unless a crash or a halt has hidden that none was.
LEMMA OcoCancellingKeepsOco ==
  ASSUME IInv, OcoCancelling
  PROVE  OcoInv'
<1>0. /\ strategy = "oco" /\ pc = "called" /\ state \in OcoState /\ OcoInv /\ CalmInv
      /\ HostInv /\ Stepped /\ ExitLegs \subseteq Legs
      /\ state.phase = "cancelling" /\ ~(state.cancelAttempts > 0 /\ row.lastError)
      /\ \A l \in ExitLegs : state.legs[l] \in LegRecord
      /\ DOMAIN state.legs = ExitLegs /\ state.cancelAttempts \in 0 .. MAX_CANCEL_ATTEMPTS
  BY OcoStepIsTyped, ExitsAssumption
  DEF OcoAdvance, OcoCancelling, OcoIn, Called, IInv, ExitTypes, StateTypes, ExitsAssumption,
      PairLegs, OcoState, CancelWasRejected
<1>1. /\ UNCHANGED <<intent, order, cancelSent, disturbed, strategy>>
      /\ status' = "running" /\ lastError' = FALSE
  BY <1>0, SteppedKeepsOrders
<1>2. PICK survivor \in ExitLegs : survivor = Twin(state.filledBy)
  BY <1>0, TwoLegs DEF OcoInv
<1>3. /\ state.filledBy \in ExitLegs /\ survivor \in ExitLegs
      /\ state.cancelAttempts > 0 /\ state.legs[survivor].seenOpen
      /\ cancelSent \subseteq {survivor}
  BY <1>0, <1>2 DEF OcoInv
<1>4. PICK listing \in Listings :
        LET leg  == Observe(state.legs[survivor], survivor \in listing)
            next == [state EXCEPT !.legs[survivor] = leg]
        IN /\ Reads(listing)
           /\ \/ /\ IsResolved(leg, ABSENCE_GRACE_CHECKS)
                 /\ Return(next, <<>>, Ending("completed", TRUE))
              \/ Return(next, <<>>, Ending("failed", TRUE))
              \/ Return([next EXCEPT !.cancelAttempts = @ + 1], <<Cancel(survivor)>>, NotDone)
  BY <1>2 DEF OcoCancelling
<1> DEFINE leg  == Observe(state.legs[survivor], survivor \in listing)
           next == [state EXCEPT !.legs[survivor] = leg]
<1>5. /\ next.phase = "cancelling" /\ next.filledBy = state.filledBy
      /\ next.cancelAttempts = state.cancelAttempts
      /\ next.legs[survivor] = leg
      /\ \A l \in ExitLegs \ {survivor} : next.legs[l] = state.legs[l]
      /\ LET again == [next EXCEPT !.cancelAttempts = @ + 1]
         IN /\ again.phase = "cancelling" /\ again.filledBy = state.filledBy
            /\ again.cancelAttempts > 0 /\ again.legs = next.legs
  <2>1. leg \in LegRecord
    BY <1>0, <1>3, ObserveLearns
  <2> HIDE DEF leg
  <2>2. next \in OcoState
    BY <1>0, <1>3, <2>1 DEF OcoState
  <2>3. QED
    BY <1>0, <1>3, <2>1, <2>2 DEF OcoState, MAX_CANCEL_ATTEMPTS
<1>6. /\ leg.seenOpen
      /\ IsResolved(leg, ABSENCE_GRACE_CHECKS) => order[survivor] \in {"filled", "cancelled"}
  <2>1. leg.seenOpen
    BY <1>0, <1>3, ObserveLearns
  <2>2. state.legs[survivor].seenOpen => Spotted(survivor)
    BY <1>0, <1>3 DEF OcoInv, SeenIsSpotted
  <2>3. ABSENCE_GRACE_CHECKS # 1 /\ survivor \in Legs
    BY <1>0, <1>3 DEF ABSENCE_GRACE_CHECKS
  <2>4. QED
    BY <1>0, <1>3, <2>1, <2>2, <2>3, GoneIsClosed
<1> HIDE DEF leg, next
<1>7. /\ \A l \in Legs : Spotted(l) => Spotted(l)'
      /\ Spotted(survivor)'
  <2>1. \A l \in Legs : Spotted(l) => Spotted(l)'
    BY <1>1, <1>4 DEF Reads, Spotted
  <2>2. Spotted(survivor)
    BY <1>0, <1>3 DEF OcoInv, SeenIsSpotted
  <2>3. QED
    BY <1>0, <1>3, <2>1, <2>2
<1>8. ASSUME NEW l \in ExitLegs, next.legs[l].seenOpen PROVE Spotted(l)'
  <2>1. l # survivor => next.legs[l] = state.legs[l]
    BY <1>5
  <2>2. l # survivor => Spotted(l)
    BY <1>0, <1>8, <2>1 DEF OcoInv, SeenIsSpotted
  <2>3. QED
    BY <1>0, <1>7, <2>2
<1>9. ASSUME Calm PROVE survivor \in cancelSent
  <2>1. ~Over /\ actions = <<>> /\ done = NotDone
    BY <1>0, <1>4, ReturnSteps DEF leg, next
  <2>2. ~row.lastError /\ row.lastError = lastError
    BY <1>0, <1>3, <1>9 DEF CalmInv
  <2>3. status \notin {"failed", "cancelled"} /\ done.status # "failed"
    BY <2>1 DEF Over, IsTerminal, TerminalStatuses, NotDone
  <2>4. QED
    BY <1>0, <1>2, <1>9, <2>1, <2>2, <2>3 DEF OcoInv
<1>10. ASSUME disturbed = {}
      PROVE  /\ CancelsAreEarned /\ CountedIsSpotted(ExitLegs)
             /\ order[state.filledBy] = "filled"
  BY <1>0, <1>10, <1>2 DEF OcoInv
<1>11. ASSUME disturbed = {}, NEW l \in ExitLegs, next.legs[l].missedChecks > 0
       PROVE  Spotted(l)'
  <2>1. l # survivor => next.legs[l] = state.legs[l]
    BY <1>5
  <2>2. l # survivor => Spotted(l)
    BY <1>10, <1>11, <2>1 DEF CountedIsSpotted
  <2>3. QED
    BY <1>0, <1>7, <2>2
<1>12. ASSUME NEW s \in {"completed", "failed"}, Return(next, <<>>, Ending(s, TRUE)),
              s = "completed" => order[survivor] \in {"filled", "cancelled"}
       PROVE  OcoInv'
  <2>1. state' = next /\ actions' = <<>> /\ done' = Ending(s, TRUE)
    BY <1>0, <1>12, ReturnSteps
  <2>2. Due' = {} /\ Cancelled' = {} /\ done'.status = s
    BY <2>1 DEF Due, Cancelled, Ending
  <2>3. SeenIsSpotted(ExitLegs)' /\ (disturbed = {} => CountedIsSpotted(ExitLegs)')
    BY <1>8, <1>11, <2>1 DEF SeenIsSpotted, CountedIsSpotted
  <2>4. disturbed = {} => CancelsAreEarned'
    BY <1>1, <1>10, <2>2 DEF CancelsAreEarned
  <2>5. Calm' = Calm
    BY <1>1 DEF Calm
  <2>6. QED
    BY <1>1, <1>3, <1>5, <1>6, <1>9, <1>10, <1>12, <2>1, <2>2, <2>3, <2>4, <2>5, <1>2 DEF OcoInv
<1>13. ASSUME Return([next EXCEPT !.cancelAttempts = @ + 1], <<Cancel(survivor)>>, NotDone)
       PROVE  OcoInv'
  <2>1. /\ state' = [next EXCEPT !.cancelAttempts = @ + 1]
        /\ actions' = <<Cancel(survivor)>> /\ done' = NotDone
    BY <1>0, <1>13, ReturnSteps
  <2>2. /\ state'.phase = "cancelling" /\ state'.filledBy = state.filledBy
        /\ state'.cancelAttempts > 0 /\ state'.legs = next.legs
    BY <1>5, <2>1
  <2>3. Due' = {} /\ Cancelled' = {survivor} /\ done'.status = "none"
    <3>1. /\ DOMAIN actions' = {1} /\ actions'[1].type = "cancel" /\ actions'[1].leg = survivor
      BY <2>1 DEF Cancel
    <3>2. QED
      BY <1>0, <1>3, <2>1, <3>1 DEF Due, Cancelled, NotDone
  <2>4. SeenIsSpotted(ExitLegs)' /\ (disturbed = {} => CountedIsSpotted(ExitLegs)')
    BY <1>8, <1>11, <2>2 DEF SeenIsSpotted, CountedIsSpotted
  <2>5. disturbed = {} => CancelsAreEarned'
    <3>1. Twin(survivor) = state.filledBy
      BY <1>3, TwoLegs, <1>2
    <3>2. QED
      BY <1>1, <1>10, <2>3, <3>1 DEF CancelsAreEarned
  <2>6. Calm' = Calm
    BY <1>1 DEF Calm
  <2>7. QED
    BY <1>1, <1>3, <1>5, <1>6, <1>9, <1>10, <2>1, <2>2, <2>3, <2>4, <2>5, <2>6, <1>2 DEF OcoInv
<1>14. QED
  BY <1>4, <1>6, <1>12, <1>13 DEF leg, next

\* A step of an OCO keeps the invariant.
LEMMA OcoKeepsExits ==
  ASSUME IInv, OcoAdvance
  PROVE  IInv'
<1>1. HostInv' /\ CalmInv' /\ ExitTypes' /\ Stepped
  BY OcoStepIsTyped
<1>2. OcoInv'
  BY OcoQuietKeepsOco, OcoMonitorKeepsOco, OcoCancellingKeepsOco DEF OcoAdvance
<1>3. strategy' = "oco"
  BY <1>1
  DEF Stepped, OcoAdvance, OcoRoundedToZero, OcoPlace, OcoLegRejected, OcoMonitor,
      OcoDoubleFill, OcoCancelling, OcoIn, Called
<1>4. BracketInv' /\ TrailingInv'
  BY <1>3 DEF BracketInv, TrailingInv
<1>5. QED
  BY <1>1, <1>2, <1>4 DEF IInv

\* Every step of a bracket has its types.
LEMMA BracketStepIsTyped ==
  ASSUME IInv, BracketAdvance
  PROVE  HostInv' /\ CalmInv' /\ ExitTypes' /\ Stepped
<1>0. /\ strategy = "bracket" /\ pc = "called" /\ state \in BracketState /\ HostInv
      /\ \A l \in PairLegs : state.legs[l] \in LegRecord
      /\ "entry" \in PairLegs /\ ExitLegs \subseteq PairLegs
  BY DEF BracketAdvance, BracketRoundedToZero, BracketEntry, BracketSubmitRejected,
         BracketEntryFill, BracketExits, BracketMonitor, BracketIn, Called, IInv, ExitTypes,
         StateTypes, BracketState, PairLegs
<1>1. SUFFICES Stepped /\ state' \in BracketState /\ actions' \in Seq(ExitAction)
               /\ Len(actions') <= 2 /\ done' \in Endings /\ read' \in SUBSET Legs
  <2>1. Stepped => strategy' = "bracket"
    BY <1>0 DEF Stepped
  <2>2. QED
    BY <2>1, StepKeepsExitTypes DEF StateTypes
<1>2. ASSUME NEW newState \in BracketState, NEW newActions \in Seq(ExitAction),
             Len(newActions) <= 2, NEW ending \in Endings,
             Return(newState, newActions, ending), read' \in SUBSET Legs
      PROVE  Stepped /\ state' \in BracketState /\ actions' \in Seq(ExitAction)
             /\ Len(actions') <= 2 /\ done' \in Endings /\ read' \in SUBSET Legs
  BY <1>0, <1>2, ReturnSteps
<1>3. /\ <<>> \in Seq(ExitAction) /\ Len(<<>>) <= 2
      /\ \A l \in ExitLegs : /\ <<Cancel(Twin(l))>> \in Seq(ExitAction)
                             /\ Len(<<Cancel(Twin(l))>>) <= 2
      /\ <<Submit("take_profit", Exit), Submit("stop", Exit)>> \in Seq(ExitAction)
      /\ Len(<<Submit("take_profit", Exit), Submit("stop", Exit)>>) <= 2
      /\ <<Submit("entry", Entry(state.entryType))>> \in Seq(ExitAction)
      /\ Len(<<Submit("entry", Entry(state.entryType))>>) <= 2
  <2>1. \A l \in ExitLegs : Cancel(Twin(l)) \in ExitAction
    BY ExitActions, TwoLegs
  <2>2. state.entryType \in {"market", "limit"}
    BY <1>0 DEF BracketState
  <2>3. QED
    BY <2>1, <2>2, ExitActions DEF ExitLegs
<1>4. CASE BracketRoundedToZero \/ BracketSubmitRejected
  BY <1>0, <1>2, <1>3, <1>4, EndingsAreKnown, ReadingIsTyped
  DEF BracketRoundedToZero, BracketSubmitRejected
<1>5. CASE BracketEntry
  <2>1. [state EXCEPT !.phase = "entry_fill", !.fresh = TRUE] \in BracketState
    BY <1>0 DEF BracketState
  <2>2. QED
    BY <1>0, <1>2, <1>3, <1>5, <2>1, EndingsAreKnown, ReadingIsTyped DEF BracketEntry
<1>6. CASE BracketExits
  <2>1. [state EXCEPT !.phase = "monitor", !.fresh = TRUE] \in BracketState
    BY <1>0 DEF BracketState
  <2>2. QED
    BY <1>0, <1>2, <1>3, <1>6, <2>1, EndingsAreKnown, ReadingIsTyped DEF BracketExits
<1>7. CASE BracketEntryFill
  <2>1. PICK listing \in Listings :
          LET entry == Observe(state.legs["entry"], "entry" \in listing)
              next  == [state EXCEPT !.legs["entry"] = entry]
          IN /\ Reads(listing)
             /\ \/ Return([next EXCEPT !.phase = "exits", !.fresh = TRUE], <<>>, NotDone)
                \/ Return([next EXCEPT !.fresh = FALSE], <<>>, NotDone)
    BY <1>7 DEF BracketEntryFill
  <2> DEFINE entry == Observe(state.legs["entry"], "entry" \in listing)
             next  == [state EXCEPT !.legs["entry"] = entry]
  <2>2. entry \in LegRecord
    BY <1>0, ObserveLearns
  <2> HIDE DEF entry
  <2>3. next \in BracketState
    BY <1>0, <2>2 DEF BracketState
  <2> HIDE DEF next
  <2>4. /\ [next EXCEPT !.phase = "exits", !.fresh = TRUE] \in BracketState
        /\ [next EXCEPT !.fresh = FALSE] \in BracketState
    BY <2>3 DEF BracketState
  <2>5. read' \in SUBSET Legs
    BY <1>0, <2>1, ReadingIsTyped
  <2>6. NotDone \in Endings
    BY EndingsAreKnown
  <2>7. QED
    BY <1>2, <1>3, <2>1, <2>4, <2>5, <2>6 DEF entry, next
<1>8. CASE BracketMonitor
  <2>1. PICK listing \in Listings :
          LET next == [state EXCEPT !.legs = ExitsSeen(listing), !.fresh = FALSE]
          IN /\ Reads(listing)
             /\ \/ Return(next, <<>>, NotDone)
                \/ Return(next, <<>>, Ending("completed", FALSE))
                \/ \E gone \in ExitLegs :
                     Return(next, <<Cancel(Twin(gone))>>, Ending("completed", FALSE))
    BY <1>8 DEF BracketMonitor
  <2> DEFINE next == [state EXCEPT !.legs = ExitsSeen(listing), !.fresh = FALSE]
  <2>2. ExitsSeen(listing) \in [PairLegs -> LegRecord]
    BY <1>0, ObserveLearns DEF ExitsSeen
  <2>3. next \in BracketState
    BY <1>0, <2>2 DEF BracketState
  <2> HIDE DEF next
  <2>4. read' \in SUBSET Legs
    BY <1>0, <2>1, ReadingIsTyped
  <2>5. NotDone \in Endings /\ Ending("completed", FALSE) \in Endings
    BY EndingsAreKnown
  <2>6. QED
    BY <1>2, <1>3, <2>1, <2>3, <2>4, <2>5 DEF next
<1>9. QED
  BY <1>4, <1>5, <1>6, <1>7, <1>8 DEF BracketAdvance

\* What a bracket that nothing disturbs finds when it is called.
LEMMA BracketFinds ==
  ASSUME IInv, BracketAdvance, disturbed' = {}
  PROVE  /\ strategy = "bracket" /\ strategy' = "bracket" /\ disturbed = {} /\ BracketInv
         /\ pc = "called" /\ HostInv /\ HostInv' /\ Stepped
         /\ PairLegs \subseteq Legs /\ ExitLegs \subseteq PairLegs /\ "entry" \in PairLegs
         /\ state \in BracketState
         /\ \A l \in PairLegs : state.legs[l] \in LegRecord
         /\ UNCHANGED <<intent, order, request, cancelSent>>
         /\ ~Over /\ Due = {} /\ Cancelled = {}
         /\ row.lastError = lastError
<1>1. HostInv' /\ Stepped
  BY BracketStepIsTyped
<1>2. strategy = "bracket" /\ pc = "called"
  BY DEF BracketAdvance, BracketRoundedToZero, BracketEntry, BracketSubmitRejected,
         BracketEntryFill, BracketExits, BracketMonitor, BracketIn, Called
<1>3. HostInv /\ CalmInv /\ BracketInv /\ state \in BracketState
  BY <1>2 DEF IInv, ExitTypes, StateTypes
<1>4. ~Over /\ actions = <<>>
  BY <1>1, <1>3, SteppedIsNotOver
<1>5. disturbed = {} /\ strategy' = "bracket" /\ UNCHANGED <<intent, order, request, cancelSent>>
  BY <1>1, <1>2, SteppedKeepsOrders
<1>6. row.lastError = lastError
  BY <1>2, <1>3, <1>5 DEF CalmInv, Calm
<1>7. PairLegs \subseteq Legs /\ ExitLegs \subseteq PairLegs /\ "entry" \in PairLegs
  BY ExitsAssumption DEF ExitsAssumption, PairLegs
<1>8. Due = {} /\ Cancelled = {}
  BY <1>4 DEF Due, Cancelled
<1>9. \A l \in PairLegs : state.legs[l] \in LegRecord
  BY <1>3 DEF BracketState
<1>10. QED
  BY <1>1, <1>2, <1>3, <1>4, <1>5, <1>6, <1>7, <1>8, <1>9

\* A bracket that sends its orders, or fails, knows no more of them than before.
LEMMA BracketQuietKeepsBracket ==
  ASSUME IInv, BracketRoundedToZero \/ BracketSubmitRejected \/ BracketEntry \/ BracketExits,
         disturbed' = {}
  PROVE  BracketInv'
<1>0. /\ strategy = "bracket" /\ disturbed = {} /\ BracketInv /\ pc = "called"
      /\ state \in BracketState /\ PairLegs \subseteq Legs
      /\ ExitLegs \subseteq PairLegs /\ "entry" \in PairLegs
      /\ UNCHANGED <<intent, order, request, cancelSent>>
      /\ ~Over /\ Due = {} /\ Cancelled = {}
  BY BracketFinds DEF BracketAdvance
<1>1. \A l \in Legs : Spotted(l) => Spotted(l)'
  BY <1>0
  DEF Spotted, BracketRoundedToZero, BracketSubmitRejected, BracketEntry, BracketExits,
      ReadsNothing
<1>2. ASSUME state'.legs = state.legs
      PROVE  SeenIsSpotted(PairLegs)' /\ CountedIsSpotted(PairLegs)'
  BY <1>0, <1>1, <1>2 DEF BracketInv, SeenIsSpotted, CountedIsSpotted
<1>3. ASSUME Cancelled' = {} PROVE CancelsAreEarned'
  BY <1>0, <1>3 DEF BracketInv, CancelsAreEarned
<1>4. CASE BracketRoundedToZero \/ BracketSubmitRejected
  <2>1. state' = state /\ actions' = <<>> /\ done' = Ending("failed", TRUE)
    BY <1>0, <1>4, ReturnSteps DEF BracketRoundedToZero, BracketSubmitRejected
  <2>2. Due' = {} /\ Cancelled' = {} /\ Over'
    BY <2>1 DEF Due, Cancelled, Over, Ending, NotDone
  <2>3. Placed({"entry"})' /\ Placed(ExitLegs)'
    BY <2>2 DEF Placed
  <2>4. \A i \in DOMAIN actions' : FALSE
    BY <2>1
  <2>5. QED
    BY <1>0, <1>2, <1>3, <2>1, <2>2, <2>3, <2>4 DEF BracketInv
<1>5. CASE BracketEntry
  <2>1. /\ state' = [state EXCEPT !.phase = "entry_fill", !.fresh = TRUE]
        /\ actions' = <<Submit("entry", Entry(state.entryType))>>
        /\ state.phase = "entry"
    BY <1>0, <1>5, ReturnSteps DEF BracketEntry, BracketIn
  <2>2. /\ state'.phase = "entry_fill" /\ state'.fresh = TRUE /\ state'.legs = state.legs
        /\ state'.entryType = state.entryType
    BY <1>0, <2>1 DEF BracketState
  <2>3. /\ DOMAIN actions' = {1} /\ actions'[1].type = "submit" /\ actions'[1].leg = "entry"
        /\ actions'[1].request = Entry(state.entryType)
    BY <2>1 DEF Submit
  <2>4. Due' = {"entry"} /\ Cancelled' = {}
    BY <1>0, <2>3 DEF Due, Cancelled
  <2>5. Placed({"entry"})'
    BY <2>2, <2>4 DEF Placed
  <2>6. "entry" \notin ExitLegs
    BY DEF ExitLegs
  <2>7. QED
    BY <1>0, <1>2, <1>3, <2>1, <2>2, <2>3, <2>4, <2>5, <2>6 DEF BracketInv
<1>6. CASE BracketExits
  <2>1. /\ state' = [state EXCEPT !.phase = "monitor", !.fresh = TRUE]
        /\ actions' = <<Submit("take_profit", Exit), Submit("stop", Exit)>>
        /\ state.phase = "exits"
    BY <1>0, <1>6, ReturnSteps DEF BracketExits, BracketIn
  <2>2. state'.phase = "monitor" /\ state'.fresh = TRUE /\ state'.legs = state.legs
    BY <1>0, <2>1 DEF BracketState
  <2>3. /\ DOMAIN actions' = {1, 2}
        /\ actions'[1].type = "submit" /\ actions'[1].leg = "take_profit"
        /\ actions'[2].type = "submit" /\ actions'[2].leg = "stop"
    BY <2>1 DEF Submit
  <2>4. Due' = ExitLegs /\ Cancelled' = {}
    BY <1>0, <2>3 DEF Due, Cancelled, ExitLegs
  <2>5. Placed(ExitLegs)'
    BY <2>2, <2>4 DEF Placed
  <2>6. QED
    BY <1>0, <1>2, <1>3, <2>1, <2>2, <2>4, <2>5 DEF BracketInv
<1>7. QED
  BY <1>4, <1>5, <1>6

\* A bracket goes on to its exits when its entry has closed, which is when it has filled.
LEMMA BracketEntryFillKeepsBracket ==
  ASSUME IInv, BracketEntryFill, disturbed' = {}
  PROVE  BracketInv'
<1>0. /\ strategy = "bracket" /\ disturbed = {} /\ BracketInv /\ pc = "called" /\ HostInv
      /\ Stepped /\ state \in BracketState /\ PairLegs \subseteq Legs
      /\ \A l \in PairLegs : state.legs[l] \in LegRecord
      /\ ExitLegs \subseteq PairLegs /\ "entry" \in PairLegs /\ "entry" \in Legs
      /\ UNCHANGED <<intent, order, request, cancelSent>>
      /\ ~Over /\ Due = {} /\ Cancelled = {}
      /\ row.lastError = lastError
      /\ state.phase = "entry_fill" /\ ~(state.fresh /\ row.lastError)
  BY BracketFinds, ZenonT(40) DEF BracketAdvance, BracketEntryFill, BracketIn, SubmitWasRejected
<1>1. PICK listing \in Listings :
        LET entry == Observe(state.legs["entry"], "entry" \in listing)
            next  == [state EXCEPT !.legs["entry"] = entry]
        IN /\ Reads(listing)
           /\ \/ /\ IsResolved(entry, EntryGrace)
                 /\ Return([next EXCEPT !.phase = "exits", !.fresh = TRUE], <<>>, NotDone)
              \/ Return([next EXCEPT !.fresh = FALSE], <<>>, NotDone)
  BY DEF BracketEntryFill
<1> DEFINE entry == Observe(state.legs["entry"], "entry" \in listing)
           next  == [state EXCEPT !.legs["entry"] = entry]
<1>2. intent["entry"] = "submitted" /\ cancelSent = {}
  BY <1>0 DEF BracketInv, Placed
<1>3. \A l \in Legs : Spotted(l) => Spotted(l)'
  BY <1>0, <1>1 DEF Reads, Spotted
<1>4. Spotted("entry")'
  BY <1>0, <1>1, <1>2, ReadingSpots
<1>5. IsResolved(entry, EntryGrace) => order["entry"] = "filled"
  <2>1. ASSUME IsResolved(entry, EntryGrace)
        PROVE  order["entry"] \in {"filled", "cancelled"}
    <3>1. LegInv("entry") /\ order["entry"] \in Accepted
      BY <1>0, <1>2 DEF HostInv, LegInv
    <3>2. CASE state.entryType = "market"
      <4>1. request["entry"] = Entry("market")
        BY <1>0, <3>1, <3>2 DEF BracketInv, Accepted
      <4>2. order["entry"] # "live"
        BY <3>1, <4>1 DEF LegInv, Entry, Market
      <4>3. QED
        BY <3>1, <4>2 DEF Accepted
    <3>3. CASE state.entryType # "market"
      <4>1. EntryGrace = ABSENCE_GRACE_CHECKS /\ ABSENCE_GRACE_CHECKS # 1
        BY <3>3 DEF EntryGrace, ABSENCE_GRACE_CHECKS
      <4>2. state.legs["entry"].seenOpen \/ state.legs["entry"].missedChecks > 0
              => Spotted("entry")
        BY <1>0 DEF BracketInv, SeenIsSpotted, CountedIsSpotted
      <4>3. QED
        BY <1>0, <2>1, <4>1, <4>2, GoneIsClosed
    <3>4. QED
      BY <3>2, <3>3
  <2>2. QED
    BY <1>0, <1>2, <2>1 DEF HostInv, LegInv
<1>6. entry \in LegRecord
  BY <1>0, ObserveLearns
<1> HIDE DEF entry
<1>7. /\ next \in BracketState /\ next.phase = "entry_fill" /\ next.entryType = state.entryType
      /\ next.legs["entry"] = entry
      /\ \A l \in PairLegs \ {"entry"} : next.legs[l] = state.legs[l]
  BY <1>0, <1>6 DEF BracketState
<1> HIDE DEF next
<1>8. ASSUME NEW l \in PairLegs, next.legs[l].seenOpen \/ next.legs[l].missedChecks > 0
      PROVE  Spotted(l)'
  <2>1. CASE l = "entry"
    BY <1>4, <2>1
  <2>2. CASE l # "entry"
    BY <1>0, <1>3, <1>7, <1>8, <2>2 DEF BracketInv, SeenIsSpotted, CountedIsSpotted
  <2>3. QED
    BY <2>1, <2>2
<1>9. ASSUME NEW phase \in {"exits", "entry_fill"}, state'.legs = next.legs,
             state'.phase = phase, state'.entryType = state.entryType, actions' = <<>>,
             phase = "exits" => order["entry"] = "filled"
      PROVE  BracketInv'
  <2>1. Due' = {} /\ Cancelled' = {} /\ \A i \in DOMAIN actions' : FALSE
    BY <1>9 DEF Due, Cancelled
  <2>2. SeenIsSpotted(PairLegs)' /\ CountedIsSpotted(PairLegs)'
    BY <1>8, <1>9 DEF SeenIsSpotted, CountedIsSpotted
  <2>3. CancelsAreEarned'
    BY <1>0, <2>1 DEF BracketInv, CancelsAreEarned
  <2>4. Placed({"entry"})'
    BY <1>0, <1>2 DEF Placed
  <2>5. QED
    BY <1>0, <1>2, <1>9, <2>1, <2>2, <2>3, <2>4 DEF BracketInv
<1>10. CASE IsResolved(entry, EntryGrace)
            /\ Return([next EXCEPT !.phase = "exits", !.fresh = TRUE], <<>>, NotDone)
  <2>1. state' = [next EXCEPT !.phase = "exits", !.fresh = TRUE] /\ actions' = <<>>
    BY <1>0, <1>10, ReturnSteps
  <2>2. /\ state'.legs = next.legs /\ state'.phase = "exits"
        /\ state'.entryType = state.entryType
    BY <1>7, <2>1 DEF BracketState
  <2>3. QED
    BY <1>5, <1>9, <1>10, <2>1, <2>2
<1>11. CASE Return([next EXCEPT !.fresh = FALSE], <<>>, NotDone)
  <2>1. state' = [next EXCEPT !.fresh = FALSE] /\ actions' = <<>>
    BY <1>0, <1>11, ReturnSteps
  <2>2. /\ state'.legs = next.legs /\ state'.phase = "entry_fill"
        /\ state'.entryType = state.entryType
    BY <1>7, <2>1 DEF BracketState
  <2>3. QED
    BY <1>9, <2>1, <2>2
<1>12. QED
  BY <1>1, <1>10, <1>11, SMTT(30) DEF entry, next

\* A bracket that watches cancels an exit only when the other one has filled.
LEMMA BracketMonitorKeepsBracket ==
  ASSUME IInv, BracketMonitor, disturbed' = {}
  PROVE  BracketInv'
<1>0. /\ strategy = "bracket" /\ disturbed = {} /\ BracketInv /\ pc = "called" /\ HostInv
      /\ Stepped /\ state \in BracketState /\ PairLegs \subseteq Legs
      /\ \A l \in PairLegs : state.legs[l] \in LegRecord
      /\ ExitLegs \subseteq PairLegs /\ ExitLegs \subseteq Legs
      /\ UNCHANGED <<intent, order, request, cancelSent>>
      /\ ~Over /\ Due = {} /\ Cancelled = {}
      /\ row.lastError = lastError
      /\ state.phase = "monitor" /\ ~(state.fresh /\ row.lastError)
  BY BracketFinds DEF BracketAdvance, BracketMonitor, BracketIn, SubmitWasRejected
<1>1. PICK listing \in Listings :
        LET legs == ExitsSeen(listing)
            next == [state EXCEPT !.legs = legs, !.fresh = FALSE]
        IN /\ Reads(listing)
           /\ \/ Return(next, <<>>, NotDone)
              \/ Return(next, <<>>, Ending("completed", FALSE))
              \/ \E gone \in ExitLegs :
                   /\ ExitsGone(legs) = {gone}
                   /\ Return(next, <<Cancel(Twin(gone))>>, Ending("completed", FALSE))
  BY DEF BracketMonitor
<1> DEFINE legs == ExitsSeen(listing)
           next == [state EXCEPT !.legs = legs, !.fresh = FALSE]
<1>2. (\A l \in ExitLegs : intent[l] = "submitted") /\ cancelSent = {}
      /\ order["entry"] = "filled"
  BY <1>0 DEF BracketInv, Placed
<1>3. \A l \in Legs : Spotted(l) => Spotted(l)'
  BY <1>0, <1>1 DEF Reads, Spotted
<1>4. \A l \in ExitLegs : Spotted(l)'
  BY <1>0, <1>1, <1>2, ReadingSpots
<1>5. /\ \A l \in ExitLegs : legs[l] = Observe(state.legs[l], l \in listing)
      /\ \A l \in PairLegs \ ExitLegs : legs[l] = state.legs[l]
  BY <1>0 DEF ExitsSeen
<1>6. next.legs = legs /\ next.phase = "monitor"
  BY <1>0 DEF BracketState
<1> HIDE DEF legs, next
<1>7. ASSUME NEW l \in ExitsGone(legs) PROVE order[l] = "filled"
  <2>1. l \in ExitLegs /\ IsResolved(Observe(state.legs[l], l \in listing), ABSENCE_GRACE_CHECKS)
    BY <1>5, <1>7 DEF ExitsGone
  <2>2. state.legs[l].seenOpen \/ state.legs[l].missedChecks > 0 => Spotted(l)
    BY <1>0, <2>1 DEF BracketInv, SeenIsSpotted, CountedIsSpotted
  <2>3. ABSENCE_GRACE_CHECKS # 1
    BY DEF ABSENCE_GRACE_CHECKS
  <2>4. order[l] \in {"filled", "cancelled"}
    BY <1>0, <2>1, <2>2, <2>3, GoneIsClosed
  <2>5. QED
    BY <1>0, <1>2, <2>1, <2>4 DEF HostInv, LegInv
<1>8. ASSUME NEW l \in PairLegs, legs[l].seenOpen \/ legs[l].missedChecks > 0
      PROVE  Spotted(l)'
  <2>1. CASE l \in ExitLegs
    BY <1>4, <2>1
  <2>2. CASE l \notin ExitLegs
    BY <1>0, <1>3, <1>5, <1>8, <2>2 DEF BracketInv, SeenIsSpotted, CountedIsSpotted
  <2>3. QED
    BY <2>1, <2>2
<1>9. ASSUME state' = next, Due' = {}, Cancelled' = {} \/ Over',
             \A l \in Cancelled' : order[Twin(l)] = "filled"
      PROVE  BracketInv'
  <2>1. SeenIsSpotted(PairLegs)' /\ CountedIsSpotted(PairLegs)'
    BY <1>6, <1>8, <1>9 DEF SeenIsSpotted, CountedIsSpotted
  <2>2. CancelsAreEarned'
    BY <1>0, <1>9 DEF BracketInv, CancelsAreEarned
  <2>3. Placed(ExitLegs)'
    BY <1>0, <1>2 DEF Placed
  <2>4. QED
    BY <1>0, <1>2, <1>6, <1>9, <2>1, <2>2, <2>3 DEF BracketInv
<1>10. ASSUME NEW ending, Return(next, <<>>, ending) PROVE BracketInv'
  <2>1. state' = next /\ actions' = <<>>
    BY <1>0, <1>10, ReturnSteps
  <2>2. Due' = {} /\ Cancelled' = {}
    BY <2>1 DEF Due, Cancelled
  <2>3. QED
    BY <1>9, <2>1, <2>2
<1>11. ASSUME NEW gone \in ExitLegs, ExitsGone(legs) = {gone},
              Return(next, <<Cancel(Twin(gone))>>, Ending("completed", FALSE))
       PROVE  BracketInv'
  <2>1. state' = next /\ actions' = <<Cancel(Twin(gone))>> /\ done' = Ending("completed", FALSE)
    BY <1>0, <1>11, ReturnSteps
  <2>2. /\ DOMAIN actions' = {1} /\ actions'[1].type = "cancel" /\ actions'[1].leg = Twin(gone)
    BY <2>1 DEF Cancel
  <2>3. Twin(gone) \in Legs /\ Twin(Twin(gone)) = gone
    BY <1>0, TwoLegs
  <2>4. Due' = {} /\ Cancelled' = {Twin(gone)} /\ Over'
    BY <2>1, <2>2, <2>3 DEF Due, Cancelled, Over, NotDone, Ending
  <2>5. order[gone] = "filled"
    BY <1>7, <1>11
  <2>6. QED
    BY <1>9, <2>1, <2>3, <2>4, <2>5
<1>12. QED
  BY <1>1, <1>10, <1>11 DEF legs, next

\* A step of a bracket keeps the invariant.
LEMMA BracketKeepsExits ==
  ASSUME IInv, BracketAdvance
  PROVE  IInv'
<1>1. HostInv' /\ CalmInv' /\ ExitTypes' /\ Stepped
  BY BracketStepIsTyped
<1>2. strategy' = "bracket"
  BY <1>1
  DEF Stepped, BracketAdvance, BracketRoundedToZero, BracketEntry, BracketSubmitRejected,
      BracketEntryFill, BracketExits, BracketMonitor, BracketIn, Called
<1>3. disturbed' = {} => BracketInv'
  BY BracketQuietKeepsBracket, BracketEntryFillKeepsBracket, BracketMonitorKeepsBracket
  DEF BracketAdvance
<1>4. BracketInv' /\ OcoInv' /\ TrailingInv'
  BY <1>2, <1>3 DEF BracketInv, OcoInv, TrailingInv
<1>5. QED
  BY <1>1, <1>4 DEF IInv

\* A step of a trailing stop that gives back what has its types, and cancels nothing,
\* keeps the invariant if the order it sends, if any, is the last thing it does.
LEMMA TrailingReturns ==
  ASSUME IInv, Called("trailing_stop"), NEW newState \in TrailingStopState,
         NEW newActions \in Seq(ExitAction), NEW ending \in Endings,
         Return(newState, newActions, ending), ReadsNothing,
         ~newState.activated => newState.watermark = NoPrice,
         \/ newActions = <<>>
         \/ /\ ending # NotDone
            /\ \E l \in Legs, what \in Request : newActions = <<Submit(l, what)>>
  PROVE  IInv' /\ state' = newState
<1>0. /\ strategy = "trailing_stop" /\ pc = "called" /\ HostInv /\ TrailingInv
  BY DEF Called, IInv
<1>1. /\ Stepped /\ state' = newState /\ actions' = newActions /\ done' = ending
      /\ ~Over /\ Due = {} /\ Cancelled = {}
  BY <1>0, ReturnSteps
<1>2. /\ strategy' = "trailing_stop" /\ UNCHANGED <<order, cancelSent, disturbed>>
  BY <1>0, <1>1, SteppedKeepsOrders
<1>3. HostInv' /\ CalmInv' /\ ExitTypes'
  <2>1. Len(newActions) <= 2
    <3>1. CASE newActions = <<>>
      BY <3>1
    <3>2. CASE \E l \in Legs, what \in Request : newActions = <<Submit(l, what)>>
      BY <3>2
    <3>3. QED
      BY <3>1, <3>2
  <2>2. StateTypes' /\ read' \in SUBSET Legs
    BY <1>0, <1>1, <1>2, ReadingIsTyped DEF StateTypes
  <2>3. QED
    BY <1>1, <2>1, <2>2, StepKeepsExitTypes
<1>4. TrailingInv'
  <2>1. CASE newActions = <<>>
    <3>1. Due' = {} /\ Cancelled' = {}
      BY <1>1, <2>1 DEF Due, Cancelled
    <3>2. QED
      BY <1>0, <1>1, <1>2, <3>1 DEF TrailingInv, Touched
  <2>2. CASE /\ ending # NotDone
             /\ \E l \in Legs, what \in Request : newActions = <<Submit(l, what)>>
    <3>1. PICK l \in Legs, what \in Request : newActions = <<Submit(l, what)>>
      BY <2>2
    <3>2. DOMAIN actions' = {1} /\ actions'[1].type = "submit" /\ actions'[1].leg = l
      BY <1>1, <3>1 DEF Submit
    <3>3. Due' = {l} /\ Cancelled' = {} /\ Over'
      BY <1>1, <2>2, <3>2 DEF Due, Cancelled, Over
    <3>4. disturbed = {} => \A k \in Legs : order[k] = "absent"
      BY <1>0, <1>1 DEF TrailingInv
    <3>5. QED
      BY <1>0, <1>1, <1>2, <3>3, <3>4 DEF TrailingInv, Touched
  <2>3. QED
    BY <2>1, <2>2
<1>5. OcoInv' /\ BracketInv'
  BY <1>2 DEF OcoInv, BracketInv
<1>6. QED
  BY <1>1, <1>3, <1>4, <1>5 DEF IInv

\* A step of a trailing stop keeps the invariant, and its stop where it is or better.
LEMMA TrailingKeepsExits ==
  ASSUME IInv, TrailingAdvance
  PROVE  /\ IInv'
         /\ state.watermark # NoPrice =>
              AtLeast(state.side, state'.watermark, state.watermark)
<1>0. /\ Called("trailing_stop") /\ state \in TrailingStopState /\ TrailingInv /\ HostInv
      /\ ReadsNothing
      /\ ~state.activated => state.watermark = NoPrice
      /\ <<>> \in Seq(ExitAction)
  <2>1. Called("trailing_stop") /\ ReadsNothing
    BY DEF TrailingAdvance, TrailingNoPrice, Dormant, Arm, Trail, Trailing
  <2>2. QED
    BY <2>1 DEF Called, IInv, ExitTypes, StateTypes, TrailingInv
<1>1. /\ Prices \subseteq Nat \ {0} /\ NoPrice = 0
      /\ state.side \in {"sell", "buy"} /\ state.watermark \in Prices \union {NoPrice}
      /\ state.watermark \in Nat
  <2>1. Prices \subseteq Nat \ {0} /\ NoPrice = 0
    BY TrailingStopAssumption DEF TrailingStopAssumption, NoPrice
  <2>2. state.side \in {"sell", "buy"} /\ state.watermark \in Prices \union {NoPrice}
    BY <1>0 DEF TrailingStopState
  <2>3. state.watermark \in Nat
    <3>1. CASE state.watermark \in Prices
      BY <2>1, <3>1
    <3>2. CASE state.watermark = NoPrice
      BY <2>1, <3>2
    <3>3. QED
      BY <2>2, <3>1, <3>2
  <2>4. QED
    BY <2>1, <2>2, <2>3
<1>2. \A p \in Nat : AtLeast(state.side, p, p)
  BY DEF AtLeast
<1>3. /\ NotDone \in Endings /\ Exited \in Endings /\ Ending("failed", TRUE) \in Endings
      /\ Exited # NotDone
  BY DEF NotDone, Endings, Ending, Exited
<1>4. CASE TrailingNoPrice
  BY <1>0, <1>1, <1>2, <1>3, <1>4, TrailingReturns DEF TrailingNoPrice
<1>5. ASSUME NEW p \in Prices, Dormant(p)
      PROVE  IInv' /\ state.watermark = NoPrice
  <2>1. ~state.activated /\ state.watermark = NoPrice
    BY <1>0, <1>5 DEF Dormant
  <2>2. /\ [state EXCEPT !.activated = TRUE, !.watermark = p] \in TrailingStopState
        /\ [state EXCEPT !.activated = TRUE, !.watermark = p].activated
    BY <1>0 DEF TrailingStopState
  <2>3. CASE Return(state, <<>>, NotDone)
    BY <1>0, <1>3, <2>1, <2>3, TrailingReturns
  <2>4. CASE Return([state EXCEPT !.activated = TRUE, !.watermark = p], <<>>, NotDone)
    BY <1>0, <1>3, <2>1, <2>2, <2>4, TrailingReturns
  <2>5. QED
    BY <1>5, <2>3, <2>4, <2>1 DEF Dormant
<1>6. ASSUME NEW p \in Prices, Arm(p)
      PROVE  IInv' /\ state.watermark = NoPrice
  <2>1. /\ [state EXCEPT !.watermark = p] \in TrailingStopState
        /\ [state EXCEPT !.watermark = p].activated
    BY <1>0, <1>6 DEF TrailingStopState, Arm
  <2>2. QED
    BY <1>0, <1>3, <1>6, <2>1, TrailingReturns DEF Arm
<1>7. ASSUME NEW p \in Prices, Trail(p)
      PROVE  IInv' /\ AtLeast(state.side, state'.watermark, state.watermark)
  <2>1. PICK next : next = [state EXCEPT !.watermark = NewWatermark(p)]
    OBVIOUS
  <2>2. NewWatermark(p) \in Prices /\ AtLeast(state.side, NewWatermark(p), state.watermark)
    BY <1>1, <1>7 DEF NewWatermark, Better, AtLeast, Trail
  <2>3. next \in TrailingStopState /\ next.activated /\ next.watermark = NewWatermark(p)
    BY <1>0, <1>7, <2>1, <2>2 DEF TrailingStopState, Trail
  <2>4. CASE Return(next, <<>>, NotDone) \/ Return(next, <<>>, Ending("failed", TRUE))
    BY <1>0, <1>3, <2>2, <2>3, <2>4, TrailingReturns
  <2>5. CASE /\ FreshLegs({}) # {}
             /\ LET l == CHOOSE l \in FreshLegs({}) : TRUE
                IN Return(next, <<Submit(l, Market(state.side, 1))>>, Exited)
    <3>1. PICK l \in Legs : Return(next, <<Submit(l, Market(state.side, 1))>>, Exited)
      <4>1. (CHOOSE l \in FreshLegs({}) : TRUE) \in FreshLegs({})
        BY <2>5
      <4>2. QED
        BY <2>5, <4>1 DEF FreshLegs
    <3>2. Submit(l, Market(state.side, 1)) \in ExitAction /\ Market(state.side, 1) \in Request
      BY <1>1, ExitActions DEF Sides, Market, Request
    <3>3. <<Submit(l, Market(state.side, 1))>> \in Seq(ExitAction)
      BY <3>2
    <3>4. QED
      BY <1>0, <1>3, <2>2, <2>3, <3>1, <3>2, <3>3, TrailingReturns
  <2>6. QED
    BY <1>7, <2>1, <2>4, <2>5 DEF Trail
<1>8. QED
  BY <1>4, <1>5, <1>6, <1>7 DEF TrailingAdvance

-----------------------------------------------------------------------------
(***************************************************************************)
(* The theorems.                                                           *)
(***************************************************************************)

\* A step that changes nothing keeps the invariant.
LEMMA StutterKeepsExits ==
  ASSUME IInv, UNCHANGED hostVars
  PROVE  IInv'
<1>0. HostInv' /\ CalmInv'
  BY StutterKeepsHost, StutterKeepsCalm DEF IInv
<1> USE DEF IInv, hostVars, database, memory, upstream, history
<1>1. Due' = Due /\ Cancelled' = Cancelled /\ Calm' = Calm /\ (Over' <=> Over) /\ Touched' = Touched
  BY DEF Due, Cancelled, Calm, Over, Touched
<1>2. \A l \in Legs : Spotted(l) => Spotted(l)'
  BY DEF Spotted
<1>3. ExitTypes'
  BY DEF ExitTypes, StateTypes
<1>4. OcoInv'
  BY <1>1 DEF OcoInv, SeenIsSpotted, CountedIsSpotted, CancelsAreEarned, Placed, Spotted
<1>5. BracketInv'
  BY <1>1 DEF BracketInv, SeenIsSpotted, CountedIsSpotted, CancelsAreEarned, Placed, Spotted
<1>6. TrailingInv'
  BY <1>1 DEF TrailingInv
<1>7. QED
  BY <1>0, <1>3, <1>4, <1>5, <1>6

\* The invariant holds in every reachable state.
THEOREM ExitsInvariant == Spec => []IInv
<1>1. IInv /\ [Next]_hostVars => IInv'
  BY HostKeepsExits, OcoKeepsExits, BracketKeepsExits, TrailingKeepsExits, StutterKeepsExits
  DEF Next, Advance, AdvanceThrows
<1>2. QED
  BY ExitsBegin, <1>1, PTL DEF Spec

\* The variables of the exit strategies have their types.
THEOREM ExitTypesAreKept == Spec => []TypeInv
<1>1. IInv => TypeInv
  <2>1. SUFFICES ASSUME IInv PROVE TypeInv
    OBVIOUS
  <2>2. /\ strategy \in {"oco", "bracket", "trailing_stop"} /\ StateTypes /\ HostTypes
        /\ actions \in Seq(ExitAction) /\ Len(actions) <= 2 /\ cancelSent \in SUBSET ExitLegs
        /\ \A l \in Legs : order[l] # "absent" => request[l].size = 1
        /\ \A l \in Legs : LegInv(l)
    BY <2>1 DEF IInv, ExitTypes, HostInv
  <2>3. actions \in Seq(Action)
    BY <2>2 DEF ExitAction
  <2>4. done \in [status : {"none", "completed", "failed"}, reason : BOOLEAN]
    <3>1. done = NotDone \/ done \in [status : {"completed", "failed"}, reason : BOOLEAN]
      BY <2>2 DEF HostTypes, Endings
    <3>2. NotDone \in [status : {"none", "completed", "failed"}, reason : BOOLEAN]
      BY DEF NotDone
    <3>3. QED
      BY <3>1, <3>2
  <2>5. filled \in [Legs -> 0 .. 1]
    <3>1. filled \in [Legs -> Nat]
      BY <2>2 DEF HostTypes
    <3>2. ASSUME NEW l \in Legs PROVE filled[l] \in 0 .. 1
      BY <2>2, <3>1 DEF LegInv
    <3>3. QED
      BY <3>1, <3>2
  <2>6. CASE strategy = "oco"
    BY <2>2, <2>3, <2>4, <2>5, <2>6 DEF TypeInv, StateTypes, HostTypes, LegInv
  <2>7. CASE strategy = "bracket"
    BY <2>2, <2>3, <2>4, <2>5, <2>7 DEF TypeInv, StateTypes, HostTypes, LegInv
  <2>8. CASE strategy = "trailing_stop"
    BY <2>2, <2>3, <2>4, <2>5, <2>8 DEF TypeInv, StateTypes, HostTypes, LegInv
  <2>9. QED
    BY <2>2, <2>6, <2>7, <2>8
<1>2. QED
  BY <1>1, ExitsInvariant, PTL

\* A leg that was refused, or not listed yet, never costs the position the protection it
\* has: the other exit is cancelled only when one has filled.
THEOREM NoCancelWithoutAFill == Spec => []CancelNeedsAFill
<1>1. IInv => CancelNeedsAFill
  BY DEF IInv, ExitTypes, OcoInv, BracketInv, TrailingInv, CancelsAreEarned, CancelNeedsAFill
<1>2. QED
  BY <1>1, ExitsInvariant, PTL

\* While no crash and no halt loses an error, an OCO does not complete on a cancel that
\* Robinhood refused: a leg that filled before its cancel came ends the job as failed.
THEOREM CompletedOcosWereCancelled == Spec => []OcoCompletesByItsCancel
<1>1. IInv => OcoCompletesByItsCancel
  BY DEF IInv, OcoInv, Calm, OcoCompletesByItsCancel
<1>2. QED
  BY <1>1, ExitsInvariant, PTL

\* The exits of a bracket wait for its entry.
THEOREM ExitsWaitForEntry == Spec => []ExitsNeedEntry
<1>1. IInv => ExitsNeedEntry
  BY DEF IInv, ExitTypes, StateTypes, BracketState, BracketInv, ExitsNeedEntry
<1>2. QED
  BY <1>1, ExitsInvariant, PTL

\* A trailing stop that no crash and no halt disturbed sends one exit at most.
THEOREM OneTrailingExit == Spec => []TrailingExitsOnce
<1>1. IInv => TrailingExitsOnce
  <2>1. SUFFICES ASSUME IInv, strategy = "trailing_stop", disturbed = {}
                 PROVE  Cardinality({l \in Legs : order[l] # "absent"}) <= 1
    BY DEF TrailingExitsOnce
  <2> DEFINE sent == {l \in Legs : order[l] # "absent"}
  <2>2. \A k, l \in sent : k = l
    BY <2>1 DEF IInv, TrailingInv, Touched
  <2>3. CASE sent = {}
    BY <2>3, FS_EmptySet
  <2>4. CASE sent # {}
    <3>1. PICK l \in sent : sent = {l}
      BY <2>2, <2>4
    <3>2. QED
      BY <3>1, FS_Singleton
  <2>5. QED
    BY <2>3, <2>4
<1>2. QED
  BY <1>1, ExitsInvariant, PTL

\* When an OCO completes, no leg is live if nothing disturbed it, and a survivor whose order
\* id is known is not live whatever happened.  One that fails may leave a leg live
\* (oco.ts:348-365), and says so.
THEOREM OcoClosesItsLegs == Spec => OcoEndsClosed
<1>1. ASSUME IInv, [Next]_hostVars,
             strategy = "oco", status # "completed", status' = "completed"
      PROVE  /\ disturbed = {} => \A l \in ExitLegs : order[l] # "live"
             /\ Twin(state.filledBy) \notin OpenSet
  <2>1. HostNext \/ FailJob
    <3>1. ~UNCHANGED hostVars
      BY <1>1 DEF hostVars, database
    <3>2. ASSUME OcoAdvance \/ BracketAdvance \/ TrailingAdvance PROVE FALSE
      <4>1. ~OcoAdvance /\ ~BracketAdvance
        BY <1>1, OcoStepIsTyped, BracketStepIsTyped DEF Stepped
      <4>2. ~TrailingAdvance
        BY <1>1 DEF TrailingAdvance, TrailingNoPrice, Dormant, Arm, Trail, Trailing, Called
      <4>3. QED
        BY <3>2, <4>1, <4>2
    <3>3. QED
      BY <1>1, <3>1, <3>2 DEF Next, Advance, AdvanceThrows
  <2>2. done.status = "completed"
    BY <1>1, <2>1, ActionsAreUsedUp DEF IInv
  <2>3. /\ state.phase = "cancelling" /\ state.filledBy \in ExitLegs
        /\ order[Twin(state.filledBy)] \in {"filled", "cancelled"}
        /\ disturbed = {} => order[state.filledBy] = "filled"
    BY <1>1, <2>2 DEF IInv, OcoInv
  <2>4. \A l \in ExitLegs : l = state.filledBy \/ l = Twin(state.filledBy)
    BY <2>3, TwoLegs DEF ExitLegs
  <2>5. QED
    BY <2>3, <2>4 DEF OpenSet
<1>2. IInv /\ [Next]_hostVars =>
        [strategy = "oco" /\ status # "completed" /\ status' = "completed" =>
           /\ disturbed = {} => \A l \in ExitLegs : order[l] # "live"
           /\ Twin(state.filledBy) \notin OpenSet]_hostVars
  BY <1>1
<1>3. QED
  BY <1>2, ExitsInvariant, PTL DEF Spec, OcoEndsClosed

\* The stop of a trailing stop never moves back, whatever is read, lost or restarted.
THEOREM TrailsNeverRetreat == Spec => TrailNeverRetreats
<1>1. ASSUME IInv, [Next]_hostVars, strategy = "trailing_stop", state.watermark # NoPrice
      PROVE  AtLeast(state.side, state'.watermark, state.watermark)
  <2>1. state.watermark \in Nat
    <3>1. state \in TrailingStopState /\ NoPrice \in Nat
      BY <1>1 DEF IInv, ExitTypes, StateTypes, NoPrice
    <3>2. state.watermark \in Prices \union {NoPrice}
      BY <3>1 DEF TrailingStopState
    <3>3. QED
      BY <3>1, <3>2, TrailingStopAssumption DEF TrailingStopAssumption
  <2>2. CASE state' = state
    BY <2>1, <2>2 DEF AtLeast
  <2>3. CASE TrailingAdvance
    BY <1>1, <2>3, TrailingKeepsExits
  <2>4. CASE HostNext \/ FailJob \/ UNCHANGED hostVars
    BY <1>1, <2>2, <2>4, ActionsAreUsedUp DEF IInv, hostVars, database
  <2>5. ~OcoAdvance /\ ~BracketAdvance
    BY <1>1
    DEF OcoAdvance, OcoRoundedToZero, OcoPlace, OcoLegRejected, OcoMonitor, OcoDoubleFill,
        OcoCancelling, OcoIn, BracketAdvance, BracketRoundedToZero, BracketEntry,
        BracketSubmitRejected, BracketEntryFill, BracketExits, BracketMonitor, BracketIn, Called
  <2>6. QED
    BY <1>1, <2>3, <2>4, <2>5 DEF Next, Advance, AdvanceThrows
<1>2. IInv /\ [Next]_hostVars =>
        [strategy = "trailing_stop" /\ state.watermark # NoPrice =>
           AtLeast(state.side, state'.watermark, state.watermark)]_hostVars
  BY <1>1
<1>3. QED
  BY <1>2, ExitsInvariant, PTL DEF Spec, TrailNeverRetreats
=============================================================================
