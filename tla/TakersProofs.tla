---------------------------- MODULE TakersProofs ----------------------------
(***************************************************************************)
(* Theorems about the strategies that send orders by plan or signal, for   *)
(* every finite set of client order ids, every number of crashes, every    *)
(* fault, quote, plan and quantity.                                        *)
(***************************************************************************)
EXTENDS Takers, HostProofs, SequenceTheorems

\* No strategy of these cancels an order.
OnlySends == cancelSent \union Cancelled = {}

\* Every order of the job has a claim on what the state has released: the claim covers
\* what the order has traded and may still trade, and what the step being performed has
\* still to send under its id, and the claims add up to no more than was released.
Covers(claim) ==
  /\ \A l \in Legs : Exposure(l) <= claim[l]
  /\ \A i \in DOMAIN actions : actions[i].request.size <= claim[actions[i].leg]
  /\ SumFunctionOnSet(claim, Legs) <= Released

ClaimsInv == \E claim \in [Legs -> Nat] : Covers(claim)

\* The slices of a TWAP are multiples of the increment, and the last one takes what is left.
TwapInv ==
  strategy = "twap" =>
    /\ state \in TwapState
    /\ state.filledQuantity <= state.total
    /\ state.filledQuantity % Increment = 0
    /\ state.slicesDone = Slices => state.filledQuantity = RoundDown(state.total)

DcaInv == strategy = "dca" => state \in DcaState

AccumulateInv ==
  strategy = "accumulate" => state \in AccumulateState /\ state.acquiredQuantity <= state.target

\* Every rung of a ladder has an id and a size of its own.
LadderInv ==
  strategy = "ladder" =>
    /\ state \in LadderState
    /\ \A i, j \in 1 .. Rungs : state.ids[i] = state.ids[j] => i = j
    /\ \A i \in 1 .. Rungs : BuildRungs(state.distribution)[i] > 0
    /\ \A i \in 1 .. Rungs : order[state.ids[i]] # "absent" =>
         request[state.ids[i]].size = BuildRungs(state.distribution)[i]
    /\ \A n \in DOMAIN actions, i \in 1 .. Rungs : actions[n].leg = state.ids[i] =>
         actions[n].request.size = BuildRungs(state.distribution)[i]

\* What a rebalance knows of each leg of its plan; a leg that waits has sent nothing.
RebalanceInv ==
  strategy = "rebalance" =>
    /\ state \in RebalanceState
    /\ state.status \in [DOMAIN state.plan -> LegStatus]
    /\ state.attempts \in [DOMAIN state.plan -> 0 .. MAX_LEG_ATTEMPTS]
    /\ state.executed \in [DOMAIN state.plan -> Nat]
    /\ \A i \in DOMAIN state.plan :
         /\ state.status[i] = "pending" =>
              state.executed[i] = 0 /\ state.attempts[i] < MAX_LEG_ATTEMPTS
         /\ state.plan[i].side = "sell" => state.executed[i] <= state.plan[i].heldQuantity

\* A position has a side by the time it is entered, and no tick is counted in it before.
SignalInv ==
  /\ strategy = "momentum" => state \in MomentumState
  /\ strategy = "mean_reversion" =>
       state \in MeanReversionState /\ (state.phase = "in_position" => state.side \in Sides)
  /\ strategy \in Signals /\ state.phase = "watching" => state.fresh

\* A job completes without a reason only when all it was asked for is released.
Whole ==
  CASE strategy = "twap"       -> state.filledQuantity = RoundDown(state.total)
    [] strategy = "dca"        -> state.occurrencesDone = Occurrences
    [] strategy = "accumulate" -> state.acquiredQuantity = state.target
    [] strategy = "ladder"     -> state.placed = Rungs
    [] OTHER                   -> TRUE

Finishes == (done.status = "completed" /\ ~done.reason) \/ (status = "completed" /\ ~lastError)

EndsInv == Finishes => Whole

\* An order is accepted, or still to be sent, or its failure will be read.
Settled(l)  == Over \/ intent[l] = "submitted"
Answered(l) == Settled(l) \/ lastError \/ l \in Due

\* A ladder that nothing disturbs has every rung before the last batch accepted, and
\* completes when all of them are.
LadderCalmInv ==
  strategy = "ladder" /\ disturbed = {} =>
    /\ \A i \in 1 .. state.placed :
         Answered(state.ids[i]) /\ (state.batch \/ Settled(state.ids[i]))
    /\ Finishes => \A i \in 1 .. Rungs : intent[state.ids[i]] = "submitted"

\* The orders of a position that nothing disturbs are those of its entry until the entry
\* has filled; past the deadline nothing is said.
SentOrDue(l) == order[l] # "absent" \/ l \in Due

PositionCalmInv ==
  strategy \in Signals /\ disturbed = {} /\ ~Expired =>
    /\ state.phase = "watching" => \A l \in Legs : ~SentOrDue(l)
    /\ state.phase = "in_position" =>
         \E entry \in Legs :
           /\ (state.fresh /\ Answered(entry)) \/ order[entry] = "filled"
           /\ \A l \in Legs : SentOrDue(l) => l = entry
           /\ \A n \in DOMAIN actions : actions[n].request = Market(state.side, PositionSize)
           /\ order[entry] # "absent" => request[entry] = Market(state.side, PositionSize)
    /\ state.phase = "exited" /\ (HasExited \/ Due # {}) => HasEntered

\* Each leg of a plan that a rebalance has sent has an order of its own, and all sells of
\* an undisturbed one were accepted before a buy is sent.
Sends(i) == state.status[i] = "submitted"

Belongs(id) ==
  /\ \A i, j \in DOMAIN state.plan : Sends(i) /\ Sends(j) /\ id[i] = id[j] => i = j
  /\ \A l \in Legs : SentOrDue(l) => \E i \in DOMAIN state.plan : Sends(i) /\ id[i] = l
  /\ \A i \in DOMAIN state.plan : Sends(i) =>
       /\ Answered(id[i]) /\ (state.lastBatch \/ Settled(id[i]))
       /\ order[id[i]] # "absent" =>
            request[id[i]].market /\ request[id[i]].side = state.plan[i].side
       /\ \A n \in DOMAIN actions : actions[n].leg = id[i] =>
            actions[n].request.market /\ actions[n].request.side = state.plan[i].side
  /\ (\E i \in DOMAIN state.plan : Sends(i) /\ state.plan[i].side = "buy") =>
       \A i \in DOMAIN state.plan : state.plan[i].side = "sell" =>
         state.status[i] # "pending" /\ (Sends(i) => intent[id[i]] = "submitted")

RebalanceCalmInv ==
  strategy = "rebalance" /\ disturbed = {} => \E id \in [DOMAIN state.plan -> Legs] : Belongs(id)

IInv ==
  /\ HostInv /\ CalmInv /\ OnlySends /\ now \in 0 .. Duration
  /\ ClaimsInv /\ EndsInv
  /\ TwapInv /\ DcaInv /\ AccumulateInv /\ LadderInv /\ RebalanceInv /\ SignalInv
  /\ LadderCalmInv /\ PositionCalmInv /\ RebalanceCalmInv
-----------------------------------------------------------------------------
(***************************************************************************)
(* What happens around a strategy.                                         *)
(***************************************************************************)

\* The claims still cover everything: what an order exposes beyond what it did, an action
\* of the step asked for.
LEMMA HostKeepsClaims ==
  ASSUME HostInv, ClaimsInv, HostNext \/ FailJob
  PROVE  ClaimsInv'
<1>1. PICK claim \in [Legs -> Nat] : Covers(claim)
  BY DEF ClaimsInv
<1>2. /\ UNCHANGED <<strategy, state>>
      /\ \A i \in DOMAIN actions' : \E j \in DOMAIN actions : actions[j] = actions'[i]
  BY ActionsAreUsedUp, TailsAreParts
<1>3. \A l \in Legs : Exposure(l)' <= claim[l]
  <2>1. TAKE l \in Legs
  <2>2. Exposure(l) \in Nat /\ Exposure(l)' \in Nat /\ claim[l] \in Nat
    <3>1. HostInv'
      BY HostKeepsHost
    <3>2. QED
      BY <3>1 DEF HostInv, HostTypes, Request, Exposure
  <2>3. CASE Exposure(l)' <= Exposure(l)
    BY <1>1, <2>2, <2>3 DEF Covers
  <2>4. ASSUME NEW i \in DOMAIN actions,
               actions[i].leg = l, Exposure(l)' = actions[i].request.size
        PROVE  Exposure(l)' <= claim[l]
    BY <1>1, <2>4 DEF Covers
  <2>5. QED
    BY <2>3, <2>4, ExposureIsAskedFor
<1>4. \A i \in DOMAIN actions' : actions'[i].request.size <= claim[actions'[i].leg]
  BY <1>1, <1>2 DEF Covers
<1>5. SumFunctionOnSet(claim, Legs) <= Released'
  <2>1. Released' = Released
    BY <1>2 DEF Released
  <2>2. QED
    BY <1>1, <2>1 DEF Covers
<1>6. QED
  BY <1>3, <1>4, <1>5 DEF ClaimsInv, Covers

\* No step around the strategy completes a job that was not to be completed.
LEMMA HostFinishesNothing ==
  ASSUME HostInv, HostNext \/ FailJob, Finishes'
  PROVE  Finishes
<1>1. done' \in {done, NotDone}
  BY ActionsAreUsedUp
<1>2. QED
  BY <1>1, EndsAsPlanned DEF Finishes, NotDone

\* And so a job that completes without a reason has released all of it.
LEMMA HostKeepsEnds ==
  ASSUME HostInv, EndsInv, HostNext \/ FailJob
  PROVE  EndsInv'
<1>1. UNCHANGED <<strategy, state>>
  BY ActionsAreUsedUp
<1>2. Whole' = Whole
  BY <1>1 DEF Whole
<1>3. QED
  BY <1>2, HostFinishesNothing DEF EndsInv

\* What was sent or is to be sent was so before.
LEMMA NothingElseIsSent ==
  ASSUME HostInv, HostNext \/ FailJob, NEW l \in Legs, SentOrDue(l)'
  PROVE  SentOrDue(l)
<1>1. CASE order'[l] # "absent"
  BY <1>1, OrdersAreAskedFor DEF SentOrDue, Due
<1>2. CASE l \in Due'
  BY <1>2, ActionsAreUsedUp DEF SentOrDue
<1>3. QED
  BY <1>1, <1>2 DEF SentOrDue

\* What a history without a crash or a halt has come to stays so.
LEMMA SettledStays ==
  ASSUME HostInv, CalmInv, Calm', HostNext \/ FailJob, NEW l \in Legs
  PROVE  /\ Settled(l) => Settled(l)'
         /\ Answered(l) => Answered(l)'
<1>1. Settled(l) => Settled(l)'
  BY OverIsFinal, OrdersMoveOn DEF Settled, Onward
<1>2. Answered(l) => Answered(l)'
  BY <1>1, DueIsSent DEF Answered, Settled
<1>3. QED
  BY <1>1, <1>2

\* Nothing disturbs a job that was disturbed before.
LEMMA UndisturbedBefore ==
  ASSUME HostInv, HostNext \/ FailJob, disturbed' = {}
  PROVE  disturbed = {} /\ Calm'
BY ActionsAreUsedUp DEF Calm

\* The rungs keep their sizes.
LEMMA HostKeepsLadder ==
  ASSUME HostInv, LadderInv, HostNext \/ FailJob
  PROVE  LadderInv'
<1>1. /\ UNCHANGED <<strategy, state>>
      /\ \A i \in DOMAIN actions' : \E j \in DOMAIN actions : actions[j] = actions'[i]
  BY ActionsAreUsedUp, TailsAreParts
<1>2. SUFFICES ASSUME strategy = "ladder" PROVE LadderInv'
  BY <1>1 DEF LadderInv
<1>3. ASSUME NEW i \in 1 .. Rungs, order'[state.ids[i]] # "absent"
      PROVE  request'[state.ids[i]].size = BuildRungs(state.distribution)[i]
  <2>1. PICK l \in Legs : l = state.ids[i]
    BY <1>2 DEF LadderInv, LadderState
  <2>2. CASE order[l] # "absent" /\ request'[l] = request[l]
    BY <1>2, <2>1, <2>2 DEF LadderInv
  <2>3. ASSUME NEW n \in DOMAIN actions, actions[n].leg = l, actions[n].request = request'[l]
        PROVE  request'[l].size = BuildRungs(state.distribution)[i]
    BY <1>2, <2>1, <2>3 DEF LadderInv
  <2>4. QED
    BY <1>3, <2>1, <2>2, <2>3, OrdersAreAskedFor
<1>4. ASSUME NEW n \in DOMAIN actions', NEW i \in 1 .. Rungs, actions'[n].leg = state.ids[i]
      PROVE  actions'[n].request.size = BuildRungs(state.distribution)[i]
  BY <1>1, <1>2, <1>4 DEF LadderInv
<1>5. QED
  BY <1>1, <1>2, <1>3, <1>4 DEF LadderInv

\* What a calm ladder has had accepted stays accepted.
LEMMA HostKeepsLadderCalm ==
  ASSUME HostInv, CalmInv, LadderInv, LadderCalmInv, HostNext \/ FailJob
  PROVE  LadderCalmInv'
<1>1. UNCHANGED <<strategy, state>>
  BY ActionsAreUsedUp
<1>2. SUFFICES ASSUME strategy = "ladder", disturbed' = {} PROVE LadderCalmInv'
  BY <1>1 DEF LadderCalmInv
<1>3. disturbed = {} /\ Calm'
  BY <1>2, UndisturbedBefore
<1>4. \A i \in 1 .. Rungs : state.ids[i] \in Legs
  BY <1>2 DEF LadderInv, LadderState
<1>5. state.placed \in 0 .. Rungs /\ Rungs \in Nat
  BY <1>2, LadderAssumption DEF LadderInv, LadderState, LadderAssumption
<1>6. ASSUME NEW i \in 1 .. state.placed
      PROVE  Answered(state.ids[i])' /\ (state'.batch \/ Settled(state.ids[i])')
  <2>1. PICK l \in Legs : l = state.ids[i]
    BY <1>4, <1>5
  <2>2. Answered(l) /\ (state.batch \/ Settled(l))
    BY <1>2, <1>3, <2>1 DEF LadderCalmInv
  <2>3. Answered(l)' /\ (state.batch \/ Settled(l)')
    BY <1>3, <2>2, SettledStays
  <2>4. l = state'.ids[i]
    BY <1>1, <2>1
  <2>5. Answered(state.ids[i])' /\ (Settled(l)' => Settled(state.ids[i])')
    BY <2>3, <2>4 DEF Answered, Settled
  <2>6. QED
    BY <1>1, <2>3, <2>5
<1>7. ASSUME Finishes', NEW i \in 1 .. Rungs PROVE intent'[state.ids[i]] = "submitted"
  <2>1. PICK l \in Legs : l = state.ids[i]
    BY <1>4
  <2>2. intent[l] = "submitted"
    BY <1>2, <1>3, <1>7, <2>1, HostFinishesNothing DEF LadderCalmInv
  <2>3. QED
    BY <2>1, <2>2, OrdersMoveOn DEF Onward
<1>8. QED
  BY <1>1, <1>6, <1>7 DEF LadderCalmInv

\* A filled order keeps its request.
LEMMA FilledIsKept ==
  ASSUME HostInv, HostNext \/ FailJob, NEW l \in Legs, order[l] = "filled"
  PROVE  request'[l] = request[l]
<1>1. CASE SendOrder
  <2>1. order[Leg] = "absent"
    BY <1>1 DEF SendOrder, HostInv, ProcessInv
  <2>2. QED
    BY <1>1, <2>1 DEF SendOrder, HostInv, HostTypes
<1>2. ASSUME NEW k \in Legs,
             Judge(k) \/ LoseRequest(k) \/ Fill(k) \/ CancelTakesEffect(k) \/ CancelledOutside(k)
      PROVE  request'[l] = request[l]
  BY <1>2
  DEF Judge, LoseRequest, Fill, CancelTakesEffect, CancelledOutside, Fills, HostInv, HostTypes
<1>3. CASE Tick \/ FailJob \/ EndAdvance \/ UpdateThrows \/ Crash \/ Restart \/ Operator
  BY <1>3
  DEF Tick, FailJob, EndAdvance, UpdateThrows, Crash, Restart, Operator, Engage, Release,
      CancelJob, upstream
<1>4. CASE Perform /\ ~SendOrder
  BY <1>4
  DEF Perform, RefuseOrder, ReserveIntent, RefuseReserved, OrderRefused, AnswerLost,
      OrderAnswered, CancelOrder, CancelFails, SettleFailed, upstream
<1>5. QED
  BY <1>1, <1>2, <1>3, <1>4 DEF HostNext, Process, Robinhood

\* The entry of a calm position stays its only order, and an exit means an entry.
LEMMA HostKeepsPositionCalm ==
  ASSUME HostInv, CalmInv, PositionCalmInv, HostNext \/ FailJob, UNCHANGED now
  PROVE  PositionCalmInv'
<1>1. UNCHANGED <<strategy, state>> /\ Due' \subseteq Due
  BY ActionsAreUsedUp
<1>2. SUFFICES ASSUME strategy \in Signals, disturbed' = {}, ~Expired PROVE PositionCalmInv'
  BY <1>1 DEF PositionCalmInv, Expired, Signals
<1>3. disturbed = {} /\ Calm'
  BY <1>2, UndisturbedBefore
<1>4. /\ order \in [Legs -> OrderStatus] /\ request \in [Legs -> Request]
      /\ order' \in [Legs -> OrderStatus] /\ request' \in [Legs -> Request]
  BY HostKeepsHost DEF HostInv, HostTypes
<1>5. ASSUME state.phase = "watching", NEW l \in Legs PROVE ~SentOrDue(l)'
  BY <1>2, <1>3, <1>5, NothingElseIsSent DEF PositionCalmInv
<1>6. ASSUME state.phase = "in_position"
      PROVE  \E entry \in Legs :
               /\ (state.fresh /\ Answered(entry)') \/ order'[entry] = "filled"
               /\ \A l \in Legs : SentOrDue(l)' => l = entry
               /\ \A n \in DOMAIN actions' : actions'[n].request = Market(state.side, PositionSize)
               /\ order'[entry] # "absent" => request'[entry] = Market(state.side, PositionSize)
  <2>1. PICK entry \in Legs :
          /\ (state.fresh /\ Answered(entry)) \/ order[entry] = "filled"
          /\ \A l \in Legs : SentOrDue(l) => l = entry
          /\ \A n \in DOMAIN actions : actions[n].request = Market(state.side, PositionSize)
          /\ order[entry] # "absent" => request[entry] = Market(state.side, PositionSize)
    BY <1>2, <1>3, <1>6 DEF PositionCalmInv
  <2>2. Answered(entry) => Answered(entry)'
    BY <1>3, SettledStays
  <2>3. order[entry] = "filled" => order'[entry] = "filled"
    BY OrdersMoveOn DEF Onward
  <2>4. \A l \in Legs : SentOrDue(l)' => l = entry
    BY <2>1, NothingElseIsSent
  <2>5. \A n \in DOMAIN actions' : actions'[n].request = Market(state.side, PositionSize)
    <3>1. \A i \in DOMAIN actions' : \E j \in DOMAIN actions : actions[j] = actions'[i]
      BY ActionsAreUsedUp, TailsAreParts
    <3>2. QED
      BY <2>1, <3>1
  <2>6. order'[entry] # "absent" => request'[entry] = Market(state.side, PositionSize)
    BY <2>1, OrdersAreAskedFor
  <2>7. QED
    BY <2>1, <2>2, <2>3, <2>4, <2>5, <2>6
<1>7. ASSUME state.phase = "exited", HasExited' \/ Due' # {} PROVE HasEntered'
  <2>1. HasExited \/ Due # {}
    <3>1. CASE Due' # {}
      BY <1>1, <3>1
    <3>2. CASE HasExited'
      <4>1. PICK l \in Legs : order'[l] # "absent" /\ request'[l].side = Opposite(state.side)
        BY <1>1, <3>2 DEF HasExited, SentOf, Sent
      <4>2. CASE order[l] # "absent" /\ request'[l] = request[l]
        BY <4>1, <4>2 DEF HasExited, SentOf, Sent
      <4>3. CASE l \in Due
        BY <4>3
      <4>4. QED
        BY <4>1, <4>2, <4>3, OrdersAreAskedFor DEF Due
    <3>3. QED
      BY <1>7, <3>1, <3>2
  <2>2. HasEntered
    BY <1>2, <1>3, <1>7, <2>1 DEF PositionCalmInv
  <2>3. PICK l \in Legs : order[l] = "filled" /\ request[l].side = state.side
    BY <2>2 DEF HasEntered, SentOf, Sent
  <2>4. order'[l] = "filled"
    BY <2>3, OrdersMoveOn DEF Onward
  <2>5. request'[l] = request[l]
    BY <2>3, FilledIsKept
  <2>6. QED
    BY <1>1, <2>3, <2>4, <2>5 DEF HasEntered, SentOf, Sent
<1>8. QED
  BY <1>1, <1>5, <1>6, <1>7 DEF PositionCalmInv

\* A rebalance knows no more and no less of its legs.
LEMMA HostKeepsStates ==
  ASSUME HostInv, HostNext \/ FailJob
  PROVE  /\ TwapInv => TwapInv'
         /\ DcaInv => DcaInv'
         /\ AccumulateInv => AccumulateInv'
         /\ RebalanceInv => RebalanceInv'
         /\ SignalInv => SignalInv'
<1>1. UNCHANGED <<strategy, state>>
  BY ActionsAreUsedUp
<1>2. QED
  BY <1>1 DEF TwapInv, DcaInv, AccumulateInv, RebalanceInv, SignalInv, Signals

\* The legs a calm rebalance has sent keep their orders.
LEMMA HostKeepsRebalanceCalm ==
  ASSUME HostInv, CalmInv, RebalanceInv, RebalanceCalmInv, HostNext \/ FailJob
  PROVE  RebalanceCalmInv'
<1>1. UNCHANGED <<strategy, state>>
  BY ActionsAreUsedUp
<1>2. SUFFICES ASSUME strategy = "rebalance", disturbed' = {} PROVE RebalanceCalmInv'
  BY <1>1 DEF RebalanceCalmInv
<1>3. disturbed = {} /\ Calm'
  BY <1>2, UndisturbedBefore
<1>4. PICK id \in [DOMAIN state.plan -> Legs] : Belongs(id)
  BY <1>2, <1>3 DEF RebalanceCalmInv
<1>5. \A i, j \in DOMAIN state.plan : Sends(i) /\ Sends(j) /\ id[i] = id[j] => i = j
  BY <1>4 DEF Belongs
<1>6. \A l \in Legs : SentOrDue(l)' => \E i \in DOMAIN state.plan : Sends(i) /\ id[i] = l
  BY <1>4, NothingElseIsSent DEF Belongs
<1>7. ASSUME NEW i \in DOMAIN state.plan, Sends(i)
      PROVE  /\ Answered(id[i])' /\ (state.lastBatch \/ Settled(id[i])')
             /\ order'[id[i]] # "absent" =>
                  request'[id[i]].market /\ request'[id[i]].side = state.plan[i].side
             /\ \A n \in DOMAIN actions' : actions'[n].leg = id[i] =>
                  actions'[n].request.market /\ actions'[n].request.side = state.plan[i].side
  <2>1. PICK l \in Legs : l = id[i]
    OBVIOUS
  <2>2. /\ Answered(l) /\ (state.lastBatch \/ Settled(l))
        /\ order[l] # "absent" => request[l].market /\ request[l].side = state.plan[i].side
        /\ \A n \in DOMAIN actions : actions[n].leg = l =>
             actions[n].request.market /\ actions[n].request.side = state.plan[i].side
    BY <1>4, <1>7, <2>1 DEF Belongs
  <2>3. Answered(l)' /\ (state.lastBatch \/ Settled(l)')
    BY <1>3, <2>2, SettledStays
  <2>4. order'[l] # "absent" => request'[l].market /\ request'[l].side = state.plan[i].side
    BY <2>2, OrdersAreAskedFor
  <2>5. \A n \in DOMAIN actions' : actions'[n].leg = l =>
          actions'[n].request.market /\ actions'[n].request.side = state.plan[i].side
    <3>1. \A m \in DOMAIN actions' : \E j \in DOMAIN actions : actions[j] = actions'[m]
      BY ActionsAreUsedUp, TailsAreParts
    <3>2. QED
      BY <2>2, <3>1
  <2>6. QED
    BY <2>1, <2>3, <2>4, <2>5 DEF Answered, Settled
<1>8. ASSUME \E i \in DOMAIN state.plan : Sends(i) /\ state.plan[i].side = "buy",
             NEW i \in DOMAIN state.plan, state.plan[i].side = "sell"
      PROVE  state.status[i] # "pending" /\ (Sends(i) => intent'[id[i]] = "submitted")
  <2>1. state.status[i] # "pending" /\ (Sends(i) => intent[id[i]] = "submitted")
    BY <1>4, <1>8 DEF Belongs
  <2>2. PICK l \in Legs : l = id[i]
    OBVIOUS
  <2>3. QED
    BY <2>1, <2>2, OrdersMoveOn DEF Onward
<1>9. Belongs(id)'
  <2>1. \A i : Sends(i)' = Sends(i)
    BY <1>1 DEF Sends
  <2>2. QED
    BY <1>1, <1>5, <1>6, <1>7, <1>8, <2>1 DEF Belongs
<1>10. QED
  BY <1>1, <1>9 DEF RebalanceCalmInv

\* No action of the engine cancels what no strategy has asked to cancel.
LEMMA HostOnlySends ==
  ASSUME HostInv, OnlySends, HostNext \/ FailJob
  PROVE  OnlySends'
BY ActionsAreUsedUp DEF OnlySends

\* Time passes for the job alone.
LEMMA TimeKeepsIInv ==
  ASSUME IInv, UNCHANGED hostVars, now' = now \/ PassTime
  PROVE  IInv'
<1> USE DEF hostVars, database, memory, upstream, history
<1>1. now \in 0 .. Duration /\ now' \in 0 .. Duration /\ now <= now'
  BY ClockAssumption DEF IInv, ClockAssumption, PassTime
<1>2. HostInv' /\ CalmInv'
  BY StutterKeepsHost, StutterKeepsCalm DEF IInv
<1>3. OnlySends'
  BY DEF IInv, OnlySends, Cancelled
<1>4. ClaimsInv'
  <2>1. Released' = Released /\ \A l : Exposure(l)' = Exposure(l)
    BY DEF Released, Exposure, InTheBook
  <2>2. QED
    BY <2>1 DEF IInv, ClaimsInv, Covers
<1>5. EndsInv'
  BY DEF IInv, EndsInv, Finishes, Whole
<1>6. TwapInv' /\ DcaInv' /\ AccumulateInv' /\ LadderInv' /\ RebalanceInv' /\ SignalInv'
  BY DEF IInv, TwapInv, DcaInv, AccumulateInv, LadderInv, RebalanceInv, SignalInv, Signals
<1>7. \A l : /\ Answered(l)' = Answered(l) /\ Settled(l)' = Settled(l)
             /\ SentOrDue(l)' = SentOrDue(l)
  BY DEF Answered, Settled, SentOrDue, Over, Due
<1>8. LadderCalmInv'
  BY <1>7 DEF IInv, LadderCalmInv, Finishes
<1>9. PositionCalmInv'
  <2>1. Expired => Expired'
    BY <1>1, ClockAssumption DEF Expired, ClockAssumption
  <2>2. HasExited' = HasExited /\ HasEntered' = HasEntered /\ Due' = Due
    BY DEF HasExited, HasEntered, SentOf, Sent, Due
  <2>3. QED
    BY <1>7, <2>1, <2>2 DEF IInv, PositionCalmInv
<1>10. RebalanceCalmInv'
  <2>1. \A id : Belongs(id)' = Belongs(id)
    BY <1>7 DEF Belongs, Sends
  <2>2. QED
    BY <2>1 DEF IInv, RebalanceCalmInv
<1>11. QED
  BY <1>1, <1>2, <1>3, <1>4, <1>5, <1>6, <1>8, <1>9, <1>10 DEF IInv

\* Whatever happens around a strategy keeps the invariant.
LEMMA HostKeepsIInv ==
  ASSUME IInv, HostNext \/ FailJob, UNCHANGED now
  PROVE  IInv'
<1>1. HostInv' /\ CalmInv'
  BY HostKeepsHost, HostKeepsCalm DEF IInv
<1>2. OnlySends' /\ now' \in 0 .. Duration
  BY HostOnlySends DEF IInv
<1>3. ClaimsInv' /\ EndsInv'
  BY HostKeepsClaims, HostKeepsEnds DEF IInv
<1>4. TwapInv' /\ DcaInv' /\ AccumulateInv' /\ LadderInv' /\ RebalanceInv' /\ SignalInv'
  BY HostKeepsStates, HostKeepsLadder DEF IInv
<1>5. LadderCalmInv' /\ PositionCalmInv' /\ RebalanceCalmInv'
  BY HostKeepsLadderCalm, HostKeepsPositionCalm, HostKeepsRebalanceCalm DEF IInv
<1>6. QED
  BY <1>1, <1>2, <1>3, <1>4, <1>5 DEF IInv
-----------------------------------------------------------------------------
(***************************************************************************)
(* The steps of the strategies.                                            *)
(***************************************************************************)

Orders == {a \in Sendable : a.type = "submit"}

\* A step that only sends keeps the protocol, and what it gives back is what is done next.
LEMMA StepIsTaken ==
  ASSUME HostInv, CalmInv, OnlySends, pc = "called", ReadsNothing,
         NEW newState, NEW newActions \in Seq(Orders), NEW ending \in Endings,
         Return(newState, newActions, ending)
  PROVE  /\ Stepped /\ HostInv' /\ CalmInv' /\ OnlySends'
         /\ state' = newState /\ actions' = newActions /\ done' = ending
         /\ ~Over /\ Due = {}
         /\ Calm => row.lastError = lastError
<1>1. /\ Stepped /\ state' = newState /\ actions' = newActions /\ done' = ending
      /\ ~Over /\ Due = {} /\ Cancelled = {}
  BY ReturnIsStep
<1>2. newActions \in Seq(Sendable) /\ \A i \in DOMAIN newActions : newActions[i].type = "submit"
  BY DEF Orders
<1>3. HostInv'
  <2>1. read' \in SUBSET Legs
    BY ReadingIsTyped
  <2>2. QED
    BY <1>1, <1>2, <2>1, StepKeepsHost
<1>4. CalmInv'
  BY <1>1, StepKeepsCalm
<1>5. OnlySends'
  BY <1>1, <1>2, SteppedKeepsOrders DEF OnlySends, Cancelled
<1>6. Calm => row.lastError = lastError
  BY DEF CalmInv
<1>7. QED
  BY <1>1, <1>3, <1>4, <1>5, <1>6

\* A step that releases what its actions send covers them: every action takes its share of
\* what is released beyond what was.
LEMMA StepKeepsClaims ==
  ASSUME HostInv, ClaimsInv, Stepped,
         NEW D, IsFiniteSet(D), NEW m \in [D -> Legs], NEW q, \A d \in D : q[d] \in Nat,
         \A i \in DOMAIN actions' : \E d \in D :
           m[d] = actions'[i].leg /\ q[d] = actions'[i].request.size,
         Released \in Nat, Released' \in Nat, Released + SumFunctionOnSet(q, D) <= Released'
  PROVE  ClaimsInv'
<1>1. PICK claim \in [Legs -> Nat] : Covers(claim)
  BY DEF ClaimsInv
<1>2. IsFiniteSet(Legs)
  BY StrategyHostAssumption DEF StrategyHostAssumption
<1>3. PICK e \in [Legs -> Nat] :
        /\ \A l \in Legs : claim[l] <= e[l]
        /\ \A d \in D : q[d] <= e[m[d]]
        /\ SumFunctionOnSet(e, Legs) <= SumFunctionOnSet(claim, Legs) + SumFunctionOnSet(q, D)
  BY <1>2, SumClaims
<1>4. \A l \in Legs : Exposure(l)' <= e[l]
  <2>1. TAKE l \in Legs
  <2>2. Exposure(l)' = Exposure(l)
    BY SteppedKeepsOrders DEF Exposure, InTheBook
  <2>3. Exposure(l) \in Nat /\ claim[l] \in Nat /\ e[l] \in Nat
    BY DEF HostInv, HostTypes, Request, Exposure
  <2>4. Exposure(l) <= claim[l] /\ claim[l] <= e[l]
    BY <1>1, <1>3 DEF Covers
  <2>5. QED
    BY <2>2, <2>3, <2>4
<1>5. \A i \in DOMAIN actions' : actions'[i].request.size <= e[actions'[i].leg]
  BY <1>3
<1>6. SumFunctionOnSet(e, Legs) <= Released'
  <2>1. /\ SumFunctionOnSet(e, Legs) \in Nat /\ SumFunctionOnSet(claim, Legs) \in Nat
        /\ SumFunctionOnSet(q, D) \in Nat
    BY <1>2, SumType
  <2>2. SumFunctionOnSet(claim, Legs) <= Released
    BY <1>1 DEF Covers
  <2>3. QED
    BY <1>3, <2>1, <2>2
<1>7. QED
  BY <1>4, <1>5, <1>6 DEF ClaimsInv, Covers

\* A step that sends nothing releases no less.
LEMMA EmptyStepKeepsClaims ==
  ASSUME HostInv, ClaimsInv, Stepped, actions' = <<>>,
         Released \in Nat, Released' \in Nat, Released <= Released'
  PROVE  ClaimsInv'
<1>1. PICK D, m, q : D = {} /\ m = [d \in D |-> d] /\ q = m
  OBVIOUS
<1>2. IsFiniteSet(D) /\ m \in [D -> Legs] /\ \A d \in D : q[d] \in Nat
  BY <1>1, FS_EmptySet
<1>3. SumFunctionOnSet(q, D) = 0
  BY <1>1, SumEmpty
<1>4. DOMAIN actions' = {}
  OBVIOUS
<1>5. QED
  BY <1>2, <1>3, <1>4, StepKeepsClaims

\* A step that sends one order releases as much as it asks for.
LEMMA OneOrderKeepsClaims ==
  ASSUME HostInv, ClaimsInv, Stepped, NEW l \in Legs, NEW what \in Request,
         actions' = <<Submit(l, what)>>,
         Released \in Nat, Released' \in Nat, Released + what.size <= Released'
  PROVE  ClaimsInv'
<1>1. PICK D, m, q : D = {1} /\ m = [d \in D |-> l] /\ q = [d \in D |-> what.size]
  OBVIOUS
<1>2. what.size \in Nat
  BY DEF Request
<1>3. IsFiniteSet(D) /\ m \in [D -> Legs] /\ \A d \in D : q[d] \in Nat
  BY <1>1, <1>2, FS_Singleton
<1>4. SumFunctionOnSet(q, D) = what.size
  <2>1. PICK E : E = D \ {1}
    OBVIOUS
  <2>2. 1 \in D /\ E = {} /\ q[1] = what.size
    BY <1>1, <2>1
  <2>3. SumFunctionOnSet(q, D) = q[1] + SumFunctionOnSet(q, E)
    BY <1>3, <2>1, <2>2, SumRemove
  <2>4. SumFunctionOnSet(q, E) = 0
    BY <2>2, SumEmpty
  <2>5. QED
    BY <1>2, <2>2, <2>3, <2>4
<1>5. \A i \in DOMAIN actions' : \E d \in D :
        m[d] = actions'[i].leg /\ q[d] = actions'[i].request.size
  BY <1>1 DEF Submit
<1>6. QED
  BY <1>3, <1>4, <1>5, StepKeepsClaims
\* Division with a remainder.
LEMMA Divides ==
  ASSUME NEW k \in Nat \ {0}, NEW q \in Nat
  PROVE  \E p \in Nat, r \in 0 .. (k - 1) :
           p = q \div k /\ p <= q /\ r = q % k /\ q = k * p + r
<1>1. PICK p \in Nat : p = q \div k
  OBVIOUS
<1>2. PICK r \in 0 .. (k - 1) : r = q % k
  OBVIOUS
<1>3. p <= q /\ q = k * p + r
  BY <1>1, <1>2
<1>4. QED
  BY <1>1, <1>2, <1>3

\* The remainder is the only number below the divisor that is left.
LEMMA Remains ==
  ASSUME NEW k \in Nat \ {0}, NEW p \in Nat, NEW r \in 0 .. (k - 1)
  PROVE  (k * p + r) % k = r
OBVIOUS

\* What is left of a number after taking a multiple from it has the same remainder.
LEMMA RemainderOfRest ==
  ASSUME NEW k \in Nat \ {0}, NEW a \in Nat, NEW t \in Nat, a % k = 0, a <= t
  PROVE  (t - a) % k = t % k
<1>1. PICK p \in Nat, s \in 0 .. (k - 1) : p = a \div k /\ p <= a /\ s = a % k /\ a = k * p + s
  BY Divides
<1>2. PICK q \in Nat, r \in 0 .. (k - 1) : q = t \div k /\ q <= t /\ r = t % k /\ t = k * q + r
  BY Divides
<1>3. a = k * p
  BY <1>1
<1>4. p <= q
  <2>1. CASE q < p
    <3>1. k * (q + 1) <= k * p
      BY <2>1
    <3>2. QED
      BY <3>1, <1>2, <1>3
  <2>2. QED
    BY <2>1
<1>5. PICK d \in Nat : d = q - p
  BY <1>4
<1>6. t - a = k * d + r
  BY <1>2, <1>3, <1>5
<1>7. QED
  BY <1>2, <1>6, Remains

\* The sum of two multiples is one.
LEMMA MultiplesAddUp ==
  ASSUME NEW k \in Nat \ {0}, NEW a \in Nat, NEW b \in Nat, a % k = 0, b % k = 0
  PROVE  (a + b) % k = 0
<1>1. PICK p \in Nat, s \in 0 .. (k - 1) : p = a \div k /\ p <= a /\ s = a % k /\ a = k * p + s
  BY Divides
<1>2. PICK q \in Nat, r \in 0 .. (k - 1) : q = b \div k /\ q <= b /\ r = b % k /\ b = k * q + r
  BY Divides
<1>3. PICK d \in Nat : d = p + q
  OBVIOUS
<1>4. a + b = k * d + r /\ r = 0
  BY <1>1, <1>2, <1>3
<1>5. QED
  BY <1>4, Remains

\* Rounding down loses less than an increment, and comes to a multiple of it.
LEMMA RoundsDown ==
  ASSUME NEW n \in Nat
  PROVE  RoundDown(n) \in Nat /\ RoundDown(n) <= n /\ RoundDown(n) % Increment = 0
<1>1. PICK p \in Nat, r \in 0 .. (Increment - 1) :
        p = n \div Increment /\ p <= n /\ r = n % Increment /\ n = Increment * p + r
  BY Divides, SizesAssumption DEF SizesAssumption
<1>2. RoundDown(n) = Increment * p + 0 /\ 0 \in 0 .. (Increment - 1) /\ Increment * p \in Nat
  BY <1>1, SizesAssumption DEF RoundDown, SizesAssumption
<1>3. (Increment * p + 0) % Increment = 0
  BY <1>2, Remains, SizesAssumption DEF SizesAssumption
<1>4. QED
  BY <1>1, <1>2, <1>3

\* The actions of a step that sends one order, or none.
LEMMA OrdersAreTyped ==
  /\ <<>> \in Seq(Orders)
  /\ \A l \in Legs, what \in Request : what.size > 0 =>
       <<Submit(l, what)>> \in Seq(Orders)
<1>1. ASSUME NEW l \in Legs, NEW what \in Request, what.size > 0 PROVE Submit(l, what) \in Orders
  BY <1>1 DEF Orders, Sendable, Action, Submit
<1>2. QED
  BY <1>1

\* What an order asks for.
LEMMA RequestsAreTyped ==
  ASSUME NEW side \in Sides, NEW size \in Nat, NEW price \in Nat
  PROVE  /\ Limit(side, size, price) \in Request /\ Limit(side, size, price).size = size
         /\ Market(side, size) \in Request /\ Market(side, size).size = size
BY DEF Limit, Market, Request

\* What is released, by strategy.
LEMMA ReleasedIs ==
  /\ strategy = "twap" => Released = state.filledQuantity
  /\ strategy = "dca" => Released = state.occurrencesDone
  /\ strategy = "accumulate" => Released = state.acquiredQuantity
  /\ strategy = "ladder" =>
       Released = SumFunctionOnSet(BuildRungs(state.distribution), 1 .. state.placed)
  /\ strategy = "rebalance" =>
       Released = SumFunctionOnSet(state.executed, DOMAIN state.executed)
  /\ strategy \in Signals =>
       /\ state.phase = "watching" => Released = 0
       /\ state.phase = "in_position" => Released = PositionSize
       /\ state.phase = "exited" => Released = 2 * PositionSize
BY DEF Released, Signals

\* What the slices of a TWAP add up to stays within the order, and the last of them leaves
\* less than an increment of it.
LEMMA TwapKeepsIInv ==
  ASSUME IInv, TwapAdvance, UNCHANGED now
  PROVE  IInv'
<1>1. /\ strategy = "twap" /\ pc = "called" /\ ReadsNothing
      /\ HostInv /\ CalmInv /\ OnlySends /\ ClaimsInv
      /\ state \in TwapState /\ state.filledQuantity <= state.total
      /\ state.filledQuantity % Increment = 0
      /\ state.slicesDone = Slices => state.filledQuantity = RoundDown(state.total)
  BY DEF IInv, TwapInv, TwapAdvance, TwapDone, TwapRoundsToZero, TwapSkip, TwapSlice, TwapReads,
         Called
<1>2. PICK total \in Nat, done1 \in 0 .. Slices, sofar \in Nat :
        total = state.total /\ done1 = state.slicesDone /\ sofar = state.filledQuantity
  BY <1>1, TwapAssumption DEF TwapState, TwapAssumption
<1>3. Released = sofar
  BY <1>1, <1>2, ReleasedIs
<1>4. ASSUME Stepped, HostInv', CalmInv', OnlySends', ClaimsInv', TwapInv',
             done'.status = "completed" /\ ~done'.reason => Whole'
      PROVE  IInv'
  <2>1. strategy' = "twap" /\ status' = "running"
    BY <1>1, <1>4, SteppedKeepsOrders
  <2>2. EndsInv'
    BY <1>4, <2>1 DEF EndsInv, Finishes
  <2>3. /\ DcaInv' /\ AccumulateInv' /\ LadderInv' /\ RebalanceInv' /\ SignalInv'
        /\ LadderCalmInv' /\ PositionCalmInv' /\ RebalanceCalmInv'
    BY <2>1
    DEF DcaInv, AccumulateInv, LadderInv, RebalanceInv, SignalInv, LadderCalmInv,
        PositionCalmInv, RebalanceCalmInv, Signals
  <2>4. QED
    BY <1>4, <2>2, <2>3 DEF IInv
<1>5. ASSUME NEW ending \in Endings, Return(state, <<>>, ending),
             ending.status = "completed" /\ ~ending.reason => done1 = Slices
      PROVE  IInv'
  <2>1. <<>> \in Seq(Orders)
    BY OrdersAreTyped
  <2>2. /\ Stepped /\ HostInv' /\ CalmInv' /\ OnlySends'
        /\ state' = state /\ actions' = <<>> /\ done' = ending
    BY <1>1, <1>5, <2>1, StepIsTaken
  <2>3. strategy' = "twap" /\ Released' = Released
    BY <1>1, <2>2, SteppedKeepsOrders DEF Released
  <2>4. ClaimsInv'
    BY <1>1, <1>3, <2>2, <2>3, EmptyStepKeepsClaims
  <2>5. TwapInv'
    BY <1>1, <2>2 DEF TwapInv
  <2>6. done'.status = "completed" /\ ~done'.reason => Whole'
    BY <1>1, <1>2, <1>5, <2>2, <2>3 DEF Whole
  <2>7. QED
    BY <1>4, <2>2, <2>4, <2>5, <2>6
<1>6. CASE TwapDone \/ TwapRoundsToZero \/ TwapSkip
  <2>1. \E ending \in Endings :
          /\ Return(state, <<>>, ending)
          /\ ending.status = "completed" /\ ~ending.reason => done1 = Slices
    <3>1. /\ Ending("completed", FALSE) \in Endings /\ Ending("completed", TRUE) \in Endings
          /\ NotDone \in Endings /\ Ending("completed", TRUE).reason /\ NotDone.status = "none"
      BY EndingsAreKnown DEF Ending
    <3>2. CASE TwapDone
      BY <1>2, <3>1, <3>2 DEF TwapDone, TwapIsDone
    <3>3. CASE TwapRoundsToZero
      BY <3>1, <3>3 DEF TwapRoundsToZero
    <3>4. CASE TwapSkip
      BY <3>1, <3>4 DEF TwapSkip
    <3>5. QED
      BY <1>6, <3>2, <3>3, <3>4
  <2>2. QED
    BY <1>5, <2>1
<1>7. CASE TwapSlice
  <2>1. PICK next, size, l :
          /\ size = RoundDown(Share(state)) /\ size > 0 /\ l \in FreshLeg /\ ~TwapIsDone
          /\ next = [state EXCEPT !.slicesDone = @ + 1, !.filledQuantity = @ + size]
          /\ Return(next,
                    <<Submit(l, IF state.limited THEN Limit("buy", size, 1)
                                ELSE Market("buy", size))>>,
                    IF next.slicesDone = Slices THEN Ending("completed", FALSE) ELSE NotDone)
    BY <1>7 DEF TwapSlice
  <2>2. l \in Legs
    BY <2>1 DEF FreshLeg, FreshLegs
  <2>3. PICK rest \in Nat, left \in Nat \ {0} : rest = total - sofar /\ left = Slices - done1
    BY <1>1, <1>2, <2>1, TwapAssumption DEF TwapAssumption, TwapIsDone
  <2>4. PICK share \in Nat : share = Share(state) /\ share <= rest /\ (left = 1 => share = rest)
    <3>1. Share(state) = rest \div left
      BY <1>2, <2>3 DEF Share
    <3>2. rest \div left \in Nat /\ rest \div left <= rest /\ (left = 1 => rest \div left = rest)
      BY Divides
    <3>3. QED
      BY <3>1, <3>2
  <2>5. size \in Nat /\ size <= share /\ size % Increment = 0
    BY <2>1, <2>4, RoundsDown
  <2>6. PICK what \in Request :
          /\ what = IF state.limited THEN Limit("buy", size, 1) ELSE Market("buy", size)
          /\ what.size = size
    BY <2>5, RequestsAreTyped DEF Sides
  <2>7. done1 < Slices
    BY <1>2, <2>1, TwapAssumption DEF TwapAssumption, TwapIsDone
  <2>8. /\ next \in TwapState /\ next.total = total /\ next.slicesDone = done1 + 1
        /\ next.filledQuantity = sofar + size
    <3>1. PICK s \in TwapState : s = state
      BY <1>1
    <3>2. /\ s.slicesDone < Slices /\ s.total = total /\ s.slicesDone = done1
          /\ s.filledQuantity = sofar
      BY <1>2, <2>7, <3>1
    <3>3. next = [s EXCEPT !.slicesDone = @ + 1, !.filledQuantity = @ + size]
      BY <2>1, <3>1
    <3>4. s.slicesDone < Slices /\ size \in Nat
      BY <2>5, <3>2
    <3>5. /\ next \in TwapState /\ next.total = s.total /\ next.limited = s.limited
          /\ next.slicesDone = s.slicesDone + 1 /\ next.filledQuantity = s.filledQuantity + size
      <4>1. s.slicesDone + 1 \in 0 .. Slices /\ s.filledQuantity + size \in Nat
        BY <3>4, TwapAssumption DEF TwapState, TwapAssumption
      <4>2. QED
        BY <3>3, <4>1 DEF TwapState
    <3>6. QED
      BY <3>2, <3>5
  <2>9. PICK ending \in Endings :
          /\ ending = IF done1 + 1 = Slices THEN Ending("completed", FALSE) ELSE NotDone
          /\ ending.status = "completed" => done1 + 1 = Slices
    BY EndingsAreKnown
  <2>10. <<Submit(l, what)>> \in Seq(Orders)
    BY <2>1, <2>2, <2>6, OrdersAreTyped
  <2>11. Return(next, <<Submit(l, what)>>, ending)
    BY <2>1, <2>6, <2>8, <2>9
  <2>12. /\ Stepped /\ HostInv' /\ CalmInv' /\ OnlySends'
         /\ state' = next /\ actions' = <<Submit(l, what)>> /\ done' = ending
    BY <1>1, <2>10, <2>11, StepIsTaken
  <2>13. strategy' = "twap" /\ Released' = sofar + size
    <3>1. strategy' = "twap"
      BY <1>1, <2>12, SteppedKeepsOrders
    <3>2. (strategy = "twap")' => (Released = state.filledQuantity)'
      BY ReleasedIs, PTL
    <3>3. QED
      BY <2>8, <2>12, <3>1, <3>2
  <2>14. ClaimsInv'
    BY <1>1, <1>2, <1>3, <2>2, <2>5, <2>6, <2>12, <2>13, OneOrderKeepsClaims
  <2>15. done1 + 1 = Slices => sofar + size = RoundDown(total)
    <3>1. SUFFICES ASSUME done1 + 1 = Slices PROVE sofar + size = RoundDown(total)
      OBVIOUS
    <3>2. size = RoundDown(rest)
      BY <2>1, <2>3, <2>4, <3>1, TwapAssumption DEF TwapAssumption
    <3>3. (total - sofar) % Increment = total % Increment
      BY <1>1, <1>2, RemainderOfRest, SizesAssumption DEF SizesAssumption
    <3>4. total % Increment \in Nat
      BY <1>2, SizesAssumption DEF SizesAssumption
    <3>5. QED
      BY <1>2, <2>3, <3>2, <3>3, <3>4 DEF RoundDown
  <2>16. TwapInv'
    <3>1. sofar + size <= total
      BY <1>2, <2>3, <2>4, <2>5
    <3>2. (sofar + size) % Increment = 0
      BY <1>1, <1>2, <2>5, MultiplesAddUp, SizesAssumption DEF SizesAssumption
    <3>3. QED
      BY <2>8, <2>12, <2>15, <3>1, <3>2 DEF TwapInv
  <2>17. done'.status = "completed" /\ ~done'.reason => Whole'
    BY <2>8, <2>9, <2>12, <2>13, <2>15 DEF Whole
  <2>18. QED
    BY <1>4, <2>12, <2>14, <2>16, <2>17
<1>8. QED
  BY <1>6, <1>7 DEF TwapAdvance

\* A window is a sequence no longer than the lookback.
LEMMA WindowsAreShort ==
  ASSUME NEW w
  PROVE  w \in Windows <=> w \in Seq(Quotes) /\ Len(w) <= LookbackTicks
<1>1. LookbackTicks \in Nat
  BY SamplesAssumption DEF SamplesAssumption
<1>2. w \in Windows <=> \E m \in 0 .. LookbackTicks : w \in [1 .. m -> Quotes]
  BY DEF Windows, BoundedSeq, SeqOf
<1>3. ASSUME NEW m \in 0 .. LookbackTicks, w \in [1 .. m -> Quotes]
      PROVE  w \in Seq(Quotes) /\ Len(w) <= LookbackTicks
  <2>1. m \in Nat
    BY <1>1
  <2>2. w \in Seq(Quotes)
    BY <1>3, <2>1
  <2>3. Len(w) = m
    BY <1>3, <2>1, <2>2, LenProperties, SMTT(30)
  <2>4. QED
    BY <1>1, <2>2, <2>3
<1>4. ASSUME w \in Seq(Quotes), Len(w) <= LookbackTicks
      PROVE  \E m \in 0 .. LookbackTicks : w \in [1 .. m -> Quotes]
  <2>1. Len(w) \in 0 .. LookbackTicks /\ w \in [1 .. Len(w) -> Quotes]
    BY <1>1, <1>4, LenProperties
  <2>2. QED
    BY <2>1
<1>5. QED
  BY <1>2, <1>3, <1>4

\* A price that is sampled drops the oldest one of a full window.
LEMMA WindowsAreKept ==
  ASSUME NEW prices \in Windows, NEW price \in Quotes
  PROVE  PushWindow(prices, price) \in Windows
<1>1. prices \in Seq(Quotes) /\ Len(prices) <= LookbackTicks
  BY WindowsAreShort
<1>2. PICK next : next = Append(prices, price)
  OBVIOUS
<1>3. next \in Seq(Quotes) /\ Len(next) = Len(prices) + 1 /\ next # <<>>
  BY <1>1, <1>2, AppendProperties
<1>4. Tail(next) \in Seq(Quotes) /\ Len(Tail(next)) = Len(prices)
  BY <1>1, <1>3, HeadTailProperties
<1>5. PushWindow(prices, price) \in Seq(Quotes) /\ Len(PushWindow(prices, price)) <= LookbackTicks
  <2>1. LookbackTicks \in Nat /\ Len(prices) \in Nat
    BY <1>1, SamplesAssumption DEF SamplesAssumption
  <2>2. CASE Len(next) > LookbackTicks
    BY <1>1, <1>2, <1>4, <2>2 DEF PushWindow
  <2>3. CASE ~(Len(next) > LookbackTicks)
    BY <1>2, <1>3, <2>1, <2>3 DEF PushWindow
  <2>4. QED
    BY <2>2, <2>3
<1>6. QED
  BY <1>5, WindowsAreShort

\* The purchases of a DCA are counted as they are sent.
LEMMA DcaKeepsIInv ==
  ASSUME IInv, DcaAdvance, UNCHANGED now
  PROVE  IInv'
<1>1. /\ strategy = "dca" /\ pc = "called" /\ ReadsNothing
      /\ HostInv /\ CalmInv /\ OnlySends /\ ClaimsInv
      /\ state \in DcaState
  BY DEF IInv, DcaInv, DcaAdvance, DcaDone, DcaSkip, DcaRoundsToZero, DcaBuy, DcaReads, Called
<1>2. PICK sofar \in 0 .. Occurrences : sofar = state.occurrencesDone
  BY <1>1 DEF DcaState
<1>3. Released = sofar /\ Occurrences \in Nat
  BY <1>1, <1>2, ReleasedIs, DcaAssumption DEF DcaAssumption
<1>4. ASSUME Stepped, HostInv', CalmInv', OnlySends', ClaimsInv', state' \in DcaState,
             done'.status = "completed" /\ ~done'.reason => state'.occurrencesDone = Occurrences
      PROVE  IInv'
  <2>1. strategy' = "dca" /\ status' = "running"
    BY <1>1, <1>4, SteppedKeepsOrders
  <2>2. EndsInv' /\ DcaInv'
    BY <1>4, <2>1 DEF EndsInv, Finishes, Whole, DcaInv
  <2>3. /\ TwapInv' /\ AccumulateInv' /\ LadderInv' /\ RebalanceInv' /\ SignalInv'
        /\ LadderCalmInv' /\ PositionCalmInv' /\ RebalanceCalmInv'
    BY <2>1
    DEF TwapInv, AccumulateInv, LadderInv, RebalanceInv, SignalInv, LadderCalmInv,
        PositionCalmInv, RebalanceCalmInv, Signals
  <2>4. QED
    BY <1>4, <2>2, <2>3 DEF IInv
<1>5. (strategy = "dca")' => (Released = state.occurrencesDone)'
  BY ReleasedIs, PTL
<1>6. ASSUME NEW ending \in Endings, Return(state, <<>>, ending),
             ending.status = "completed" /\ ~ending.reason => sofar = Occurrences
      PROVE  IInv'
  <2>1. <<>> \in Seq(Orders)
    BY OrdersAreTyped
  <2>2. /\ Stepped /\ HostInv' /\ CalmInv' /\ OnlySends'
        /\ state' = state /\ actions' = <<>> /\ done' = ending
    BY <1>1, <1>6, <2>1, StepIsTaken
  <2>3. Released' = sofar
    BY <1>1, <1>2, <1>5, <2>2, SteppedKeepsOrders
  <2>4. ClaimsInv'
    BY <1>1, <1>3, <2>2, <2>3, EmptyStepKeepsClaims
  <2>5. QED
    BY <1>1, <1>2, <1>4, <1>6, <2>2, <2>4
<1>7. CASE DcaDone \/ DcaSkip \/ DcaRoundsToZero
  <2>1. /\ Ending("completed", FALSE) \in Endings /\ Ending("failed", TRUE) \in Endings
        /\ NotDone \in Endings /\ Ending("failed", TRUE).status = "failed"
        /\ NotDone.status = "none"
    BY EndingsAreKnown
  <2>2. \E ending \in Endings :
          /\ Return(state, <<>>, ending)
          /\ ending.status = "completed" /\ ~ending.reason => sofar = Occurrences
    <3>1. CASE DcaDone
      BY <1>2, <2>1, <3>1 DEF DcaDone, DcaIsDone
    <3>2. CASE DcaSkip
      BY <2>1, <3>2 DEF DcaSkip
    <3>3. CASE DcaRoundsToZero
      BY <2>1, <3>3 DEF DcaRoundsToZero
    <3>4. QED
      BY <1>7, <3>1, <3>2, <3>3
  <2>3. QED
    BY <1>6, <2>2
<1>8. CASE DcaBuy
  <2>1. PICK next, l :
          /\ l \in FreshLeg /\ ~DcaIsDone
          /\ next = [state EXCEPT !.occurrencesDone = @ + 1]
          /\ Return(next,
                 <<Submit(l, IF state.quoted THEN Limit("buy", 1, 1) ELSE Market("buy", 1))>>,
                 IF next.occurrencesDone = Occurrences THEN Ending("completed", FALSE)
                 ELSE NotDone)
    BY <1>8 DEF DcaBuy
  <2>2. l \in Legs /\ sofar < Occurrences
    BY <1>2, <1>3, <2>1 DEF FreshLeg, FreshLegs, DcaIsDone
  <2>3. PICK what \in Request :
          /\ what = IF state.quoted THEN Limit("buy", 1, 1) ELSE Market("buy", 1)
          /\ what.size = 1
    BY RequestsAreTyped DEF Sides
  <2>4. next \in DcaState /\ next.occurrencesDone = sofar + 1
    <3>1. sofar + 1 \in 0 .. Occurrences
      BY <1>3, <2>2
    <3>2. QED
      BY <1>1, <1>2, <2>1, <3>1 DEF DcaState
  <2>5. PICK ending \in Endings :
          /\ ending = IF next.occurrencesDone = Occurrences THEN Ending("completed", FALSE)
                      ELSE NotDone
          /\ ending.status = "completed" => next.occurrencesDone = Occurrences
    BY EndingsAreKnown
  <2>6. <<Submit(l, what)>> \in Seq(Orders)
    BY <2>2, <2>3, OrdersAreTyped
  <2>7. Return(next, <<Submit(l, what)>>, ending)
    BY <2>1, <2>3, <2>5
  <2>8. /\ Stepped /\ HostInv' /\ CalmInv' /\ OnlySends'
        /\ state' = next /\ actions' = <<Submit(l, what)>> /\ done' = ending
    BY <1>1, <2>6, <2>7, StepIsTaken
  <2>9. Released' = sofar + 1
    BY <1>1, <1>5, <2>4, <2>8, SteppedKeepsOrders
  <2>10. ClaimsInv'
    BY <1>1, <1>3, <2>2, <2>3, <2>8, <2>9, OneOrderKeepsClaims
  <2>11. QED
    BY <1>4, <2>4, <2>5, <2>8, <2>10
<1>9. QED
  BY <1>7, <1>8 DEF DcaAdvance

\* An accumulation acquires no more than what remains of its target.
LEMMA AccumulateKeepsIInv ==
  ASSUME IInv, AccumulateAdvance, UNCHANGED now
  PROVE  IInv'
<1>1. /\ strategy = "accumulate" /\ pc = "called" /\ ReadsNothing
      /\ HostInv /\ CalmInv /\ OnlySends /\ ClaimsInv
      /\ state \in AccumulateState /\ state.acquiredQuantity <= state.target
  BY DEF IInv, AccumulateInv, AccumulateAdvance, AccumulateReached, AccumulateExpire,
         AccumulateNoPrice, AccumulateSample, AccumulateBuy, AccumulateReads, Called
<1>2. PICK target \in Nat, sofar \in Nat :
        target = state.target /\ sofar = state.acquiredQuantity
  BY <1>1, AccumulateAssumption DEF AccumulateState, AccumulateAssumption
<1>3. Released = sofar
  BY <1>1, <1>2, ReleasedIs
<1>4. (strategy = "accumulate")' => (Released = state.acquiredQuantity)'
  BY ReleasedIs, PTL
<1>5. ASSUME Stepped, HostInv', CalmInv', OnlySends', ClaimsInv',
             state' \in AccumulateState, state'.acquiredQuantity <= state'.target,
             done'.status = "completed" /\ ~done'.reason
               => state'.acquiredQuantity = state'.target
      PROVE  IInv'
  <2>1. strategy' = "accumulate" /\ status' = "running"
    BY <1>1, <1>5, SteppedKeepsOrders
  <2>2. EndsInv' /\ AccumulateInv'
    BY <1>5, <2>1 DEF EndsInv, Finishes, Whole, AccumulateInv
  <2>3. /\ TwapInv' /\ DcaInv' /\ LadderInv' /\ RebalanceInv' /\ SignalInv'
        /\ LadderCalmInv' /\ PositionCalmInv' /\ RebalanceCalmInv'
    BY <2>1
    DEF TwapInv, DcaInv, LadderInv, RebalanceInv, SignalInv, LadderCalmInv,
        PositionCalmInv, RebalanceCalmInv, Signals
  <2>4. QED
    BY <1>5, <2>2, <2>3 DEF IInv
<1>6. ASSUME NEW next \in AccumulateState, NEW ending \in Endings, Return(next, <<>>, ending),
             next.target = target, next.acquiredQuantity = sofar,
             ending.status = "completed" /\ ~ending.reason => sofar = target
      PROVE  IInv'
  <2>1. <<>> \in Seq(Orders)
    BY OrdersAreTyped
  <2>2. /\ Stepped /\ HostInv' /\ CalmInv' /\ OnlySends'
        /\ state' = next /\ actions' = <<>> /\ done' = ending
    BY <1>1, <1>6, <2>1, StepIsTaken
  <2>3. Released' = sofar
    BY <1>1, <1>4, <1>6, <2>2, SteppedKeepsOrders
  <2>4. ClaimsInv'
    BY <1>1, <1>3, <2>2, <2>3, EmptyStepKeepsClaims
  <2>5. QED
    BY <1>1, <1>2, <1>5, <1>6, <2>2, <2>4
<1>7. /\ Ending("completed", FALSE) \in Endings /\ Ending("completed", TRUE) \in Endings
      /\ NotDone \in Endings /\ Ending("completed", TRUE).reason /\ NotDone.status = "none"
  BY EndingsAreKnown DEF Ending
<1>8. ASSUME NEW price \in Quotes, NEW sampled,
             sampled = [state EXCEPT !.prices = PushWindow(@, price)]
      PROVE  /\ sampled \in AccumulateState /\ sampled.target = target
             /\ sampled.acquiredQuantity = sofar
  <2>1. PushWindow(state.prices, price) \in Windows
    BY <1>1, WindowsAreKept DEF AccumulateState
  <2>2. QED
    BY <1>1, <1>2, <1>8, <2>1 DEF AccumulateState
<1>9. CASE AccumulateReached \/ AccumulateExpire \/ AccumulateNoPrice
  <2>1. \E ending \in Endings :
          /\ Return(state, <<>>, ending)
          /\ ending.status = "completed" /\ ~ending.reason => sofar = target
    <3>1. CASE AccumulateReached
      <4>1. sofar = target
        BY <1>2, <3>1 DEF AccumulateReached, Remaining
      <4>2. QED
        BY <1>7, <3>1, <4>1 DEF AccumulateReached
    <3>2. CASE AccumulateExpire
      BY <1>7, <3>2 DEF AccumulateExpire
    <3>3. CASE AccumulateNoPrice
      BY <1>7, <3>3 DEF AccumulateNoPrice
    <3>4. QED
      BY <1>9, <3>1, <3>2, <3>3
  <2>2. QED
    BY <1>1, <1>2, <1>6, <2>1
<1>10. CASE AccumulateSample
  <2>1. PICK price, next :
          /\ price \in Quotes /\ next = [state EXCEPT !.prices = PushWindow(@, price)]
          /\ Return(next, <<>>, NotDone)
    BY <1>10 DEF AccumulateSample
  <2>2. QED
    BY <1>6, <1>7, <1>8, <2>1
<1>11. CASE AccumulateBuy
  <2>1. PICK price, sampled, next :
          /\ price \in Quotes
          /\ sampled = [state EXCEPT !.prices = PushWindow(@, price)]
          /\ next = [sampled EXCEPT !.acquiredQuantity = @ + NextSlice]
          /\ \/ Return(sampled, <<>>, Ending("completed", TRUE))
             \/ /\ ~TooSmall(NextSlice)
                /\ \E l \in FreshLeg :
                     Return(next, <<Submit(l, Limit("buy", NextSlice, price))>>,
                            IF next.acquiredQuantity = state.target
                            THEN Ending("completed", FALSE) ELSE NotDone)
    BY <1>11 DEF AccumulateBuy
  <2>2. /\ sampled \in AccumulateState /\ sampled.target = target
        /\ sampled.acquiredQuantity = sofar
    BY <1>8, <2>1
  <2>3. CASE Return(sampled, <<>>, Ending("completed", TRUE))
    BY <1>6, <1>7, <2>2, <2>3
  <2>4. ASSUME NEW l \in FreshLeg, ~TooSmall(NextSlice),
               Return(next, <<Submit(l, Limit("buy", NextSlice, price))>>,
                      IF next.acquiredQuantity = state.target
                      THEN Ending("completed", FALSE) ELSE NotDone)
        PROVE  IInv'
    <3>1. PICK rest \in Nat : rest = target - sofar
      BY <1>1, <1>2
    <3>2. PICK part \in Nat : NextSlice = RoundDown(part) /\ part <= rest
      BY <1>2, <3>1, AccumulateAssumption DEF NextSlice, Remaining, AccumulateAssumption
    <3>3. PICK size \in Nat : size = NextSlice /\ size <= rest /\ size > 0
      BY <2>4, <3>1, <3>2, RoundsDown DEF TooSmall
    <3>4. next \in AccumulateState /\ next.target = target /\ next.acquiredQuantity = sofar + size
      <4>1. next = [sampled EXCEPT !.acquiredQuantity = @ + size]
        BY <2>1, <3>3
      <4>2. sampled.acquiredQuantity + size \in Nat
        BY <2>2, <3>3
      <4>3. QED
        BY <2>2, <4>1, <4>2 DEF AccumulateState
    <3>5. l \in Legs /\ price \in Nat
      BY <2>1, SamplesAssumption DEF FreshLeg, FreshLegs, SamplesAssumption
    <3>6. PICK what \in Request : what = Limit("buy", NextSlice, price) /\ what.size = size
      BY <3>3, <3>5, RequestsAreTyped DEF Sides
    <3>7. PICK ending \in Endings :
            /\ ending = IF next.acquiredQuantity = state.target THEN Ending("completed", FALSE)
                        ELSE NotDone
            /\ ending.status = "completed" => next.acquiredQuantity = target
      BY <1>2, EndingsAreKnown
    <3>8. <<Submit(l, what)>> \in Seq(Orders)
      BY <3>3, <3>5, <3>6, OrdersAreTyped
    <3>9. Return(next, <<Submit(l, what)>>, ending)
      BY <2>4, <3>6, <3>7
    <3>10. /\ Stepped /\ HostInv' /\ CalmInv' /\ OnlySends'
           /\ state' = next /\ actions' = <<Submit(l, what)>> /\ done' = ending
      BY <1>1, <3>8, <3>9, StepIsTaken
    <3>11. Released' = sofar + size
      BY <1>1, <1>4, <3>4, <3>10, SteppedKeepsOrders
    <3>12. ClaimsInv'
      BY <1>1, <1>3, <3>5, <3>6, <3>10, <3>11, OneOrderKeepsClaims
    <3>13. next.acquiredQuantity <= next.target
      BY <1>2, <3>1, <3>3, <3>4
    <3>14. QED
      BY <1>5, <3>4, <3>7, <3>10, <3>12, <3>13
  <2>5. QED
    BY <2>1, <2>3, <2>4
<1>12. QED
  BY <1>9, <1>10, <1>11 DEF AccumulateAdvance

\* A set is put in a row without repetition.
LEMMA SetsHaveRows ==
  ASSUME NEW S, IsFiniteSet(S)
  PROVE  /\ Cardinality(S) \in Nat
         /\ SetToSeq(S) \in [1 .. Cardinality(S) -> S]
         /\ \A i, j \in 1 .. Cardinality(S) : SetToSeq(S)[i] = SetToSeq(S)[j] => i = j
<1>1. Cardinality(S) \in Nat /\ ExistsBijection(1 .. Cardinality(S), S)
  BY FS_CardinalityType
<1>2. \E f \in [1 .. Cardinality(S) -> S] : IsInjective(f)
  BY <1>1 DEF ExistsBijection, Bijection, Injection
<1>3. SetToSeq(S) \in [1 .. Cardinality(S) -> S] /\ IsInjective(SetToSeq(S))
  BY <1>2 DEF SetToSeq
<1>4. QED
  BY <1>1, <1>3 DEF IsInjective

\* The rungs of a ladder that has no empty one are what its total is cut into.
LEMMA RungsAddUp ==
  ASSUME NEW d \in Distributions, \A i \in 1 .. Rungs : BuildRungs(d)[i] > 0
  PROVE  /\ \A i \in 1 .. Rungs : BuildRungs(d)[i] \in Nat \ {0}
         /\ SumFunctionOnSet(BuildRungs(d), 1 .. Rungs) = LadderTotal
<1>1. Rungs \in Nat /\ Rungs >= 2 /\ LadderTotal \in Nat \ {0}
  BY LadderAssumption DEF LadderAssumption
<1>2. PICK w : w = [i \in 1 .. Rungs |-> RungWeight(i, d)]
  OBVIOUS
<1>3. \A i \in 1 .. Rungs : w[i] \in Nat \ {0}
  BY <1>1, <1>2 DEF RungWeight, Distributions
<1>4. ASSUME NEW k \in 0 .. Rungs
      PROVE  Weight(k, d) = SumFunctionOnSet(w, 1 .. k) /\ Weight(k, d) \in Nat
  <2>1. Weight(k, d) = SumFunctionOnSet(w, 1 .. k)
    BY <1>2 DEF Weight
  <2>2. IsFiniteSet(1 .. k)
    BY <1>1, FS_Interval
  <2>3. \A i \in 1 .. k : w[i] \in Nat
    BY <1>1, <1>3
  <2>4. QED
    BY <2>1, <2>2, <2>3, SumType
<1>5. Weight(0, d) = 0
  <2>1. 1 .. 0 = {}
    OBVIOUS
  <2>2. Weight(0, d) = SumFunctionOnSet(w, {})
    BY <1>1, <1>4, <2>1
  <2>3. QED
    BY <2>2, SumEmpty
<1>6. Weight(Rungs, d) \in Nat \ {0}
  <2>1. PICK N : N = 1 .. Rungs
    OBVIOUS
  <2>2. IsFiniteSet(N) /\ 1 \in N
    BY <1>1, <2>1, FS_Interval
  <2>3. IsFiniteSet(N \ {1}) /\ \A i \in N : w[i] \in Nat
    BY <1>3, <2>1, <2>2, FS_Subset
  <2>4. SumFunctionOnSet(w, N) = w[1] + SumFunctionOnSet(w, N \ {1})
    BY <2>2, <2>3, SumRemove
  <2>5. SumFunctionOnSet(w, N \ {1}) \in Nat
    BY <1>3, <2>1, <2>3, SumType
  <2>6. w[1] \in Nat \ {0}
    BY <1>3, <2>1, <2>2
  <2>7. Weight(Rungs, d) = SumFunctionOnSet(w, N)
    BY <1>1, <1>4, <2>1
  <2>8. QED
    BY <2>4, <2>5, <2>6, <2>7
<1>7. PICK u : u = [i \in 0 .. Rungs |-> (LadderTotal * Weight(i, d)) \div Weight(Rungs, d)]
  OBVIOUS
<1>8. \A i \in 0 .. Rungs : u[i] \in Nat
  <2>1. TAKE i \in 0 .. Rungs
  <2>2. LadderTotal * Weight(i, d) \in Nat
    BY <1>1, <1>4
  <2>3. (LadderTotal * Weight(i, d)) \div Weight(Rungs, d) \in Nat
    BY <1>6, <2>2, Divides
  <2>4. QED
    BY <1>7, <2>3
<1>9. u[0] = 0 /\ u[Rungs] = LadderTotal
  <2>1. u[0] = (LadderTotal * 0) \div Weight(Rungs, d)
    BY <1>1, <1>5, <1>7
  <2>2. u[Rungs] = (LadderTotal * Weight(Rungs, d)) \div Weight(Rungs, d)
    BY <1>1, <1>7
  <2>3. PICK total \in Nat, all \in Nat \ {0} : total = LadderTotal /\ all = Weight(Rungs, d)
    BY <1>1, <1>6
  <2>4. (total * 0) \div all = 0 /\ (total * all) \div all = total
    OBVIOUS
  <2>5. QED
    BY <2>1, <2>2, <2>3, <2>4
<1>10. \A i \in 1 .. Rungs : BuildRungs(d)[i] = u[i] - u[i - 1]
  BY <1>1, <1>7 DEF BuildRungs
<1>11. \A i \in 1 .. Rungs : BuildRungs(d)[i] \in Nat \ {0}
  <2>1. TAKE i \in 1 .. Rungs
  <2>2. u[i] \in Nat /\ u[i - 1] \in Nat
    BY <1>1, <1>8
  <2>3. BuildRungs(d)[i] = u[i] - u[i - 1] /\ BuildRungs(d)[i] > 0
    BY <1>10
  <2>4. QED
    BY <2>2, <2>3
<1>12. PICK b : b = BuildRungs(d)
  OBVIOUS
<1>13. \A i \in 1 .. Rungs : b[i] \in Nat /\ b[i] = u[i] - u[i - 1]
  BY <1>10, <1>11, <1>12
<1>14. \A k \in 0 .. Rungs : SumFunctionOnSet(b, 1 .. k) = u[k] - u[0]
  BY <1>1, <1>8, <1>13, SumTelescopes, ZenonT(40)
<1>15. SumFunctionOnSet(b, 1 .. Rungs) = LadderTotal
  <2>1. SumFunctionOnSet(b, 1 .. Rungs) = u[Rungs] - u[0]
    BY <1>1, <1>14
  <2>2. QED
    BY <1>1, <1>9, <2>1
<1>16. QED
  BY <1>11, <1>12, <1>15

\* The rungs up to one, and from one to another.
LEMMA RungsSplit ==
  ASSUME NEW d \in Distributions, \A i \in 1 .. Rungs : BuildRungs(d)[i] > 0,
         NEW n \in 0 .. Rungs, NEW k \in n .. Rungs, NEW D, D = (n + 1) .. k
  PROVE  /\ IsFiniteSet(D)
         /\ SumFunctionOnSet(BuildRungs(d), 1 .. k) \in Nat
         /\ SumFunctionOnSet(BuildRungs(d), 1 .. n) \in Nat
         /\ SumFunctionOnSet(BuildRungs(d), D) \in Nat
         /\ SumFunctionOnSet(BuildRungs(d), 1 .. n) + SumFunctionOnSet(BuildRungs(d), D)
              = SumFunctionOnSet(BuildRungs(d), 1 .. k)
<1>1. Rungs \in Nat
  BY LadderAssumption DEF LadderAssumption
<1>2. PICK A, B, b : A = 1 .. n /\ B = 1 .. k /\ b = BuildRungs(d)
  OBVIOUS
<1>3. IsFiniteSet(A) /\ IsFiniteSet(B) /\ IsFiniteSet(D)
  <2>1. n \in Nat /\ k \in Nat /\ n + 1 \in Int
    BY <1>1
  <2>2. QED
    BY <1>2, <2>1, FS_Interval
<1>4. A \cup D = B /\ A \cap D = {}
  BY <1>1, <1>2
<1>5. \A i \in B : b[i] \in Nat
  BY <1>1, <1>2, RungsAddUp
<1>6. /\ \A i \in A : b[i] \in Nat
      /\ \A i \in D : b[i] \in Nat
      /\ \A i \in A \cup D : b[i] \in Nat
  BY <1>4, <1>5
<1>7. /\ SumFunctionOnSet(b, A) \in Nat /\ SumFunctionOnSet(b, D) \in Nat
      /\ SumFunctionOnSet(b, B) \in Nat
  BY <1>3, <1>5, <1>6, SumType
<1>8. SumFunctionOnSet(b, A \cup D) = SumFunctionOnSet(b, A) + SumFunctionOnSet(b, D)
  BY <1>3, <1>4, <1>6, SumSplit
<1>9. QED
  BY <1>2, <1>3, <1>4, <1>7, <1>8

\* A ladder releases each of its rungs once, and when nothing disturbs it, its next step
\* knows whether the rungs of the last one were accepted.
LEMMA LadderKeepsIInv ==
  ASSUME IInv, LadderAdvance, UNCHANGED now
  PROVE  IInv'
<1>1. /\ strategy = "ladder" /\ pc = "called" /\ ReadsNothing
      /\ HostInv /\ CalmInv /\ OnlySends /\ ClaimsInv /\ LadderInv /\ LadderCalmInv
      /\ state \in LadderState
  BY DEF IInv, LadderInv, LadderAdvance, LadderRejected, LadderPlaced, LadderPlace, Called
<1>2. Rungs \in Nat /\ Rungs >= 2 /\ RungsPerAdvance \in Nat \ {0}
  BY LadderAssumption DEF LadderAssumption
<1>3. PICK d \in Distributions, ids \in [1 .. Rungs -> Legs], n \in 0 .. Rungs,
           size \in {BuildRungs(state.distribution)} :
        d = state.distribution /\ ids = state.ids /\ n = state.placed /\ size = BuildRungs(d)
  BY <1>1 DEF LadderState
<1>4. /\ \A i, j \in 1 .. Rungs : ids[i] = ids[j] => i = j
      /\ \A i \in 1 .. Rungs : size[i] \in Nat \ {0} /\ BuildRungs(d)[i] > 0
      /\ \A i \in 1 .. Rungs : order[ids[i]] # "absent" => request[ids[i]].size = size[i]
  BY <1>1, <1>3, RungsAddUp DEF LadderInv
<1>5. Released = SumFunctionOnSet(size, 1 .. n) /\ Released \in Nat
  <2>1. n \in n .. Rungs
    BY <1>2
  <2>2. QED
    BY <1>1, <1>3, <1>4, <2>1, ReleasedIs, RungsSplit
<1>6. (strategy = "ladder")' =>
        (Released = SumFunctionOnSet(BuildRungs(state.distribution), 1 .. state.placed))'
  BY ReleasedIs, PTL
<1>7. ASSUME Stepped, HostInv', CalmInv', OnlySends', ClaimsInv', LadderInv', LadderCalmInv',
             done'.status = "completed" /\ ~done'.reason => state'.placed = Rungs
      PROVE  IInv'
  <2>1. strategy' = "ladder" /\ status' = "running"
    BY <1>1, <1>7, SteppedKeepsOrders
  <2>2. EndsInv'
    BY <1>7, <2>1 DEF EndsInv, Finishes, Whole
  <2>3. /\ TwapInv' /\ DcaInv' /\ AccumulateInv' /\ RebalanceInv' /\ SignalInv'
        /\ PositionCalmInv' /\ RebalanceCalmInv'
    BY <2>1
    DEF TwapInv, DcaInv, AccumulateInv, RebalanceInv, SignalInv, PositionCalmInv,
        RebalanceCalmInv, Signals
  <2>4. now' \in 0 .. Duration
    BY DEF IInv
  <2>5. QED
    BY <1>7, <2>2, <2>3, <2>4 DEF IInv
<1>8. ASSUME disturbed = {}, ~RungWasRejected, ~Over, Due = {}, Calm => row.lastError = lastError,
             NEW i \in 1 .. n
      PROVE  intent[ids[i]] = "submitted"
  <2>1. Answered(ids[i]) /\ (state.batch \/ Settled(ids[i]))
    BY <1>1, <1>3, <1>8 DEF LadderCalmInv
  <2>2. state.batch => ~lastError
    BY <1>8 DEF RungWasRejected, Calm
  <2>3. QED
    BY <1>8, <2>1, <2>2 DEF Answered, Settled
<1>9. ASSUME NEW next, next = [state EXCEPT !.batch = FALSE], NEW ending \in Endings,
             Return(next, <<>>, ending), ending.status # "none",
             ending.status = "completed" => n = Rungs /\ ~RungWasRejected
      PROVE  IInv'
  <2>1. <<>> \in Seq(Orders)
    BY OrdersAreTyped
  <2>2. /\ Stepped /\ HostInv' /\ CalmInv' /\ OnlySends'
        /\ state' = next /\ actions' = <<>> /\ done' = ending
        /\ ~Over /\ Due = {} /\ (Calm => row.lastError = lastError)
    BY <1>1, <1>9, <2>1, StepIsTaken
  <2>3. /\ next \in LadderState /\ next.distribution = d /\ next.ids = ids /\ next.placed = n
        /\ next.batch = FALSE
    BY <1>1, <1>3, <1>9 DEF LadderState
  <2>4. /\ strategy' = "ladder" /\ status' = "running"
        /\ UNCHANGED <<intent, order, request, disturbed>>
    BY <1>1, <2>2, SteppedKeepsOrders
  <2>5. Released' = Released
    BY <1>3, <1>5, <1>6, <2>2, <2>3, <2>4
  <2>6. ClaimsInv'
    BY <1>1, <1>5, <2>2, <2>5, EmptyStepKeepsClaims
  <2>7. LadderInv'
    BY <1>3, <1>4, <2>2, <2>3, <2>4 DEF LadderInv
  <2>8. LadderCalmInv'
    <3>1. Over'
      BY <1>9, <2>2 DEF Over, NotDone
    <3>2. \A l : Answered(l)' /\ Settled(l)'
      BY <3>1 DEF Answered, Settled
    <3>3. ASSUME disturbed' = {}, Finishes', NEW i \in 1 .. Rungs
          PROVE  intent'[ids[i]] = "submitted"
      <4>1. ending.status = "completed"
        BY <2>2, <2>4, <3>3 DEF Finishes
      <4>2. QED
        BY <1>8, <1>9, <2>2, <2>4, <3>3, <4>1
    <3>4. QED
      BY <2>2, <2>3, <3>2, <3>3 DEF LadderCalmInv
  <2>9. QED
    BY <1>7, <1>9, <2>2, <2>3, <2>6, <2>7, <2>8
<1>10. CASE LadderRejected \/ LadderPlaced
  <2>1. /\ Ending("completed", FALSE) \in Endings /\ Ending("failed", TRUE) \in Endings
        /\ Ending("failed", TRUE).status = "failed"
        /\ Ending("completed", FALSE).status = "completed"
    BY EndingsAreKnown
  <2>2. CASE LadderRejected
    BY <1>9, <2>1, <2>2 DEF LadderRejected
  <2>3. CASE LadderPlaced
    BY <1>3, <1>9, <2>1, <2>3 DEF LadderPlaced
  <2>4. QED
    BY <1>10, <2>2, <2>3
<1>11. CASE LadderPlace
  <2>1. PICK to, next, acts :
          /\ to = IF n + RungsPerAdvance < Rungs THEN n + RungsPerAdvance ELSE Rungs
          /\ next = [state EXCEPT !.placed = to, !.batch = TRUE]
          /\ acts = [i \in 1 .. to - n |-> Rung(n + i)]
          /\ ~RungWasRejected /\ n < Rungs
          /\ Return(next, acts, NotDone)
    BY <1>3, <1>11 DEF LadderPlace
  <2>2. to \in (n + 1) .. Rungs /\ to \in 0 .. Rungs /\ to \in n .. Rungs
    BY <1>2, <2>1
  <2>3. /\ next \in LadderState /\ next.distribution = d /\ next.ids = ids /\ next.placed = to
        /\ next.batch = TRUE
    BY <1>1, <1>3, <2>1, <2>2 DEF LadderState
  <2>4. ASSUME NEW i \in 1 .. Rungs
        PROVE  Rung(i) \in Orders /\ Rung(i).leg = ids[i] /\ Rung(i).request.size = size[i]
    <3>1. i \in Nat /\ size[i] \in Nat /\ size[i] > 0 /\ ids[i] \in Legs
      BY <1>2, <1>4
    <3>2. PICK what \in Request : what = Limit("buy", size[i], i) /\ what.size = size[i]
      BY <3>1, RequestsAreTyped DEF Sides
    <3>3. Rung(i) = Submit(ids[i], what)
      BY <1>3, <3>2 DEF Rung
    <3>4. QED
      BY <3>1, <3>2, <3>3 DEF Submit, Orders, Sendable, Action
  <2>5. \A i \in 1 .. to - n : n + i \in (n + 1) .. to /\ n + i \in 1 .. Rungs
    BY <1>2, <2>2
  <2>6. acts \in Seq(Orders) /\ DOMAIN acts = 1 .. to - n
    <3>1. to - n \in Nat
      BY <1>2, <2>2
    <3>2. acts \in [1 .. to - n -> Orders]
      BY <2>1, <2>4, <2>5
    <3>3. QED
      BY <3>1, <3>2
  <2>7. /\ Stepped /\ HostInv' /\ CalmInv' /\ OnlySends'
        /\ state' = next /\ actions' = acts /\ done' = NotDone
        /\ ~Over /\ Due = {} /\ (Calm => row.lastError = lastError)
    BY <1>1, <2>1, <2>6, EndingsAreKnown, StepIsTaken
  <2>8. /\ strategy' = "ladder" /\ status' = "running"
        /\ UNCHANGED <<intent, order, request, disturbed>>
    BY <1>1, <2>7, SteppedKeepsOrders
  <2>9. PICK D, m : D = (n + 1) .. to /\ m = [i \in D |-> ids[i]]
    OBVIOUS
  <2>10. Released' = SumFunctionOnSet(size, 1 .. to)
    BY <1>3, <1>6, <2>3, <2>7, <2>8
  <2>11. /\ Released' \in Nat /\ IsFiniteSet(D)
         /\ Released + SumFunctionOnSet(size, D) <= Released'
    <3>1. /\ IsFiniteSet(D)
          /\ SumFunctionOnSet(size, 1 .. to) \in Nat
          /\ SumFunctionOnSet(size, 1 .. n) + SumFunctionOnSet(size, D)
               = SumFunctionOnSet(size, 1 .. to)
      BY <1>3, <1>4, <2>2, <2>9, RungsSplit
    <3>2. QED
      BY <1>5, <2>10, <3>1
  <2>12. D \subseteq 1 .. Rungs
    BY <1>2, <2>2, <2>9
  <2>13. m \in [D -> Legs] /\ \A i \in D : size[i] \in Nat
    BY <1>4, <2>9, <2>12
  <2>14. \A i \in DOMAIN actions' : \E j \in D :
           m[j] = actions'[i].leg /\ size[j] = actions'[i].request.size
    <3>1. TAKE i \in DOMAIN actions'
    <3>2. i \in 1 .. to - n /\ actions'[i] = Rung(n + i)
      BY <2>1, <2>6, <2>7
    <3>3. n + i \in D /\ n + i \in 1 .. Rungs
      BY <2>5, <2>9, <3>2
    <3>4. QED
      BY <2>4, <2>9, <3>2, <3>3
  <2>15. ClaimsInv'
    BY <1>1, <1>5, <2>7, <2>11, <2>13, <2>14, StepKeepsClaims
  <2>16. LadderInv'
    <3>1. ASSUME NEW k \in DOMAIN acts, NEW i \in 1 .. Rungs, acts[k].leg = ids[i]
          PROVE  acts[k].request.size = size[i]
      <4>1. acts[k] = Rung(n + k) /\ n + k \in 1 .. Rungs
        BY <2>1, <2>5, <2>6
      <4>2. ids[n + k] = ids[i]
        BY <2>4, <3>1, <4>1
      <4>3. n + k = i
        BY <1>4, <4>1, <4>2
      <4>4. QED
        BY <2>4, <4>1, <4>3
    <3>2. QED
      BY <1>3, <1>4, <2>3, <2>7, <2>8, <3>1 DEF LadderInv
  <2>17. LadderCalmInv'
    <3>1. ~Finishes'
      BY <2>7, <2>8, EndingsAreKnown DEF Finishes
    <3>2. ASSUME disturbed' = {}, NEW i \in 1 .. to PROVE Answered(ids[i])'
      <4>1. CASE i \in 1 .. n
        <5>1. intent[ids[i]] = "submitted"
          BY <1>8, <2>1, <2>7, <2>8, <3>2, <4>1
        <5>2. QED
          BY <2>8, <5>1 DEF Answered, Settled
      <4>2. CASE i \notin 1 .. n
        <5>1. PICK k \in 1 .. to - n : i = n + k
          <6>1. i - n \in 1 .. to - n /\ i = n + (i - n)
            BY <1>2, <2>2, <4>2
          <6>2. QED
            BY <6>1
        <5>2. acts[k] = Rung(i) /\ i \in 1 .. Rungs
          BY <2>1, <2>5, <5>1
        <5>3. acts[k].leg = ids[i] /\ acts[k].type = "submit" /\ ids[i] \in Legs
          BY <2>4, <5>2 DEF Orders
        <5>4. ids[i] \in Due'
          BY <2>6, <2>7, <5>1, <5>3 DEF Due
        <5>5. QED
          BY <5>4 DEF Answered
      <4>3. QED
        BY <4>1, <4>2
    <3>3. QED
      BY <2>3, <2>7, <3>1, <3>2 DEF LadderCalmInv
  <2>18. QED
    BY <1>7, <2>7, <2>15, <2>16, <2>17, EndingsAreKnown
<1>12. QED
  BY <1>10, <1>11 DEF LadderAdvance

\* The states a position may be in.
PositionState(s) ==
  /\ strategy = "momentum" => s \in MomentumState
  /\ strategy = "mean_reversion" =>
       s \in MeanReversionState /\ (s.phase = "in_position" => s.side \in Sides)
  /\ s.phase = "watching" => s.fresh

\* The opposite of a side is another.
LEMMA SidesDiffer ==
  ASSUME NEW side \in Sides
  PROVE  Opposite(side) \in Sides /\ Opposite(side) # side
BY DEF Sides, Opposite

\* What a step of a position keeps of the rest.
LEMMA PositionKeepsRest ==
  ASSUME IInv, strategy \in Signals, UNCHANGED now, Stepped, HostInv', CalmInv', OnlySends',
         ClaimsInv', PositionState(state'), PositionCalmInv'
  PROVE  IInv'
<1>1. strategy' = strategy /\ strategy' \in Signals
  BY SteppedKeepsOrders
<1>2. strategy' \in {"momentum", "mean_reversion"}
  BY <1>1 DEF Signals
<1>3. EndsInv'
  BY <1>2 DEF EndsInv, Whole
<1>4. SignalInv'
  BY <1>1 DEF SignalInv, PositionState
<1>5. /\ TwapInv' /\ DcaInv' /\ AccumulateInv' /\ LadderInv' /\ RebalanceInv'
      /\ LadderCalmInv' /\ RebalanceCalmInv'
  BY <1>2
  DEF TwapInv, DcaInv, AccumulateInv, LadderInv, RebalanceInv, LadderCalmInv, RebalanceCalmInv
<1>6. now' \in 0 .. Duration
  BY DEF IInv
<1>7. QED
  BY <1>3, <1>4, <1>5, <1>6 DEF IInv

\* When a calm position is asked again about its price, its entry has filled: it was
\* accepted, and a market order is filled as it is accepted.
LEMMA EntryHasFilled ==
  ASSUME HostInv, OnlySends, PositionCalmInv, strategy \in Signals, disturbed = {}, ~Expired,
         state.phase = "in_position", ~EntryWasRejected,
         ~Over, Due = {}, row.lastError = lastError
  PROVE  \E entry \in Legs :
           /\ order[entry] = "filled" /\ request[entry] = Market(state.side, PositionSize)
           /\ \A l \in Legs : order[l] # "absent" => l = entry
<1>1. PICK entry \in Legs :
        /\ (state.fresh /\ Answered(entry)) \/ order[entry] = "filled"
        /\ \A l \in Legs : SentOrDue(l) => l = entry
        /\ order[entry] # "absent" => request[entry] = Market(state.side, PositionSize)
  BY DEF PositionCalmInv
<1>2. order[entry] = "filled"
  <2>1. SUFFICES ASSUME state.fresh, Answered(entry) PROVE order[entry] = "filled"
    BY <1>1
  <2>2. ~lastError
    BY <2>1 DEF EntryWasRejected
  <2>3. intent[entry] = "submitted"
    BY <2>1, <2>2 DEF Answered, Settled
  <2>4. LegInv(entry) /\ order[entry] \in Accepted
    BY <2>3 DEF HostInv, LegInv
  <2>5. request[entry].market
    BY <1>1, <2>4 DEF Market, Accepted
  <2>6. order[entry] # "live"
    BY <2>4, <2>5 DEF LegInv
  <2>7. order[entry] # "cancelled"
    BY <2>4 DEF LegInv, OnlySends
  <2>8. QED
    BY <2>4, <2>6, <2>7 DEF Accepted
<1>3. QED
  BY <1>1, <1>2 DEF SentOrDue

\* A step of a position that sends nothing: it goes on, or ends the position when its time
\* is up or its entry was refused.
LEMMA QuietStepKeepsPosition ==
  ASSUME IInv, strategy \in Signals, pc = "called", ReadsNothing, UNCHANGED now,
         NEW next, NEW ending \in Endings, Return(next, <<>>, ending),
         PositionState(next), next.side = state.side,
         \/ next.phase = state.phase /\ ~EntryWasRejected
         \/ next.phase = "exited" /\ (Expired \/ (EntryWasRejected /\ state.phase = "in_position"))
  PROVE  IInv'
<1>1. HostInv /\ CalmInv /\ OnlySends /\ ClaimsInv /\ SignalInv /\ PositionCalmInv
  BY DEF IInv
<1>2. <<>> \in Seq(Orders)
  BY OrdersAreTyped
<1>3. /\ Stepped /\ HostInv' /\ CalmInv' /\ OnlySends'
      /\ state' = next /\ actions' = <<>> /\ done' = ending
      /\ ~Over /\ Due = {} /\ (Calm => row.lastError = lastError)
  BY <1>1, <1>2, StepIsTaken
<1>4. UNCHANGED <<strategy, intent, order, request, disturbed>>
  BY <1>3, SteppedKeepsOrders
<1>5. state.phase \in Phases /\ next.phase \in Phases
  BY <1>1 DEF SignalInv, PositionState, Signals, MomentumState, MeanReversionState
<1>6. ClaimsInv'
  <2>1. PositionSize \in Nat
    BY PositionAssumption DEF PositionAssumption
  <2>2. /\ state.phase = "watching" => Released = 0
        /\ state.phase = "in_position" => Released = PositionSize
        /\ state.phase = "exited" => Released = 2 * PositionSize
    BY ReleasedIs
  <2>3. (strategy \in Signals)' =>
          /\ (state.phase = "watching")' => (Released = 0)'
          /\ (state.phase = "in_position")' => (Released = PositionSize)'
          /\ (state.phase = "exited")' => (Released = 2 * PositionSize)'
    BY ReleasedIs, PTL
  <2>4. /\ next.phase = "watching" => Released' = 0
        /\ next.phase = "in_position" => Released' = PositionSize
        /\ next.phase = "exited" => Released' = 2 * PositionSize
    BY <1>3, <1>4, <2>3
  <2>5. Released \in Nat /\ Released' \in Nat /\ Released <= Released'
    BY <1>5, <2>1, <2>2, <2>4 DEF Phases
  <2>6. QED
    BY <1>1, <1>3, <2>5, EmptyStepKeepsClaims
<1>7. Due' = {} /\ \A l \in Legs : SentOrDue(l)' <=> order[l] # "absent"
  BY <1>3, <1>4 DEF Due, SentOrDue
<1>8. PositionCalmInv'
  <2>1. SUFFICES ASSUME disturbed = {}, ~Expired PROVE PositionCalmInv'
    BY <1>4 DEF PositionCalmInv, Expired
  <2>2. row.lastError = lastError
    BY <1>3, <2>1 DEF Calm
  <2>3. ASSUME next.phase = "watching", NEW l \in Legs PROVE ~SentOrDue(l)'
    <3>1. state.phase = "watching"
      BY <2>3
    <3>2. order[l] = "absent"
      BY <1>1, <2>1, <3>1 DEF PositionCalmInv, SentOrDue
    <3>3. QED
      BY <1>7, <3>2
  <2>4. ASSUME next.phase = "in_position"
        PROVE  \E entry \in Legs :
                 /\ order[entry] = "filled" /\ request[entry] = Market(state.side, PositionSize)
                 /\ \A l \in Legs : order[l] # "absent" => l = entry
    <3>1. state.phase = "in_position" /\ ~EntryWasRejected
      BY <2>4
    <3>2. QED
      BY <1>1, <1>3, <2>1, <2>2, <3>1, EntryHasFilled
  <2>5. ASSUME next.phase = "exited", HasExited' PROVE HasEntered'
    <3>1. HasExited
      BY <1>3, <1>4, <2>5 DEF HasExited, SentOf, Sent
    <3>2. CASE state.phase = "exited"
      <4>1. HasEntered
        BY <1>1, <2>1, <3>1, <3>2 DEF PositionCalmInv
      <4>2. QED
        BY <1>3, <1>4, <4>1 DEF HasEntered, SentOf, Sent
    <3>3. CASE state.phase # "exited"
      <4>1. state.phase = "in_position"
        BY <2>1, <2>5, <3>3
      <4>2. state.side \in Sides
        BY <1>1, <4>1 DEF SignalInv, Signals, MomentumState
      <4>3. PICK entry \in Legs :
              /\ \A l \in Legs : SentOrDue(l) => l = entry
              /\ order[entry] # "absent" => request[entry] = Market(state.side, PositionSize)
        BY <1>1, <2>1, <4>1 DEF PositionCalmInv
      <4>4. PICK l \in Legs : order[l] # "absent" /\ request[l].side = Opposite(state.side)
        BY <3>1 DEF HasExited, SentOf, Sent
      <4>5. request[l] = Market(state.side, PositionSize)
        BY <4>3, <4>4 DEF SentOrDue
      <4>6. request[l].side = state.side
        BY <4>5 DEF Market
      <4>7. QED
        BY <4>2, <4>4, <4>6, SidesDiffer
    <3>4. QED
      BY <3>2, <3>3
  <2>6. DOMAIN actions' = {}
    BY <1>3
  <2>7. QED
    BY <1>3, <1>4, <1>7, <2>3, <2>4, <2>5, <2>6 DEF PositionCalmInv
<1>9. PositionState(state')
  BY <1>3
<1>10. QED
  BY <1>3, <1>6, <1>8, <1>9, PositionKeepsRest

\* A step of a position that sends an order: it enters, or it leaves after its entry has
\* filled, or because its time is up.
LEMMA TradeKeepsPosition ==
  ASSUME IInv, strategy \in Signals, pc = "called", ReadsNothing, UNCHANGED now,
         NEW next, NEW ending \in Endings, NEW side \in Sides, Trades(next, side, ending),
         PositionState(next),
         \/ state.phase = "watching" /\ next.phase = "in_position" /\ next.side = side /\ next.fresh
         \/ /\ state.phase = "in_position" /\ next.phase = "exited" /\ next.side = state.side
            /\ Expired \/ ~EntryWasRejected
  PROVE  IInv'
<1>1. HostInv /\ CalmInv /\ OnlySends /\ ClaimsInv /\ SignalInv /\ PositionCalmInv
  BY DEF IInv
<1>2. PICK l \in FreshLeg : Return(next, <<Submit(l, Market(side, PositionSize))>>, ending)
  BY DEF Trades
<1>3. PositionSize \in Nat \ {0}
  BY PositionAssumption DEF PositionAssumption
<1>4. l \in Legs /\ order[l] = "absent"
  BY <1>1 DEF FreshLeg, FreshLegs, HostInv, LegInv
<1>5. PICK what \in Request : what = Market(side, PositionSize) /\ what.size = PositionSize
  BY <1>3, RequestsAreTyped
<1>6. <<Submit(l, what)>> \in Seq(Orders) /\ Return(next, <<Submit(l, what)>>, ending)
  BY <1>2, <1>3, <1>4, <1>5, OrdersAreTyped
<1>7. /\ Stepped /\ HostInv' /\ CalmInv' /\ OnlySends'
      /\ state' = next /\ actions' = <<Submit(l, what)>> /\ done' = ending
      /\ ~Over /\ Due = {} /\ (Calm => row.lastError = lastError)
  BY <1>1, <1>6, StepIsTaken
<1>8. UNCHANGED <<strategy, intent, order, request, disturbed>>
  BY <1>7, SteppedKeepsOrders
<1>9. ClaimsInv'
  <2>1. /\ state.phase = "watching" => Released = 0
        /\ state.phase = "in_position" => Released = PositionSize
        /\ state.phase = "exited" => Released = 2 * PositionSize
    BY ReleasedIs
  <2>2. (strategy \in Signals)' =>
          /\ (state.phase = "watching")' => (Released = 0)'
          /\ (state.phase = "in_position")' => (Released = PositionSize)'
          /\ (state.phase = "exited")' => (Released = 2 * PositionSize)'
    BY ReleasedIs, PTL
  <2>3. /\ next.phase = "in_position" => Released' = PositionSize
        /\ next.phase = "exited" => Released' = 2 * PositionSize
    BY <1>7, <1>8, <2>2
  <2>4. Released \in Nat /\ Released' \in Nat /\ Released + what.size <= Released'
    BY <1>3, <1>5, <2>1, <2>3
  <2>5. QED
    BY <1>1, <1>4, <1>7, <2>4, OneOrderKeepsClaims
<1>10. Due' = {l}
  BY <1>4, <1>7 DEF Due, Submit
<1>11. PositionCalmInv'
  <2>1. SUFFICES ASSUME disturbed = {}, ~Expired PROVE PositionCalmInv'
    BY <1>8 DEF PositionCalmInv, Expired
  <2>2. row.lastError = lastError
    BY <1>7, <2>1 DEF Calm
  <2>3. CASE /\ state.phase = "watching" /\ next.phase = "in_position"
             /\ next.side = side /\ next.fresh
    <3>1. \A k \in Legs : order[k] = "absent"
      BY <1>1, <2>1, <2>3 DEF PositionCalmInv, SentOrDue
    <3>2. Answered(l)' /\ \A k \in Legs : SentOrDue(k)' => k = l
      BY <1>8, <1>10, <3>1 DEF Answered, SentOrDue
    <3>3. \A n \in DOMAIN actions' : actions'[n].request = Market(side, PositionSize)
      BY <1>5, <1>7 DEF Submit
    <3>4. QED
      BY <1>4, <1>7, <1>8, <2>3, <3>1, <3>2, <3>3 DEF PositionCalmInv
  <2>4. CASE /\ state.phase = "in_position" /\ next.phase = "exited" /\ next.side = state.side
             /\ ~EntryWasRejected
    <3>1. PICK entry \in Legs :
            order[entry] = "filled" /\ request[entry] = Market(state.side, PositionSize)
      BY <1>1, <1>7, <2>1, <2>2, <2>4, EntryHasFilled
    <3>2. order'[entry] = "filled" /\ request'[entry].side = state'.side
      BY <1>7, <1>8, <2>4, <3>1 DEF Market
    <3>3. HasEntered'
      BY <3>2 DEF HasEntered, SentOf, Sent
    <3>4. QED
      BY <1>7, <2>4, <3>3 DEF PositionCalmInv
  <2>5. QED
    BY <2>1, <2>3, <2>4
<1>12. PositionState(state')
  BY <1>7
<1>13. QED
  BY <1>7, <1>9, <1>11, <1>12, PositionKeepsRest

\* A position that is asked for a step is in one of its states, and may leave it.
LEMMA PositionMayEnd ==
  ASSUME IInv, strategy \in Signals
  PROVE  /\ PositionState(state) /\ state.phase \in Phases
         /\ state.phase = "in_position" => state.side \in Sides
         /\ \A next : next = [state EXCEPT !.phase = "exited"] =>
              PositionState(next) /\ next.side = state.side /\ next.phase = "exited"
<1>1. SignalInv
  BY DEF IInv
<1>2. CASE strategy = "momentum"
  <2>1. state \in MomentumState
    BY <1>1, <1>2 DEF SignalInv
  <2>2. ASSUME NEW next, next = [state EXCEPT !.phase = "exited"]
        PROVE  next \in MomentumState /\ next.side = state.side /\ next.phase = "exited"
    BY <2>1, <2>2 DEF MomentumState, Phases
  <2>3. QED
    BY <1>1, <1>2, <2>1, <2>2 DEF PositionState, SignalInv, MomentumState
<1>3. CASE strategy = "mean_reversion"
  <2>1. state \in MeanReversionState
    BY <1>1, <1>3 DEF SignalInv
  <2>2. ASSUME NEW next, next = [state EXCEPT !.phase = "exited"]
        PROVE  next \in MeanReversionState /\ next.side = state.side /\ next.phase = "exited"
    BY <2>1, <2>2 DEF MeanReversionState, Phases
  <2>3. QED
    BY <1>1, <1>3, <2>1, <2>2 DEF PositionState, SignalInv, MeanReversionState
<1>4. QED
  BY <1>2, <1>3 DEF Signals

\* The steps momentum and mean reversion have in common.
LEMMA PositionStepsKeepIInv ==
  ASSUME IInv, strategy \in Signals, pc = "called", ReadsNothing, UNCHANGED now, PositionSteps
  PROVE  IInv'
<1>1. /\ Ending("completed", FALSE) \in Endings /\ Ending("completed", TRUE) \in Endings
      /\ Ending("failed", TRUE) \in Endings /\ NotDone \in Endings
  BY EndingsAreKnown
<1>2. /\ PositionState(state) /\ state.phase \in Phases
      /\ state.phase = "in_position" => state.side \in Sides
  BY PositionMayEnd
<1>3. PICK out : out = [state EXCEPT !.phase = "exited"]
  OBVIOUS
<1>4. PositionState(out) /\ out.side = state.side /\ out.phase = "exited"
  BY <1>3, PositionMayEnd
<1>5. CASE PositionClosed
  <2>1. Return(state, <<>>, Ending("completed", FALSE)) /\ ~EntryWasRejected
    BY <1>5 DEF PositionClosed, EntryWasRejected
  <2>2. QED
    BY <1>1, <1>2, <2>1, QuietStepKeepsPosition
<1>6. CASE PositionExpires
  <2>1. CASE Return(out, <<>>, Ending("completed", TRUE)) /\ Expired
    BY <1>1, <1>4, <2>1, QuietStepKeepsPosition
  <2>2. CASE state.phase = "in_position" /\ Leaves(state, Ending("completed", TRUE)) /\ Expired
    <3>1. PICK side \in Sides : side = Opposite(state.side)
      BY <1>2, <2>2, SidesDiffer
    <3>2. Trades(out, side, Ending("completed", TRUE))
      BY <1>3, <2>2, <3>1 DEF Leaves
    <3>3. QED
      BY <1>1, <1>4, <2>2, <3>2, TradeKeepsPosition
  <2>3. QED
    BY <1>3, <1>6, <2>1, <2>2 DEF PositionExpires
<1>7. CASE PositionRejected
  <2>1. /\ Return(out, <<>>, Ending("failed", TRUE))
        /\ EntryWasRejected /\ state.phase = "in_position"
    BY <1>3, <1>7 DEF PositionRejected, EntryWasRejected
  <2>2. QED
    BY <1>1, <1>4, <2>1, QuietStepKeepsPosition
<1>8. CASE PositionNoPrice
  <2>1. Return(state, <<>>, NotDone) /\ ~EntryWasRejected
    BY <1>8 DEF PositionNoPrice, PositionReads
  <2>2. QED
    BY <1>1, <1>2, <2>1, QuietStepKeepsPosition
<1>9. QED
  BY <1>5, <1>6, <1>7, <1>8 DEF PositionSteps

\* Momentum enters once, and leaves what it has entered.
LEMMA MomentumKeepsIInv ==
  ASSUME IInv, MomentumAdvance, UNCHANGED now
  PROVE  IInv'
<1>1. /\ strategy = "momentum" /\ strategy \in Signals /\ pc = "called" /\ ReadsNothing
      /\ state \in MomentumState /\ (state.phase = "watching" => state.fresh)
  BY DEF IInv, SignalInv, MomentumAdvance, Called, Signals
<1>2. /\ Ending("completed", TRUE) \in Endings /\ NotDone \in Endings
  BY EndingsAreKnown
<1>3. state.side \in Sides
  BY <1>1 DEF MomentumState
<1>4. CASE PositionSteps
  BY <1>1, <1>4, PositionStepsKeepIInv
<1>5. ASSUME PositionReads, NEW price \in Quotes, MomentumWatch(price) \/ MomentumHold(price)
      PROVE  IInv'
  <2>1. ~EntryWasRejected
    BY <1>5 DEF PositionReads
  <2>2. PICK s : s = Sampled(price)
    OBVIOUS
  <2>3. /\ s \in MomentumState /\ s.side = state.side /\ s.phase = state.phase
        /\ s.fresh = state.fresh
    <3>1. PushWindow(state.prices, price) \in Windows
      BY <1>1, WindowsAreKept DEF MomentumState
    <3>2. s = [state EXCEPT !.prices = PushWindow(@, price)]
      BY <2>2 DEF Sampled
    <3>3. QED
      BY <1>1, <3>1, <3>2 DEF MomentumState
  <2>4. CASE MomentumWatch(price)
    <3>1. state.phase = "watching"
      BY <2>4 DEF MomentumWatch
    <3>2. CASE Return(s, <<>>, NotDone)
      <4>1. PositionState(s)
        BY <1>1, <2>3 DEF PositionState
      <4>2. QED
        BY <1>1, <1>2, <2>1, <2>3, <3>2, <4>1, QuietStepKeepsPosition
    <3>3. CASE Trades([s EXCEPT !.phase = "in_position", !.peak = price], state.side, NotDone)
      <4>1. PICK went, side :
              /\ went = [s EXCEPT !.phase = "in_position", !.peak = price]
              /\ side = state.side /\ side \in Sides
        BY <1>3
      <4>2. /\ went \in MomentumState /\ went.side = side
            /\ went.phase = "in_position" /\ went.fresh
        BY <1>1, <2>3, <3>1, <4>1 DEF MomentumState, Phases
      <4>3. PositionState(went)
        BY <1>1, <4>2 DEF PositionState
      <4>4. Trades(went, side, NotDone)
        BY <3>3, <4>1
      <4>5. QED
        BY <1>1, <1>2, <3>1, <4>1, <4>2, <4>3, <4>4, TradeKeepsPosition
    <3>4. QED
      BY <2>2, <2>4, <3>2, <3>3 DEF MomentumWatch
  <2>5. CASE MomentumHold(price)
    <3>1. state.phase = "in_position"
      BY <2>5 DEF MomentumHold
    <3>2. PICK held : held = [s EXCEPT !.peak = Peak(price), !.fresh = FALSE]
      OBVIOUS
    <3>3. held \in MomentumState /\ held.side = state.side /\ held.phase = "in_position"
      <4>1. Peak(price) \in Quotes \union {0}
        BY <1>1 DEF Peak, MomentumState
      <4>2. QED
        BY <2>3, <3>1, <3>2, <4>1 DEF MomentumState
    <3>4. CASE Return(held, <<>>, NotDone)
      <4>1. PositionState(held)
        BY <1>1, <3>3 DEF PositionState
      <4>2. QED
        BY <1>1, <1>2, <2>1, <3>1, <3>3, <3>4, <4>1, QuietStepKeepsPosition
    <3>5. CASE Leaves(held, Ending("completed", TRUE))
      <4>1. PICK out, side :
              /\ out = [held EXCEPT !.phase = "exited"]
              /\ side = Opposite(held.side) /\ side \in Sides
        BY <1>3, <3>3, SidesDiffer
      <4>2. out \in MomentumState /\ out.side = state.side /\ out.phase = "exited"
        BY <3>3, <4>1 DEF MomentumState, Phases
      <4>3. PositionState(out)
        BY <1>1, <4>2 DEF PositionState
      <4>4. Trades(out, side, Ending("completed", TRUE))
        BY <3>5, <4>1 DEF Leaves
      <4>5. QED
        BY <1>1, <1>2, <2>1, <3>1, <4>1, <4>2, <4>3, <4>4, TradeKeepsPosition
    <3>6. QED
      BY <2>2, <2>5, <3>2, <3>4, <3>5 DEF MomentumHold
  <2>6. QED
    BY <1>5, <2>4, <2>5
<1>6. QED
  BY <1>4, <1>5 DEF MomentumAdvance

\* Mean reversion enters once, and leaves what it has entered.
LEMMA MeanReversionKeepsIInv ==
  ASSUME IInv, MeanReversionAdvance, UNCHANGED now
  PROVE  IInv'
<1>1. /\ strategy = "mean_reversion" /\ strategy \in Signals /\ pc = "called" /\ ReadsNothing
      /\ state \in MeanReversionState /\ (state.phase = "watching" => state.fresh)
      /\ state.phase = "in_position" => state.side \in Sides
  BY DEF IInv, SignalInv, MeanReversionAdvance, Called, Signals
<1>2. /\ Ending("completed", TRUE) \in Endings /\ NotDone \in Endings
  BY EndingsAreKnown
<1>3. CASE PositionSteps
  BY <1>1, <1>3, PositionStepsKeepIInv
<1>4. ASSUME PositionReads, NEW price \in Quotes,
             MeanReversionSample(price) \/ MeanReversionWatch(price) \/ MeanReversionHold(price)
      PROVE  IInv'
  <2>1. ~EntryWasRejected
    BY <1>4 DEF PositionReads
  <2>2. PICK s : s = Sampled(price)
    OBVIOUS
  <2>3. /\ s \in MeanReversionState /\ s.side = state.side /\ s.phase = state.phase
        /\ s.fresh = state.fresh
    <3>1. PushWindow(state.prices, price) \in Windows
      BY <1>1, WindowsAreKept DEF MeanReversionState
    <3>2. s = [state EXCEPT !.prices = PushWindow(@, price)]
      BY <2>2 DEF Sampled
    <3>3. QED
      BY <1>1, <3>1, <3>2 DEF MeanReversionState
  <2>4. CASE Return(s, <<>>, NotDone)
    <3>1. PositionState(s)
      BY <1>1, <2>3 DEF PositionState
    <3>2. QED
      BY <1>1, <1>2, <2>1, <2>3, <2>4, <3>1, QuietStepKeepsPosition
  <2>5. CASE MeanReversionWatch(price) /\ ~Return(s, <<>>, NotDone)
    <3>1. PICK side \in state.sides :
            /\ state.phase = "watching"
            /\ Trades([s EXCEPT !.phase = "in_position", !.side = side], side, NotDone)
      BY <2>2, <2>5 DEF MeanReversionWatch
    <3>2. side \in Sides
      BY <1>1 DEF MeanReversionState
    <3>3. PICK went : went = [s EXCEPT !.phase = "in_position", !.side = side]
      OBVIOUS
    <3>4. /\ went \in MeanReversionState /\ went.side = side
          /\ went.phase = "in_position" /\ went.fresh
      BY <1>1, <2>3, <3>1, <3>2, <3>3 DEF MeanReversionState, Phases
    <3>5. PositionState(went)
      BY <1>1, <3>2, <3>4 DEF PositionState
    <3>6. Trades(went, side, NotDone)
      BY <3>1, <3>3
    <3>7. QED
      BY <1>1, <1>2, <3>1, <3>2, <3>4, <3>5, <3>6, TradeKeepsPosition
  <2>6. CASE MeanReversionHold(price)
    <3>1. state.phase = "in_position" /\ state.side \in Sides
      BY <1>1, <2>6 DEF MeanReversionHold
    <3>2. PICK held : held = [s EXCEPT !.fresh = FALSE]
      OBVIOUS
    <3>3. held \in MeanReversionState /\ held.side = state.side /\ held.phase = "in_position"
      BY <2>3, <3>1, <3>2 DEF MeanReversionState
    <3>4. CASE Return(held, <<>>, NotDone)
      <4>1. PositionState(held)
        BY <1>1, <3>1, <3>3 DEF PositionState
      <4>2. QED
        BY <1>1, <1>2, <2>1, <3>1, <3>3, <3>4, <4>1, QuietStepKeepsPosition
    <3>5. CASE Leaves(held, Ending("completed", TRUE))
      <4>1. PICK out, side :
              /\ out = [held EXCEPT !.phase = "exited"]
              /\ side = Opposite(held.side) /\ side \in Sides
        BY <3>1, <3>3, SidesDiffer
      <4>2. out \in MeanReversionState /\ out.side = state.side /\ out.phase = "exited"
        BY <3>3, <4>1 DEF MeanReversionState, Phases
      <4>3. PositionState(out)
        BY <1>1, <4>2 DEF PositionState
      <4>4. Trades(out, side, Ending("completed", TRUE))
        BY <3>5, <4>1 DEF Leaves
      <4>5. QED
        BY <1>1, <1>2, <2>1, <3>1, <4>1, <4>2, <4>3, <4>4, TradeKeepsPosition
    <3>6. QED
      BY <2>2, <2>6, <3>2, <3>4, <3>5 DEF MeanReversionHold
  <2>7. CASE MeanReversionSample(price)
    BY <2>2, <2>4, <2>7 DEF MeanReversionSample
  <2>8. QED
    BY <1>4, <2>4, <2>5, <2>6, <2>7
<1>5. QED
  BY <1>3, <1>4 DEF MeanReversionAdvance

\* What a step of a rebalance keeps of the rest: it never completes without a reason.
LEMMA RebalanceKeepsRest ==
  ASSUME IInv, strategy = "rebalance", UNCHANGED now, Stepped, HostInv', CalmInv', OnlySends',
         ClaimsInv', RebalanceInv', RebalanceCalmInv'
  PROVE  IInv'
<1>1. strategy' = "rebalance"
  BY SteppedKeepsOrders
<1>2. EndsInv'
  BY <1>1 DEF EndsInv, Whole
<1>3. /\ TwapInv' /\ DcaInv' /\ AccumulateInv' /\ LadderInv' /\ SignalInv'
      /\ LadderCalmInv' /\ PositionCalmInv'
  BY <1>1
  DEF TwapInv, DcaInv, AccumulateInv, LadderInv, SignalInv, LadderCalmInv, PositionCalmInv,
      Signals
<1>4. now' \in 0 .. Duration
  BY DEF IInv
<1>5. QED
  BY <1>2, <1>3, <1>4 DEF IInv

\* The legs of a plan.
LEMMA PlansAreFinite ==
  ASSUME RebalanceInv, strategy = "rebalance"
  PROVE  /\ Len(state.plan) \in Nat /\ DOMAIN state.plan = 1 .. Len(state.plan)
         /\ IsFiniteSet(DOMAIN state.plan)
         /\ \A i \in DOMAIN state.plan : state.plan[i] \in PlannedLeg
         /\ DOMAIN state.executed = DOMAIN state.plan
         /\ Released = SumFunctionOnSet(state.executed, DOMAIN state.plan)
         /\ Released \in Nat
<1>1. state.plan \in Seq(PlannedLeg)
  BY PlansAssumption DEF RebalanceInv, RebalanceState, PlansAssumption
<1>2. /\ Len(state.plan) \in Nat /\ DOMAIN state.plan = 1 .. Len(state.plan)
      /\ \A i \in DOMAIN state.plan : state.plan[i] \in PlannedLeg
  BY <1>1
<1>3. IsFiniteSet(DOMAIN state.plan)
  BY <1>2, FS_Interval
<1>4. state.executed \in [DOMAIN state.plan -> Nat]
  BY DEF RebalanceInv
<1>5. Released = SumFunctionOnSet(state.executed, DOMAIN state.plan)
  BY <1>4, ReleasedIs
<1>6. PICK P, e : P = DOMAIN state.plan /\ e = state.executed
  OBVIOUS
<1>7. \A i \in P : e[i] \in Nat
  BY <1>4, <1>6
<1>8. SumFunctionOnSet(e, P) \in Nat
  BY <1>3, <1>6, <1>7, SumType
<1>9. QED
  BY <1>2, <1>3, <1>4, <1>5, <1>6, <1>8

\* A sell is no larger than the holding.
LEMMA LegsAreSized ==
  ASSUME NEW leg \in PlannedLeg, NEW price \in Nat \ {0}
  PROVE  /\ LegSize(leg, price) \in Nat
         /\ leg.side = "sell" => LegSize(leg, price) <= leg.heldQuantity
<1>1. leg.deltaUsd \in Nat /\ leg.heldQuantity \in Nat
  BY DEF PlannedLeg
<1>2. PICK drift \in Nat : drift = leg.deltaUsd \div price
  BY <1>1, Divides
<1>3. PICK size \in Nat :
        /\ size = IF leg.side = "sell" /\ leg.heldQuantity < drift THEN leg.heldQuantity ELSE drift
        /\ leg.side = "sell" => size <= leg.heldQuantity
  BY <1>1, <1>2
<1>4. LegSize(leg, price) = RoundDown(size)
  BY <1>2, <1>3 DEF LegSize
<1>5. RoundDown(size) \in Nat /\ RoundDown(size) <= size
  BY RoundsDown
<1>6. QED
  BY <1>1, <1>3, <1>4, <1>5

\* The legs of a batch wait, and there is no buy among them when a sell waits.
LEMMA BatchesWait ==
  ASSUME NEW i \in Batch(state)
  PROVE  /\ i \in PendingLegs(state)
         /\ state.plan[i].side = "sell" \/ \A j \in PendingLegs(state) : state.plan[j].side # "sell"
BY DEF Batch, Some

\* A leg that was tried is sized once, and within the plan; the others are as they were.
CountsOnce(tried, legs, i) ==
  /\ tried.status[i] = "pending" =>
       tried.executed[i] = 0 /\ tried.attempts[i] < MAX_LEG_ATTEMPTS
  /\ state.plan[i].side = "sell" => tried.executed[i] <= state.plan[i].heldQuantity
  /\ i \notin Batch(state) => tried.status[i] = state.status[i]
  /\ i \notin legs => tried.executed[i] = state.executed[i]
  /\ i \in legs => state.executed[i] = 0 /\ tried.executed[i] > 0

\* What the tried legs of a batch become, and what they were.
LEMMA TriesAreCounted ==
  ASSUME RebalanceInv, strategy = "rebalance",
         NEW quotes \in [Batch(state) -> Prices \union {NoQuote}],
         NEW tried, tried = Tried(state, quotes), NEW legs,
         legs = {i \in Batch(state) : tried.status[i] = "submitted"}
  PROVE  /\ tried \in RebalanceState /\ tried.plan = state.plan
         /\ tried.lastBatch = state.lastBatch
         /\ tried.status \in [DOMAIN state.plan -> LegStatus]
         /\ tried.attempts \in [DOMAIN state.plan -> 0 .. MAX_LEG_ATTEMPTS]
         /\ tried.executed \in [DOMAIN state.plan -> Nat]
         /\ legs \subseteq DOMAIN state.plan
         /\ \A i \in DOMAIN state.plan : CountsOnce(tried, legs, i)
<1>1. /\ state \in RebalanceState
      /\ state.status \in [DOMAIN state.plan -> LegStatus]
      /\ state.attempts \in [DOMAIN state.plan -> 0 .. MAX_LEG_ATTEMPTS]
      /\ state.executed \in [DOMAIN state.plan -> Nat]
      /\ \A i \in DOMAIN state.plan :
           /\ state.status[i] = "pending" =>
                state.executed[i] = 0 /\ state.attempts[i] < MAX_LEG_ATTEMPTS
           /\ state.plan[i].side = "sell" => state.executed[i] <= state.plan[i].heldQuantity
  BY DEF RebalanceInv
<1>2. PICK P, B : P = DOMAIN state.plan /\ B = Batch(state)
  OBVIOUS
<1>3. B \subseteq P /\ \A i \in B : state.status[i] = "pending"
  BY <1>2, BatchesWait DEF PendingLegs
<1>4. DOMAIN quotes = B /\ \A i \in B : quotes[i] = NoQuote \/ quotes[i] \in Nat \ {0}
  BY <1>2, RebalanceAssumption DEF RebalanceAssumption
<1>5. PICK at, st, ex :
        /\ at = [i \in P |-> IF i \in B THEN OneMoreAttempt(state.attempts[i])
                             ELSE state.attempts[i]]
        /\ st = [i \in P |-> IF i \in B THEN Became(state, i, quotes[i]) ELSE state.status[i]]
        /\ ex = [i \in P |-> IF i \in B /\ IsSent(state, i, quotes[i])
                             THEN LegSize(state.plan[i], quotes[i]) ELSE state.executed[i]]
  OBVIOUS
<1>6. tried = [state EXCEPT !.attempts = at, !.status = st, !.executed = ex]
  BY <1>1, <1>2, <1>4, <1>5 DEF Tried, RebalanceState
<1>7. /\ Len(state.plan) \in Nat /\ P = 1 .. Len(state.plan)
      /\ \A i \in P : state.plan[i] \in PlannedLeg
  BY <1>2, PlansAreFinite
<1>8. MAX_LEG_ATTEMPTS \in Nat \ {0}
  BY RebalanceAssumption DEF RebalanceAssumption
<1>9. at \in [P -> 0 .. MAX_LEG_ATTEMPTS]
  <2>1. ASSUME NEW i \in P PROVE at[i] \in 0 .. MAX_LEG_ATTEMPTS
    <3>1. state.attempts[i] \in 0 .. MAX_LEG_ATTEMPTS
      BY <1>1, <1>2
    <3>2. CASE i \in B
      <4>1. state.attempts[i] < MAX_LEG_ATTEMPTS
        BY <1>1, <1>2, <1>3, <3>2
      <4>2. QED
        BY <1>5, <1>8, <3>1, <3>2, <4>1 DEF OneMoreAttempt
    <3>3. QED
      BY <1>5, <3>1, <3>2
  <2>2. QED
    BY <1>5, <2>1
<1>10. \A i \in B : /\ st[i] \in LegStatus
                    /\ st[i] = "pending" => at[i] < MAX_LEG_ATTEMPTS
                    /\ st[i] = "submitted" <=> IsSent(state, i, quotes[i])
  <2>1. TAKE i \in B
  <2>2. /\ st[i] = Became(state, i, quotes[i])
        /\ at[i] = OneMoreAttempt(state.attempts[i])
    BY <1>3, <1>5
  <2>3. CASE IsSent(state, i, quotes[i])
    <3>1. Became(state, i, quotes[i]) = "submitted"
      BY <2>3 DEF Became, IsSent
    <3>2. QED
      BY <2>2, <2>3, <3>1 DEF LegStatus
  <2>4. CASE ~IsSent(state, i, quotes[i])
    BY <2>2, <2>4 DEF Became, LegStatus
  <2>5. QED
    BY <2>3, <2>4
<1>11. st \in [P -> LegStatus]
  <2>1. \A i \in P : st[i] \in LegStatus
    BY <1>1, <1>2, <1>5, <1>10
  <2>2. QED
    BY <1>5, <2>1
<1>12. \A i \in B : IsSent(state, i, quotes[i]) =>
         /\ ex[i] \in Nat /\ ex[i] > 0
         /\ state.plan[i].side = "sell" => ex[i] <= state.plan[i].heldQuantity
  <2>1. SUFFICES ASSUME NEW i \in B, IsSent(state, i, quotes[i])
                 PROVE  /\ ex[i] \in Nat /\ ex[i] > 0
                        /\ state.plan[i].side = "sell" => ex[i] <= state.plan[i].heldQuantity
    OBVIOUS
  <2>2. ex[i] = LegSize(state.plan[i], quotes[i])
    BY <1>3, <1>5, <2>1
  <2>3. quotes[i] \in Nat \ {0} /\ LegSize(state.plan[i], quotes[i]) > 0
    BY <1>4, <2>1 DEF IsSent
  <2>4. state.plan[i] \in PlannedLeg
    BY <1>3, <1>7
  <2>5. QED
    BY <2>2, <2>3, <2>4, LegsAreSized
<1>13. \A i \in P : ~(i \in B /\ IsSent(state, i, quotes[i])) => ex[i] = state.executed[i]
  BY <1>5
<1>14. ex \in [P -> Nat]
  <2>1. \A i \in P : ex[i] \in Nat
    BY <1>1, <1>2, <1>12, <1>13
  <2>2. QED
    BY <1>5, <2>1
<1>15. /\ tried \in RebalanceState /\ tried.plan = state.plan
       /\ tried.lastBatch = state.lastBatch
       /\ tried.status = st /\ tried.attempts = at /\ tried.executed = ex
  <2>1. st \in Seq(LegStatus) /\ at \in Seq(0 .. MAX_LEG_ATTEMPTS) /\ ex \in Seq(Nat)
    <3>1. PICK n \in Nat : P = 1 .. n
      BY <1>7
    <3>2. at \in Seq(0 .. MAX_LEG_ATTEMPTS)
      <4>1. PICK T : T = 0 .. MAX_LEG_ATTEMPTS
        OBVIOUS
      <4>2. at \in [1 .. n -> T]
        BY <1>9, <3>1, <4>1
      <4>3. at \in Seq(T)
        BY <4>2
      <4>4. QED
        BY <4>1, <4>3
    <3>3. st \in Seq(LegStatus)
      BY <1>11, <3>1
    <3>4. ex \in Seq(Nat)
      BY <1>14, <3>1
    <3>5. QED
      BY <3>2, <3>3, <3>4
  <2>2. QED
    BY <1>1, <1>6, <2>1 DEF RebalanceState
<1>16. legs \subseteq P /\ \A i \in P : i \in legs <=> i \in B /\ IsSent(state, i, quotes[i])
  BY <1>2, <1>3, <1>10, <1>15
<1>17. ASSUME NEW i \in P
       PROVE  /\ st[i] = "pending" => ex[i] = 0 /\ at[i] < MAX_LEG_ATTEMPTS
              /\ state.plan[i].side = "sell" => ex[i] <= state.plan[i].heldQuantity
              /\ i \notin B => st[i] = state.status[i]
              /\ i \notin legs => ex[i] = state.executed[i]
              /\ i \in legs => state.executed[i] = 0 /\ ex[i] > 0
  <2>1. i \notin legs => ex[i] = state.executed[i]
    BY <1>13, <1>16
  <2>2. i \in legs => state.executed[i] = 0 /\ ex[i] > 0
    BY <1>1, <1>2, <1>3, <1>12, <1>16
  <2>3. i \notin B => st[i] = state.status[i] /\ at[i] = state.attempts[i]
    BY <1>5
  <2>4. state.plan[i].side = "sell" => ex[i] <= state.plan[i].heldQuantity
    BY <1>1, <1>2, <1>12, <1>13
  <2>5. st[i] = "pending" => ex[i] = 0 /\ at[i] < MAX_LEG_ATTEMPTS
    <3>1. CASE i \in B
      BY <1>1, <1>2, <1>3, <1>10, <1>13, <3>1
    <3>2. CASE i \notin B
      BY <1>1, <1>2, <1>13, <2>3, <3>2
    <3>3. QED
      BY <3>1, <3>2
  <2>6. QED
    BY <2>1, <2>2, <2>3, <2>4, <2>5
<1>18. \A i \in P : CountsOnce(tried, legs, i)
  BY <1>2, <1>15, <1>17 DEF CountsOnce
<1>19. QED
  BY <1>2, <1>9, <1>11, <1>14, <1>15, <1>16, <1>18

\* Legs put in the order of the plan are all there, each once.
LEMMA OrderedAllOnce ==
  ASSUME NEW legs, IsFiniteSet(legs), legs \subseteq Nat, NEW sent \in InOrder(legs)
  PROVE  /\ Cardinality(legs) \in Nat /\ sent \in [1 .. Cardinality(legs) -> legs]
         /\ \A i \in legs : \E n \in 1 .. Cardinality(legs) : sent[n] = i
         /\ \A m, n \in 1 .. Cardinality(legs) : sent[m] = sent[n] => m = n
<1>1. PICK c \in Nat : c = Cardinality(legs)
  BY FS_CardinalityType
<1>2. /\ sent \in [1 .. c -> legs]
      /\ \A m, n \in 1 .. c : m < n => sent[m] < sent[n]
  BY <1>1 DEF InOrder
<1>3. \A m, n \in 1 .. c : sent[m] = sent[n] => m = n
  <2>1. SUFFICES ASSUME NEW m \in 1 .. c, NEW n \in 1 .. c, sent[m] = sent[n], m # n PROVE FALSE
    OBVIOUS
  <2>2. m < n \/ n < m
    BY <1>1, <2>1
  <2>3. sent[m] \in legs /\ sent[n] \in legs
    BY <1>2
  <2>4. sent[m] \in Nat /\ sent[n] \in Nat
    BY <2>3
  <2>5. sent[m] < sent[n] \/ sent[n] < sent[m]
    BY <1>2, <2>2
  <2>6. QED
    BY <2>1, <2>4, <2>5
<1>4. sent \in Injection(1 .. c, legs)
  BY <1>2, <1>3 DEF Injection, IsInjective
<1>5. IsFiniteSet(1 .. c) /\ Cardinality(1 .. c) = c
  BY <1>1, FS_Interval
<1>6. sent \in Surjection(1 .. c, legs)
  BY <1>1, <1>4, <1>5, FS_Injection
<1>7. \A i \in legs : \E n \in 1 .. c : sent[n] = i
  BY <1>6 DEF Surjection
<1>8. QED
  BY <1>1, <1>2, <1>3, <1>7

\* What the legs that are sent now add to what was sent before.
LEMMA SendingAddsUp ==
  ASSUME NEW P, IsFiniteSet(P), NEW legs \in SUBSET P, NEW e \in [P -> Nat], NEW f \in [P -> Nat],
         \A i \in P : i \notin legs => f[i] = e[i],
         \A i \in P : i \in legs => e[i] = 0
  PROVE  SumFunctionOnSet(e, P) + SumFunctionOnSet(f, legs) = SumFunctionOnSet(f, P)
<1>1. PICK rest : rest = P \ legs
  OBVIOUS
<1>2. IsFiniteSet(legs) /\ IsFiniteSet(rest) /\ rest \cap legs = {} /\ rest \cup legs = P
  BY <1>1, FS_Subset
<1>3. /\ \A i \in rest \cup legs : e[i] \in Nat
      /\ \A i \in rest \cup legs : f[i] \in Nat
      /\ \A i \in rest : e[i] = f[i]
  BY <1>1, <1>2
<1>4. SumFunctionOnSet(e, rest \cup legs) = SumFunctionOnSet(e, rest) + SumFunctionOnSet(e, legs)
  BY <1>2, <1>3, SumSplit
<1>5. SumFunctionOnSet(f, rest \cup legs) = SumFunctionOnSet(f, rest) + SumFunctionOnSet(f, legs)
  BY <1>2, <1>3, SumSplit
<1>6. SumFunctionOnSet(e, rest) = SumFunctionOnSet(f, rest)
  BY <1>2, <1>3, SumEqual
<1>7. SumFunctionOnSet(e, legs) = 0
  <2>1. \A i \in legs : e[i] \in 0 .. 0
    OBVIOUS
  <2>2. SumFunctionOnSet(e, legs) <= Cardinality(legs) * 0
    BY <1>2, <2>1, SumBound
  <2>3. \A i \in legs : e[i] \in Nat
    OBVIOUS
  <2>4. SumFunctionOnSet(e, legs) \in Nat
    BY <1>2, <2>3, SumType
  <2>5. Cardinality(legs) \in Nat
    BY <1>2, FS_CardinalityType
  <2>6. QED
    BY <2>2, <2>4, <2>5
<1>8. SumFunctionOnSet(f, rest) \in Nat /\ SumFunctionOnSet(f, legs) \in Nat
  <2>1. (\A i \in rest : f[i] \in Nat) /\ (\A i \in legs : f[i] \in Nat)
    BY <1>3
  <2>2. QED
    BY <1>2, <2>1, SumType
<1>9. QED
  BY <1>2, <1>4, <1>5, <1>6, <1>7, <1>8

\* When a calm rebalance is asked again, every leg it has sent has been accepted.
LEMMA LegsAreAccepted ==
  ASSUME strategy = "rebalance", NEW id \in [DOMAIN state.plan -> Legs], Belongs(id),
         ~BatchWasRejected, ~Over, Due = {}, row.lastError = lastError,
         NEW i \in DOMAIN state.plan, Sends(i)
  PROVE  intent[id[i]] = "submitted"
<1>1. Answered(id[i]) /\ (state.lastBatch \/ Settled(id[i]))
  BY DEF Belongs
<1>2. state.lastBatch => ~lastError
  BY DEF BatchWasRejected
<1>3. QED
  BY <1>1, <1>2 DEF Answered, Settled

\* A step of a rebalance that sends nothing ends it.
LEMMA RebalanceEndKeepsIInv ==
  ASSUME IInv, strategy = "rebalance", pc = "called", ReadsNothing, UNCHANGED now,
         NEW next, next = [state EXCEPT !.lastBatch = FALSE],
         NEW ending \in Endings, ending # NotDone, Return(next, <<>>, ending)
  PROVE  IInv'
<1>1. /\ HostInv /\ CalmInv /\ OnlySends /\ ClaimsInv /\ RebalanceInv /\ RebalanceCalmInv
      /\ state \in RebalanceState
  BY DEF IInv, RebalanceInv
<1>2. <<>> \in Seq(Orders)
  BY OrdersAreTyped
<1>3. /\ Stepped /\ HostInv' /\ CalmInv' /\ OnlySends'
      /\ state' = next /\ actions' = <<>> /\ done' = ending
      /\ ~Over /\ Due = {} /\ (Calm => row.lastError = lastError)
  BY <1>1, <1>2, StepIsTaken
<1>4. strategy' = "rebalance" /\ UNCHANGED <<intent, order, request, disturbed>>
  BY <1>3, SteppedKeepsOrders
<1>5. /\ next \in RebalanceState /\ next.plan = state.plan /\ next.status = state.status
      /\ next.attempts = state.attempts /\ next.executed = state.executed
  BY <1>1 DEF RebalanceState
<1>6. RebalanceInv'
  BY <1>1, <1>3, <1>4, <1>5 DEF RebalanceInv
<1>7. ClaimsInv'
  <2>1. (strategy = "rebalance")' =>
          (Released = SumFunctionOnSet(state.executed, DOMAIN state.executed))'
    BY ReleasedIs, PTL
  <2>2. Released' = Released /\ Released \in Nat
    BY <1>1, <1>3, <1>4, <1>5, <2>1, ReleasedIs, PlansAreFinite
  <2>3. QED
    BY <1>1, <1>3, <2>2, EmptyStepKeepsClaims
<1>8. RebalanceCalmInv'
  <2>1. SUFFICES ASSUME disturbed = {} PROVE RebalanceCalmInv'
    BY <1>4 DEF RebalanceCalmInv
  <2>2. PICK id \in [DOMAIN state.plan -> Legs] : Belongs(id)
    BY <1>1, <2>1 DEF RebalanceCalmInv
  <2>3. Over' /\ \A l : Answered(l)' /\ Settled(l)'
    BY <1>3 DEF Over, Answered, Settled
  <2>4. \A l \in Legs : SentOrDue(l)' => SentOrDue(l)
    BY <1>3, <1>4 DEF SentOrDue, Due
  <2>5. \A i : Sends(i)' = Sends(i)
    BY <1>3, <1>5 DEF Sends
  <2>6. DOMAIN actions' = {}
    BY <1>3
  <2>7. Belongs(id)'
    BY <1>3, <1>4, <1>5, <2>2, <2>3, <2>4, <2>5, <2>6 DEF Belongs
  <2>8. QED
    BY <1>3, <1>5, <2>2, <2>7 DEF RebalanceCalmInv
<1>9. QED
  BY <1>3, <1>6, <1>7, <1>8, RebalanceKeepsRest

\* The order of each leg has an id of its own.
Assigns(m, legs, sent, ids) ==
  /\ DOMAIN sent = 1 .. Cardinality(legs) /\ Cardinality(legs) \in Nat
  /\ \A n \in DOMAIN sent : sent[n] \in legs /\ m[sent[n]] = ids[n]
  /\ \A i \in legs : \E n \in DOMAIN sent : sent[n] = i
  /\ \A i, j \in legs : m[i] = m[j] => i = j

\* Each leg that is sent gets an id of its own.
LEMMA LegsGetIds ==
  ASSUME NEW legs, IsFiniteSet(legs), legs \subseteq Nat, NEW sent \in InOrder(legs),
         NEW F, IsFiniteSet(F), Len(SetToSeq(F)) >= Cardinality(legs)
  PROVE  \E m \in [legs -> F] : Assigns(m, legs, sent, SetToSeq(F))
<1>1. PICK c \in Nat : c = Cardinality(legs)
  BY FS_CardinalityType
<1>2. PICK k \in Nat, ids \in [1 .. Cardinality(F) -> F] :
        k = Cardinality(F) /\ ids = SetToSeq(F) /\ \A i, j \in 1 .. k : ids[i] = ids[j] => i = j
  BY SetsHaveRows
<1>3. ids \in [1 .. k -> F]
  BY <1>2
<1>4. Len(ids) = k
  <2>1. ids \in Seq(F)
    BY <1>3
  <2>2. QED
    BY <1>3, <2>1, LenProperties
<1>5. c <= k
  BY <1>1, <1>2, <1>4
<1>6. /\ sent \in [1 .. c -> legs]
      /\ \A i \in legs : \E n \in 1 .. c : sent[n] = i
      /\ \A m, n \in 1 .. c : sent[m] = sent[n] => m = n
  <2>1. sent \in [1 .. Cardinality(legs) -> legs]
    BY OrderedAllOnce
  <2>2. \A i \in legs : \E n \in 1 .. Cardinality(legs) : sent[n] = i
    BY OrderedAllOnce
  <2>3. \A m, n \in 1 .. Cardinality(legs) : sent[m] = sent[n] => m = n
    BY OrderedAllOnce
  <2>4. QED
    BY <1>1, <2>1, <2>2, <2>3
<1>7. PICK at : at = [i \in legs |-> CHOOSE n \in 1 .. c : sent[n] = i]
  OBVIOUS
<1>8. \A i \in legs : at[i] \in 1 .. c /\ sent[at[i]] = i
  BY <1>6, <1>7
<1>9. \A n \in 1 .. c : at[sent[n]] = n
  <2>1. TAKE n \in 1 .. c
  <2>2. sent[n] \in legs
    BY <1>6
  <2>3. at[sent[n]] \in 1 .. c /\ sent[at[sent[n]]] = sent[n]
    BY <1>8, <2>2
  <2>4. QED
    BY <1>6, <2>3
<1>10. \A n \in 1 .. c : n \in 1 .. k
  BY <1>1, <1>2, <1>5
<1>11. PICK m : m = [i \in legs |-> ids[at[i]]]
  OBVIOUS
<1>12. m \in [legs -> F]
  BY <1>3, <1>8, <1>10, <1>11
<1>13. \A n \in 1 .. c : m[sent[n]] = ids[n]
  BY <1>6, <1>9, <1>11
<1>14. \A i, j \in legs : m[i] = m[j] => i = j
  <2>1. SUFFICES ASSUME NEW i \in legs, NEW j \in legs, m[i] = m[j] PROVE i = j
    OBVIOUS
  <2>2. ids[at[i]] = ids[at[j]] /\ at[i] \in 1 .. k /\ at[j] \in 1 .. k
    BY <1>8, <1>10, <1>11, <2>1
  <2>3. at[i] = at[j]
    BY <1>2, <2>2
  <2>4. QED
    BY <1>8, <2>3
<1>15. Assigns(m, legs, sent, SetToSeq(F))
  BY <1>1, <1>2, <1>6, <1>13, <1>14 DEF Assigns
<1>16. QED
  BY <1>12, <1>15

\* A step of a rebalance that tries a batch sends each of its legs once, the sells first.
LEMMA RebalanceTradeKeepsIInv ==
  ASSUME IInv, RebalanceTrade, UNCHANGED now
  PROVE  IInv'
<1>1. /\ strategy = "rebalance" /\ pc = "called" /\ ReadsNothing /\ ~BatchWasRejected
      /\ HostInv /\ CalmInv /\ OnlySends /\ ClaimsInv /\ RebalanceInv /\ RebalanceCalmInv
  BY DEF IInv, RebalanceTrade, RebalanceReads, Called
<1>2. PICK quotes, tried :
        /\ quotes \in [Batch(state) -> Prices \union {NoQuote}]
        /\ tried = Tried(state, quotes) /\ SendsTried(tried)
  BY DEF RebalanceTrade
<1>3. PICK legs : legs = ToSend(tried)
  OBVIOUS
<1>4. /\ legs = {i \in Batch(state) : tried.status[i] = "submitted"}
      /\ tried \in RebalanceState /\ legs \subseteq DOMAIN state.plan
      /\ Len(SetToSeq(FreshLegs({}))) >= Cardinality(legs)
  <2>1. legs = {i \in Batch(state) : tried.status[i] = "submitted"}
    BY <1>3 DEF ToSend
  <2>2. tried \in RebalanceState
    BY <1>1, <1>2, <2>1, TriesAreCounted
  <2>3. legs \subseteq DOMAIN state.plan
    BY <2>1, BatchesWait DEF PendingLegs
  <2>4. Len(SetToSeq(FreshLegs({}))) >= Cardinality(legs)
    BY <1>2, <1>3 DEF SendsTried
  <2>5. QED
    BY <2>1, <2>2, <2>3, <2>4
<1>5. PICK sent, P, F, ids, next, acts, ending :
        /\ sent \in InOrder(legs)
        /\ P = DOMAIN state.plan /\ F = FreshLegs({}) /\ ids = SetToSeq(F)
        /\ next = [tried EXCEPT !.lastBatch = ~(PendingLegs(tried) = {}) /\ legs # {}]
        /\ acts = [n \in DOMAIN sent |-> LegSubmit(tried, sent[n], ids[n])]
        /\ ending = IF PendingLegs(tried) = {} THEN Finished ELSE NotDone
        /\ Return(next, acts, ending)
  BY <1>2, <1>3 DEF SendsTried
<1>6. /\ IsFiniteSet(P) /\ P \subseteq Nat /\ legs \subseteq P
      /\ \A i \in P : state.plan[i] \in PlannedLeg
      /\ state.executed \in [P -> Nat]
      /\ Released = SumFunctionOnSet(state.executed, P) /\ Released \in Nat
  BY <1>1, <1>4, <1>5, PlansAreFinite DEF RebalanceInv
<1>7. /\ tried.plan = state.plan
      /\ tried.status \in [P -> LegStatus]
      /\ tried.attempts \in [P -> 0 .. MAX_LEG_ATTEMPTS]
      /\ tried.executed \in [P -> Nat]
      /\ \A i \in P :
           /\ tried.status[i] = "pending" =>
                tried.executed[i] = 0 /\ tried.attempts[i] < MAX_LEG_ATTEMPTS
           /\ state.plan[i].side = "sell" => tried.executed[i] <= state.plan[i].heldQuantity
           /\ i \notin Batch(state) => tried.status[i] = state.status[i]
           /\ i \notin legs => tried.executed[i] = state.executed[i]
           /\ i \in legs => state.executed[i] = 0 /\ tried.executed[i] > 0
  <2>1. P = DOMAIN state.plan
    BY <1>5
  <2>2. /\ tried.plan = state.plan
        /\ tried.status \in [DOMAIN state.plan -> LegStatus]
        /\ tried.attempts \in [DOMAIN state.plan -> 0 .. MAX_LEG_ATTEMPTS]
        /\ tried.executed \in [DOMAIN state.plan -> Nat]
    BY <1>1, <1>2, <1>4, TriesAreCounted
  <2>3. \A i \in DOMAIN state.plan : CountsOnce(tried, legs, i)
    BY <1>1, <1>2, <1>4, TriesAreCounted
  <2>4. QED
    BY <2>1, <2>2, <2>3 DEF CountsOnce
<1>8. /\ next \in RebalanceState /\ next.plan = state.plan /\ next.status = tried.status
      /\ next.attempts = tried.attempts /\ next.executed = tried.executed
      /\ next.lastBatch <=> PendingLegs(tried) # {} /\ legs # {}
  <2>1. next.lastBatch <=> PendingLegs(tried) # {} /\ legs # {}
    BY <1>4, <1>5 DEF RebalanceState
  <2>2. (PendingLegs(tried) # {} /\ legs # {}) \in BOOLEAN
    OBVIOUS
  <2>3. QED
    BY <1>4, <1>5, <1>7, <2>1, <2>2 DEF RebalanceState
<1>9. F \subseteq Legs /\ IsFiniteSet(F) /\ \A l \in F : intent[l] = "none" /\ order[l] = "absent"
  <2>1. F \subseteq Legs /\ \A l \in F : intent[l] = "none"
    BY <1>5 DEF FreshLegs
  <2>2. \A l \in F : order[l] = "absent"
    BY <1>1, <2>1 DEF HostInv, LegInv
  <2>3. QED
    BY <2>1, <2>2, FS_Subset, StrategyHostAssumption DEF StrategyHostAssumption
<1>10. PICK m \in [legs -> F] :
        /\ DOMAIN sent = 1 .. Cardinality(legs) /\ Cardinality(legs) \in Nat
        /\ \A n \in DOMAIN sent : sent[n] \in legs /\ m[sent[n]] = ids[n]
        /\ \A i \in legs : \E n \in DOMAIN sent : sent[n] = i
        /\ \A i, j \in legs : m[i] = m[j] => i = j
  <2>1. IsFiniteSet(legs) /\ legs \subseteq Nat
    BY <1>6, FS_Subset
  <2>2. Len(SetToSeq(F)) >= Cardinality(legs) /\ sent \in InOrder(legs) /\ ids = SetToSeq(F)
    BY <1>4, <1>5
  <2>3. IsFiniteSet(F)
    BY <1>9
  <2>4. \E m \in [legs -> F] : Assigns(m, legs, sent, SetToSeq(F))
    BY <2>1, <2>2, <2>3, LegsGetIds
  <2>5. QED
    BY <2>2, <2>4 DEF Assigns
<1>11. ASSUME NEW n \in DOMAIN sent
      PROVE  /\ acts[n] \in Orders /\ acts[n].type = "submit" /\ acts[n].leg = m[sent[n]]
             /\ acts[n].request.market /\ acts[n].request.side = state.plan[sent[n]].side
             /\ acts[n].request.size = tried.executed[sent[n]]
  <2>1. PICK i \in legs, l \in Legs : i = sent[n] /\ l = ids[n] /\ l = m[i]
    BY <1>9, <1>10, <1>11
  <2>2. PICK side \in Sides, size \in Nat :
          side = state.plan[i].side /\ size = tried.executed[i] /\ size > 0
    BY <1>6, <1>7 DEF PlannedLeg
  <2>3. acts[n] = Submit(l, Market(side, size))
    BY <1>5, <1>7, <1>11, <2>1, <2>2 DEF LegSubmit
  <2>4. Market(side, size) \in Request /\ Market(side, size).size = size
    BY RequestsAreTyped
  <2>5. Market(side, size).market /\ Market(side, size).side = side
    BY DEF Market
  <2>6. QED
    BY <2>1, <2>2, <2>3, <2>4, <2>5 DEF Submit, Orders, Sendable, Action
<1>12. acts \in Seq(Orders) /\ DOMAIN acts = DOMAIN sent
  <2>1. acts \in [DOMAIN sent -> Orders]
    BY <1>5, <1>11
  <2>2. PICK c \in Nat : DOMAIN sent = 1 .. c
    BY <1>10
  <2>3. acts \in [1 .. c -> Orders]
    BY <2>1, <2>2
  <2>4. QED
    BY <2>1, <2>3
<1>13. ending \in Endings /\ (PendingLegs(tried) = {} => ending # NotDone)
  BY <1>5, EndingsAreKnown DEF Finished, Ending, NotDone
<1>14. /\ Stepped /\ HostInv' /\ CalmInv' /\ OnlySends'
       /\ state' = next /\ actions' = acts /\ done' = ending
       /\ ~Over /\ Due = {} /\ (Calm => row.lastError = lastError)
  BY <1>1, <1>5, <1>12, <1>13, StepIsTaken
<1>15. strategy' = "rebalance" /\ UNCHANGED <<intent, order, request, disturbed>>
  BY <1>1, <1>14, SteppedKeepsOrders
<1>16. RebalanceInv'
  BY <1>5, <1>7, <1>8, <1>14, <1>15 DEF RebalanceInv
<1>17. ClaimsInv'
  <2>1. (strategy = "rebalance")' =>
          (Released = SumFunctionOnSet(state.executed, DOMAIN state.executed))'
    BY ReleasedIs, PTL
  <2>2. Released' = SumFunctionOnSet(tried.executed, P)
    BY <1>7, <1>8, <1>14, <1>15, <2>1
  <2>3. PICK e \in [P -> Nat], f \in [P -> Nat] : e = state.executed /\ f = tried.executed
    BY <1>6, <1>7
  <2>4. SumFunctionOnSet(e, P) + SumFunctionOnSet(f, legs) = SumFunctionOnSet(f, P)
    <3>1. /\ \A i \in P : i \notin legs => f[i] = e[i]
          /\ \A i \in P : i \in legs => e[i] = 0
          /\ legs \in SUBSET P /\ IsFiniteSet(P)
      BY <1>6, <1>7, <2>3
    <3>2. QED
      BY <3>1, SendingAddsUp
  <2>5. IsFiniteSet(legs) /\ m \in [legs -> Legs] /\ \A i \in legs : f[i] \in Nat
    BY <1>6, <1>9, FS_Subset
  <2>6. SumFunctionOnSet(f, P) \in Nat
    <3>1. \A i \in P : f[i] \in Nat
      OBVIOUS
    <3>2. QED
      BY <1>6, <3>1, SumType
  <2>7. \A n \in DOMAIN actions' : \E i \in legs :
          m[i] = actions'[n].leg /\ f[i] = actions'[n].request.size
    BY <1>10, <1>11, <1>12, <1>14, <2>3
  <2>8. /\ Released \in Nat /\ Released' \in Nat
        /\ Released + SumFunctionOnSet(f, legs) <= Released'
    BY <1>6, <2>2, <2>3, <2>4, <2>6
  <2>9. QED
    BY <1>1, <1>14, <2>5, <2>7, <2>8, StepKeepsClaims
<1>18. ASSUME disturbed = {} PROVE RebalanceCalmInv'
  <2>1. PICK id \in [P -> Legs] : Belongs(id)
    BY <1>1, <1>5, <1>18 DEF RebalanceCalmInv
  <2>2. row.lastError = lastError
    BY <1>14, <1>18 DEF Calm
  <2>3. \A i \in P : Sends(i) => intent[id[i]] = "submitted"
    BY <1>1, <1>5, <1>14, <2>1, <2>2, LegsAreAccepted
  <2>4. PICK new : new = [i \in P |-> IF i \in legs THEN m[i] ELSE id[i]]
    OBVIOUS
  <2>5. new \in [P -> Legs]
    BY <1>6, <1>9, <2>1, <2>4
  <2>6. \A i \in P : /\ i \in legs => ~Sends(i) /\ new[i] = m[i] /\ new[i] \in F
                     /\ Sends(i)' <=> Sends(i) \/ i \in legs
                     /\ i \notin legs => new[i] = id[i]
                     /\ Sends(i) => i \notin Batch(state)
    <3>1. \A i \in Batch(state) : i \in PendingLegs(state)
      BY BatchesWait
    <3>2. \A i \in Batch(state) : ~Sends(i)
      BY <3>1 DEF PendingLegs, Sends
    <3>3. \A i \in P : Sends(i)' <=> tried.status[i] = "submitted"
      BY <1>8, <1>14 DEF Sends
    <3>4. QED
      BY <1>4, <1>6, <1>7, <1>9, <2>4, <3>2, <3>3 DEF Sends
  <2>7. ASSUME NEW i \in P, NEW j \in P, Sends(i)', Sends(j)', new[i] = new[j] PROVE i = j
    <3>1. CASE i \in legs /\ j \in legs
      BY <1>10, <2>6, <2>7, <3>1
    <3>2. CASE i \notin legs /\ j \notin legs
      BY <1>5, <2>1, <2>6, <2>7, <3>2 DEF Belongs
    <3>3. CASE (i \in legs) # (j \in legs)
      BY <1>9, <2>3, <2>6, <2>7, <3>3
    <3>4. QED
      BY <3>1, <3>2, <3>3
  <2>8. ASSUME NEW l \in Legs, SentOrDue(l)' PROVE \E i \in P : Sends(i)' /\ new[i] = l
    <3>1. CASE order[l] # "absent"
      <4>1. PICK i \in P : Sends(i) /\ id[i] = l
        BY <1>5, <2>1, <3>1 DEF Belongs, SentOrDue
      <4>2. QED
        BY <2>6, <4>1
    <3>2. CASE l \in Due'
      <4>1. PICK n \in DOMAIN acts : acts[n].leg = l
        BY <1>14, <3>2 DEF Due
      <4>2. PICK i \in legs : i = sent[n] /\ l = m[i]
        BY <1>10, <1>11, <1>12, <4>1
      <4>3. QED
        BY <1>6, <2>6, <4>2
    <3>3. QED
      BY <1>15, <2>8, <3>1, <3>2 DEF SentOrDue
  <2>9. ASSUME NEW i \in P, Sends(i)'
        PROVE  /\ Answered(new[i])' /\ (next.lastBatch \/ Settled(new[i])')
               /\ order'[new[i]] # "absent" =>
                    request'[new[i]].market /\ request'[new[i]].side = state.plan[i].side
               /\ \A n \in DOMAIN acts : acts[n].leg = new[i] =>
                    acts[n].request.market /\ acts[n].request.side = state.plan[i].side
    <3>1. CASE i \notin legs
      <4>1. Sends(i) /\ new[i] = id[i] /\ intent'[new[i]] = "submitted"
        BY <1>15, <2>3, <2>6, <2>9, <3>1
      <4>2. Answered(new[i])' /\ Settled(new[i])'
        BY <4>1 DEF Answered, Settled
      <4>3. \A n \in DOMAIN acts : acts[n].leg # new[i]
        BY <1>9, <1>10, <1>11, <1>12, <1>15, <4>1
      <4>4. order[id[i]] # "absent" =>
              request[id[i]].market /\ request[id[i]].side = state.plan[i].side
        BY <1>5, <2>1, <4>1 DEF Belongs
      <4>5. QED
        BY <1>15, <4>1, <4>2, <4>3, <4>4
    <3>2. CASE i \in legs
      <4>1. new[i] = m[i] /\ new[i] \in F /\ new[i] \in Legs /\ order'[new[i]] = "absent"
        BY <1>9, <1>15, <2>6, <3>2
      <4>2. PICK n \in DOMAIN sent : sent[n] = i
        BY <1>10, <3>2
      <4>3. new[i] \in Due'
        BY <1>11, <1>12, <1>14, <4>1, <4>2 DEF Due
      <4>4. Answered(new[i])'
        BY <4>3 DEF Answered
      <4>5. next.lastBatch \/ Settled(new[i])'
        <5>1. CASE PendingLegs(tried) = {}
          BY <1>13, <1>14, <5>1 DEF Settled, Over
        <5>2. QED
          BY <1>8, <3>2, <5>1
      <4>6. ASSUME NEW k \in DOMAIN acts, acts[k].leg = new[i]
            PROVE  acts[k].request.market /\ acts[k].request.side = state.plan[i].side
        <5>1. k \in DOMAIN sent /\ sent[k] \in legs /\ m[sent[k]] = m[i]
          BY <1>10, <1>11, <1>12, <4>1, <4>6
        <5>2. sent[k] = i
          BY <1>10, <3>2, <5>1
        <5>3. QED
          BY <1>11, <5>1, <5>2
      <4>7. QED
        BY <4>1, <4>4, <4>5, <4>6
    <3>3. QED
      BY <3>1, <3>2
  <2>10. ASSUME NEW j \in P, Sends(j)', state.plan[j].side = "buy",
                NEW i \in P, state.plan[i].side = "sell"
         PROVE  tried.status[i] # "pending" /\ (Sends(i)' => intent'[new[i]] = "submitted")
    <3>1. i \notin PendingLegs(state)
      <4>1. CASE j \in legs
        <5>1. j \in Batch(state) /\ state.plan[j].side # "sell"
          BY <1>4, <2>10, <4>1
        <5>2. \A k \in PendingLegs(state) : state.plan[k].side # "sell"
          BY <5>1, BatchesWait
        <5>3. QED
          BY <2>10, <5>2
      <4>2. CASE j \notin legs
        <5>1. Sends(j)
          BY <2>6, <2>10, <4>2
        <5>2. state.status[i] # "pending"
          BY <1>5, <2>1, <2>10, <5>1 DEF Belongs
        <5>3. QED
          BY <5>2 DEF PendingLegs
      <4>3. QED
        BY <4>1, <4>2
    <3>2. i \notin Batch(state)
      BY <3>1, BatchesWait
    <3>3. i \notin legs /\ tried.status[i] = state.status[i] /\ state.status[i] # "pending"
      BY <1>4, <1>5, <1>7, <3>1, <3>2 DEF PendingLegs
    <3>4. Sends(i)' => intent'[new[i]] = "submitted"
      BY <1>15, <2>3, <2>6, <3>3
    <3>5. QED
      BY <3>3, <3>4
  <2>11. Belongs(new)'
    BY <1>5, <1>8, <1>14, <2>7, <2>8, <2>9, <2>10 DEF Belongs
  <2>12. QED
    BY <1>5, <1>8, <1>14, <2>5, <2>11 DEF RebalanceCalmInv
<1>19. RebalanceCalmInv'
  BY <1>15, <1>18 DEF RebalanceCalmInv
<1>20. QED
  BY <1>1, <1>14, <1>16, <1>17, <1>19, RebalanceKeepsRest

\* A rebalance keeps the invariant.
LEMMA RebalanceKeepsIInv ==
  ASSUME IInv, RebalanceAdvance, UNCHANGED now
  PROVE  IInv'
<1>1. /\ Ending("failed", TRUE) \in Endings /\ Ending("completed", TRUE) \in Endings
      /\ Ending("failed", TRUE) # NotDone /\ Ending("completed", TRUE) # NotDone
  BY EndingsAreKnown DEF Ending, NotDone
<1>2. CASE RebalanceRejected
  BY <1>1, <1>2, RebalanceEndKeepsIInv DEF RebalanceRejected, Called
<1>3. CASE RebalanceFinish
  BY <1>1, <1>3, RebalanceEndKeepsIInv DEF RebalanceFinish, Finished, Called
<1>4. CASE RebalanceTrade
  BY <1>4, RebalanceTradeKeepsIInv
<1>5. QED
  BY <1>2, <1>3, <1>4 DEF RebalanceAdvance
-----------------------------------------------------------------------------
(***************************************************************************)
(* The invariant of the jobs, and what it says of them.                    *)
(***************************************************************************)

\* The ids of a ladder are as many as it has rungs.
LEMMA LadderHasIds ==
  ASSUME NEW ids, ids = SubSeq(SetToSeq(Legs), 1, Rungs)
  PROVE  ids \in [1 .. Rungs -> Legs] /\ \A i, j \in 1 .. Rungs : ids[i] = ids[j] => i = j
<1>1. PICK k \in Nat, row1 \in [1 .. Cardinality(Legs) -> Legs] :
        /\ k = Cardinality(Legs) /\ row1 = SetToSeq(Legs)
        /\ \A i, j \in 1 .. k : row1[i] = row1[j] => i = j
  BY SetsHaveRows, StrategyHostAssumption DEF StrategyHostAssumption
<1>2. Rungs \in Nat /\ 1 <= Rungs /\ Rungs <= k
  BY <1>1, LadderAssumption DEF LadderAssumption
<1>3. row1 \in Seq(Legs) /\ row1 \in [1 .. k -> Legs] /\ Len(row1) = k
  <2>1. row1 \in [1 .. k -> Legs]
    BY <1>1
  <2>2. row1 \in Seq(Legs)
    BY <2>1
  <2>3. QED
    BY <2>1, <2>2, LenProperties
<1>4. /\ ids \in Seq(Legs) /\ Len(ids) = Rungs
      /\ \A i \in 1 .. Rungs : ids[i] = row1[i]
  <2>1. ASSUME NEW i \in 1 .. Rungs PROVE row1[i] \in Legs
    <3>1. i \in 1 .. k
      BY <1>1, <1>2
    <3>2. QED
      BY <1>3, <3>1
  <2>2. /\ SubSeq(row1, 1, Rungs) \in Seq(Legs)
        /\ Len(SubSeq(row1, 1, Rungs)) = IF 1 <= Rungs THEN Rungs - 1 + 1 ELSE 0
        /\ \A i \in 1 .. Rungs - 1 + 1 : SubSeq(row1, 1, Rungs)[i] = row1[1 + i - 1]
    <3>1. 1 \in Int /\ Rungs \in Int
      BY <1>2
    <3>2. QED
      BY <2>1, <3>1, SubSeqProperties
  <2>3. Rungs - 1 + 1 = Rungs /\ \A i \in 1 .. Rungs : 1 + i - 1 = i
    BY <1>2
  <2>4. ids = SubSeq(row1, 1, Rungs)
    BY <1>1
  <2>5. QED
    BY <1>2, <2>2, <2>3, <2>4
<1>5. ids \in [1 .. Rungs -> Legs]
  BY <1>4, LenProperties
<1>6. \A i \in 1 .. Rungs : i \in 1 .. k
  BY <1>1, <1>2
<1>7. QED
  BY <1>1, <1>4, <1>5, <1>6

\* Every strategy begins in one of its states, with nothing released.
LEMMA StatesBegin ==
  ASSUME Init
  PROVE  /\ TwapInv /\ DcaInv /\ AccumulateInv /\ LadderInv /\ RebalanceInv /\ SignalInv
         /\ strategy = "ladder" => state.placed = 0
         /\ strategy = "rebalance" => \A i \in DOMAIN state.plan : state.status[i] = "pending"
         /\ strategy \in Signals => state.phase = "watching"
<1>1. /\ \A l \in Legs : order[l] = "absent"
      /\ actions = <<>> /\ DOMAIN actions = {}
  BY DEF Init, HostInit
<1>2. <<>> \in Windows
  <2>1. PICK w : w = <<>>
    OBVIOUS
  <2>2. w \in Seq(Quotes) /\ Len(w) = 0
    BY <2>1
  <2>3. LookbackTicks \in Nat
    BY SamplesAssumption DEF SamplesAssumption
  <2>4. Len(w) <= LookbackTicks
    BY <2>2, <2>3
  <2>5. w \in Windows
    BY <2>2, <2>4, WindowsAreShort
  <2>6. QED
    BY <2>1, <2>5
<1>3. CASE strategy = "twap"
  <2>1. PICK total \in TwapTotals, limited \in BOOLEAN :
          state = [total |-> total, limited |-> limited, slicesDone |-> 0, filledQuantity |-> 0]
    BY <1>3 DEF Init, TwapInit
  <2>2. 0 % Increment = 0
    BY SizesAssumption DEF SizesAssumption
  <2>3. TwapInv
    BY <2>1, <2>2, TwapAssumption DEF TwapInv, TwapState, TwapAssumption
  <2>4. QED
    BY <1>3, <2>3 DEF DcaInv, AccumulateInv, LadderInv, RebalanceInv, SignalInv, Signals
<1>4. CASE strategy = "dca"
  <2>1. PICK quoted, capped, sized \in BOOLEAN :
          state = [quoted |-> quoted, capped |-> capped, sized |-> sized, occurrencesDone |-> 0]
    BY <1>4 DEF Init, DcaInit
  <2>2. DcaInv
    BY <2>1, DcaAssumption DEF DcaInv, DcaState, DcaAssumption
  <2>3. QED
    BY <1>4, <2>2 DEF TwapInv, AccumulateInv, LadderInv, RebalanceInv, SignalInv, Signals
<1>5. CASE strategy = "accumulate"
  <2>1. PICK target \in TargetQuantities, minimum \in SliceMinimums :
          state = [target |-> target, minOrderSize |-> minimum, prices |-> <<>>,
                   acquiredQuantity |-> 0]
    BY <1>5 DEF Init, AccumulateInit
  <2>2. target \in Nat
    BY AccumulateAssumption DEF AccumulateAssumption
  <2>3. AccumulateInv
    BY <1>2, <2>1, <2>2 DEF AccumulateInv, AccumulateState
  <2>4. QED
    BY <1>5, <2>3 DEF TwapInv, DcaInv, LadderInv, RebalanceInv, SignalInv, Signals
<1>6. CASE strategy = "ladder"
  <2>1. PICK d \in Distributions :
          /\ \A i \in 1 .. Rungs : BuildRungs(d)[i] > 0
          /\ state = [distribution |-> d, ids |-> SubSeq(SetToSeq(Legs), 1, Rungs), placed |-> 0,
                      batch |-> FALSE]
    BY <1>6 DEF Init, LadderInit
  <2>2. PICK ids : ids = SubSeq(SetToSeq(Legs), 1, Rungs)
    OBVIOUS
  <2>3. ids \in [1 .. Rungs -> Legs] /\ \A i, j \in 1 .. Rungs : ids[i] = ids[j] => i = j
    BY <2>2, LadderHasIds
  <2>4. state = [distribution |-> d, ids |-> ids, placed |-> 0, batch |-> FALSE]
    BY <2>1, <2>2
  <2>5. state \in LadderState /\ state.distribution = d /\ state.ids = ids /\ state.placed = 0
    BY <2>3, <2>4, LadderAssumption DEF LadderState, LadderAssumption
  <2>6. LadderInv
    BY <1>1, <2>1, <2>3, <2>5 DEF LadderInv
  <2>7. QED
    BY <1>6, <2>5, <2>6 DEF TwapInv, DcaInv, AccumulateInv, RebalanceInv, SignalInv, Signals
<1>7. CASE strategy = "rebalance"
  <2>1. PICK plan \in Plans, perTick \in MaxLegsPerTick, dryRun \in BOOLEAN :
          state = [plan |-> plan, perTick |-> perTick, dryRun |-> dryRun,
                   status |-> [i \in DOMAIN plan |-> "pending"],
                   attempts |-> [i \in DOMAIN plan |-> 0],
                   executed |-> [i \in DOMAIN plan |-> 0], lastBatch |-> FALSE]
    BY <1>7 DEF Init, RebalanceInit
  <2>2. PICK P, st, at, ex :
          /\ P = DOMAIN plan /\ st = [i \in P |-> "pending"]
          /\ at = [i \in P |-> 0] /\ ex = [i \in P |-> 0]
    OBVIOUS
  <2>3. PICK n, T : n \in Nat /\ P = 1 .. n /\ T = 0 .. MAX_LEG_ATTEMPTS /\ 0 \in T
    BY <2>2, PlansAssumption, RebalanceAssumption DEF PlansAssumption, RebalanceAssumption
  <2>4. st \in [1 .. n -> LegStatus] /\ at \in [1 .. n -> T] /\ ex \in [1 .. n -> Nat]
    BY <2>2, <2>3 DEF LegStatus
  <2>5. st \in Seq(LegStatus) /\ at \in Seq(T) /\ ex \in Seq(Nat)
    <3>1. st \in Seq(LegStatus)
      BY <2>3, <2>4
    <3>2. at \in Seq(T)
      <4>1. n \in Nat
        BY <2>3
      <4>2. at \in [1 .. n -> T]
        BY <2>4
      <4>3. QED
        BY <4>1, <4>2
    <3>3. ex \in Seq(Nat)
      BY <2>3, <2>4
    <3>4. QED
      BY <3>1, <3>2, <3>3
  <2>6. /\ state \in RebalanceState /\ state.plan = plan
        /\ state.status = st /\ state.attempts = at /\ state.executed = ex
    BY <2>1, <2>2, <2>3, <2>5 DEF RebalanceState
  <2>7. \A i \in P : plan[i] \in PlannedLeg
    BY <2>2, PlansAssumption DEF PlansAssumption
  <2>8. \A i \in P : plan[i].heldQuantity >= 0 /\ ex[i] <= plan[i].heldQuantity
    BY <2>2, <2>7 DEF PlannedLeg
  <2>9. 0 < MAX_LEG_ATTEMPTS
    BY RebalanceAssumption DEF RebalanceAssumption
  <2>10. RebalanceInv
    BY <2>2, <2>3, <2>4, <2>6, <2>8, <2>9, ZenonT(40) DEF RebalanceInv
  <2>11. \A i \in DOMAIN state.plan : state.status[i] = "pending"
    BY <2>2, <2>6
  <2>12. QED
    BY <1>7, <2>10, <2>11
    DEF TwapInv, DcaInv, AccumulateInv, LadderInv, SignalInv, Signals
<1>8. CASE strategy = "momentum"
  <2>1. PICK side \in Sides :
          state = [side |-> side, phase |-> "watching", prices |-> <<>>, peak |-> 0,
                   fresh |-> TRUE]
    BY <1>8 DEF Init, MomentumInit
  <2>2. state \in MomentumState /\ state.phase = "watching" /\ state.fresh
    BY <1>2, <2>1 DEF MomentumState, Phases
  <2>3. QED
    BY <1>8, <2>2
    DEF TwapInv, DcaInv, AccumulateInv, LadderInv, RebalanceInv, SignalInv, Signals
<1>9. CASE strategy = "mean_reversion"
  <2>1. PICK sides \in SUBSET Sides \ {{}} :
          state = [sides |-> sides, side |-> "none", phase |-> "watching", prices |-> <<>>,
                   fresh |-> TRUE]
    BY <1>9 DEF Init, MeanReversionInit
  <2>2. state \in MeanReversionState /\ state.phase = "watching" /\ state.fresh
    BY <1>2, <2>1 DEF MeanReversionState, Phases
  <2>3. QED
    BY <1>9, <2>2
    DEF TwapInv, DcaInv, AccumulateInv, LadderInv, RebalanceInv, SignalInv, Signals
<1>10. strategy \in {"twap", "dca", "accumulate", "ladder", "rebalance", "momentum",
                     "mean_reversion"}
  BY TakersAssumption DEF Init, TakersAssumption
<1>11. QED
  BY <1>3, <1>4, <1>5, <1>6, <1>7, <1>8, <1>9, <1>10

\* What the state has released is a number, whatever the strategy.
LEMMA ReleasedIsNatural ==
  ASSUME strategy \in Strategies,
         TwapInv, DcaInv, AccumulateInv, LadderInv, RebalanceInv, SignalInv
  PROVE  Released \in Nat
<1>1. CASE strategy = "twap"
  BY <1>1, ReleasedIs DEF TwapInv, TwapState
<1>2. CASE strategy = "dca"
  BY <1>2, ReleasedIs, DcaAssumption DEF DcaInv, DcaState, DcaAssumption
<1>3. CASE strategy = "accumulate"
  BY <1>3, ReleasedIs DEF AccumulateInv, AccumulateState
<1>4. CASE strategy = "ladder"
  <2>1. PICK d \in Distributions, n \in 0 .. Rungs : d = state.distribution /\ n = state.placed
    BY <1>4 DEF LadderInv, LadderState
  <2>2. \A i \in 1 .. Rungs : BuildRungs(d)[i] > 0
    BY <1>4, <2>1 DEF LadderInv
  <2>3. n \in n .. Rungs
    BY LadderAssumption DEF LadderAssumption
  <2>4. SumFunctionOnSet(BuildRungs(d), 1 .. n) \in Nat
    BY <2>2, <2>3, RungsSplit
  <2>5. QED
    BY <1>4, <2>1, <2>4, ReleasedIs
<1>5. CASE strategy = "rebalance"
  BY <1>5, PlansAreFinite
<1>6. CASE strategy \in Signals
  <2>1. state.phase \in Phases
    BY <1>6 DEF SignalInv, Signals, MomentumState, MeanReversionState
  <2>2. PositionSize \in Nat
    BY PositionAssumption DEF PositionAssumption
  <2>3. QED
    BY <1>6, <2>1, <2>2, ReleasedIs DEF Phases
<1>7. QED
  BY <1>1, <1>2, <1>3, <1>4, <1>5, <1>6, TakersAssumption DEF TakersAssumption, Signals

\* Every job begins in the invariant.
LEMMA TakersBegin == Init => IInv
<1> SUFFICES ASSUME Init PROVE IInv
  OBVIOUS
<1>1. strategy \in Strategies /\ HostInit /\ now = 0
  BY DEF Init
<1>2. HostInv /\ CalmInv
  BY <1>1, HostBegins, CalmBegins
<1>3. /\ Due = {} /\ actions = <<>> /\ DOMAIN actions = {} /\ OnlySends /\ ~Finishes
      /\ \A l \in Legs : Exposure(l) = 0 /\ ~SentOrDue(l)
  BY <1>1
  DEF HostInit, Due, Cancelled, OnlySends, Finishes, NotDone, Exposure, InTheBook, SentOrDue
<1>4. now \in 0 .. Duration
  BY <1>1, ClockAssumption DEF ClockAssumption
<1>5. /\ TwapInv /\ DcaInv /\ AccumulateInv /\ LadderInv /\ RebalanceInv /\ SignalInv
      /\ strategy = "ladder" => state.placed = 0
      /\ strategy = "rebalance" => \A i \in DOMAIN state.plan : state.status[i] = "pending"
      /\ strategy \in Signals => state.phase = "watching"
  BY StatesBegin
<1>6. ClaimsInv
  <2>1. PICK claim \in [Legs -> Nat] : claim = [l \in Legs |-> 0]
    OBVIOUS
  <2>2. IsFiniteSet(Legs)
    BY StrategyHostAssumption DEF StrategyHostAssumption
  <2>3. SumFunctionOnSet(claim, Legs) = 0
    <3>1. \A l \in Legs : claim[l] \in 0 .. 0
      BY <2>1
    <3>2. SumFunctionOnSet(claim, Legs) <= Cardinality(Legs) * 0
      BY <2>2, <3>1, SumBound
    <3>3. \A l \in Legs : claim[l] \in Nat
      OBVIOUS
    <3>4. SumFunctionOnSet(claim, Legs) \in Nat /\ Cardinality(Legs) \in Nat
      BY <2>2, <3>3, SumType, FS_CardinalityType
    <3>5. QED
      BY <3>2, <3>4
  <2>4. Released \in Nat
    BY <1>1, <1>5, ReleasedIsNatural
  <2>5. Covers(claim)
    BY <1>3, <2>1, <2>3, <2>4 DEF Covers
  <2>6. QED
    BY <2>5 DEF ClaimsInv
<1>7. EndsInv
  BY <1>3 DEF EndsInv
<1>8. LadderCalmInv
  BY <1>3, <1>5 DEF LadderCalmInv
<1>9. PositionCalmInv
  BY <1>3, <1>5 DEF PositionCalmInv
<1>10. RebalanceCalmInv
  <2>1. SUFFICES ASSUME strategy = "rebalance"
                 PROVE  \E id \in [DOMAIN state.plan -> Legs] : Belongs(id)
    BY DEF RebalanceCalmInv
  <2>2. \A i \in DOMAIN state.plan : ~Sends(i)
    BY <1>5, <2>1 DEF Sends
  <2>3. \A id : Belongs(id)
    BY <1>3, <2>2 DEF Belongs
  <2>4. PICK l : l \in Legs
    <3>1. Legs # {}
      BY LadderAssumption, FS_EmptySet DEF LadderAssumption
    <3>2. QED
      BY <3>1
  <2>5. [i \in DOMAIN state.plan |-> l] \in [DOMAIN state.plan -> Legs]
    BY <2>4
  <2>6. QED
    BY <2>3, <2>5
<1>11. QED
  BY <1>2, <1>3, <1>4, <1>5, <1>6, <1>7, <1>8, <1>9, <1>10 DEF IInv

\* Every step keeps it.
LEMMA TakersKeep == IInv /\ [Next]_takerVars => IInv'
<1>1. SUFFICES ASSUME IInv, [Next]_takerVars PROVE IInv'
  OBVIOUS
<1>2. CASE HostNext /\ UNCHANGED now
  BY <1>1, <1>2, HostKeepsIInv
<1>3. CASE Advance /\ UNCHANGED now
  <2>1. CASE AdvanceThrows
    <3>1. FailJob
      BY <2>1 DEF AdvanceThrows
    <3>2. QED
      BY <1>1, <1>3, <3>1, HostKeepsIInv
  <2>2. QED
    BY <1>1, <1>3, <2>1, TwapKeepsIInv, DcaKeepsIInv, AccumulateKeepsIInv, LadderKeepsIInv,
       RebalanceKeepsIInv, MomentumKeepsIInv, MeanReversionKeepsIInv
    DEF Advance
<1>4. CASE TimePasses
  BY <1>1, <1>4, TimeKeepsIInv DEF TimePasses
<1>5. CASE UNCHANGED takerVars
  BY <1>1, <1>5, TimeKeepsIInv DEF takerVars
<1>6. QED
  BY <1>1, <1>2, <1>3, <1>4, <1>5 DEF Next

\* The invariant of these jobs holds through every fault, crash and halt.
THEOREM TakersInvariant == Spec => []IInv
BY TakersBegin, TakersKeep, PTL DEF Spec

\* The variables have their types.
THEOREM TakersTypes == Spec => []TypeInv
<1>1. ASSUME IInv PROVE TypeInv
  <2>1. HostInv /\ HostTypes /\ \A l \in Legs : LegInv(l)
    BY <1>1 DEF IInv, HostInv
  <2>8. strategy \in {"twap", "dca", "accumulate", "ladder", "rebalance", "momentum",
                      "mean_reversion"}
    BY <2>1, TakersAssumption DEF HostTypes, TakersAssumption
  <2>9. (CASE strategy = "twap"           -> state \in TwapState
           [] strategy = "dca"            -> state \in DcaState
           [] strategy = "accumulate"     -> state \in AccumulateState
           [] strategy = "ladder"         -> state \in LadderState
           [] strategy = "rebalance"      -> state \in RebalanceState
           [] strategy = "momentum"       -> state \in MomentumState
           [] strategy = "mean_reversion" -> state \in MeanReversionState)
    <3>1. /\ strategy = "twap" => state \in TwapState
          /\ strategy = "dca" => state \in DcaState
          /\ strategy = "accumulate" => state \in AccumulateState
          /\ strategy = "ladder" => state \in LadderState
          /\ strategy = "rebalance" => state \in RebalanceState
          /\ strategy = "momentum" => state \in MomentumState
          /\ strategy = "mean_reversion" => state \in MeanReversionState
      BY <1>1 DEF IInv, TwapInv, DcaInv, AccumulateInv, LadderInv, RebalanceInv, SignalInv
    <3>2. QED
      BY <2>8, <3>1
  <2>10. actions \in Seq(Action)
    <3>1. actions \in Seq(Sendable) /\ Sendable \subseteq Action
      BY <2>1 DEF HostTypes, Sendable
    <3>2. QED
      BY <3>1
  <2>11. done \in [status : {"none", "completed", "failed"}, reason : BOOLEAN]
    <3>1. CASE done = NotDone
      BY <3>1 DEF NotDone
    <3>2. CASE done \in [status : {"completed", "failed"}, reason : BOOLEAN]
      BY <3>2
    <3>3. QED
      BY <2>1, <3>1, <3>2 DEF HostTypes, Endings
  <2>12. cancelSent = {} /\ now \in 0 .. Duration
    BY <1>1 DEF IInv, OnlySends
  <2>13. \A l \in Legs : intent[l] = "submitted" => order[l] \in Accepted
    BY <2>1 DEF LegInv
  <2>14. QED
    BY <2>1, <2>9, <2>10, <2>11, <2>12, <2>13 DEF HostTypes, TypeInv
<1>2. QED
  BY <1>1, TakersInvariant, PTL

\* What the state has released is within what was asked for.
LEMMA ReleasedWithinAsked ==
  ASSUME IInv
  PROVE  Released <= Asked
<1>1. /\ TwapInv /\ DcaInv /\ AccumulateInv /\ LadderInv /\ RebalanceInv /\ SignalInv
      /\ strategy \in Strategies
  BY DEF IInv, HostInv, HostTypes
<1>2. Released \in Nat
  BY <1>1, ReleasedIsNatural
<1>3. CASE strategy = "twap"
  BY <1>1, <1>3, ReleasedIs DEF TwapInv, Asked
<1>4. CASE strategy = "dca"
  BY <1>1, <1>4, ReleasedIs, DcaAssumption DEF DcaInv, DcaState, DcaAssumption, Asked
<1>5. CASE strategy = "accumulate"
  BY <1>1, <1>5, ReleasedIs DEF AccumulateInv, Asked
<1>6. CASE strategy = "ladder"
  <2>1. PICK d \in Distributions, n \in 0 .. Rungs : d = state.distribution /\ n = state.placed
    BY <1>1, <1>6 DEF LadderInv, LadderState
  <2>2. \A i \in 1 .. Rungs : BuildRungs(d)[i] > 0
    BY <1>1, <1>6, <2>1 DEF LadderInv
  <2>3. Rungs \in Nat
    BY LadderAssumption DEF LadderAssumption
  <2>4. PICK k \in n .. Rungs : k = Rungs
    BY <2>3
  <2>5. PICK D : D = (n + 1) .. k
    OBVIOUS
  <2>6. /\ SumFunctionOnSet(BuildRungs(d), 1 .. n) \in Nat
        /\ SumFunctionOnSet(BuildRungs(d), D) \in Nat
        /\ SumFunctionOnSet(BuildRungs(d), 1 .. n) + SumFunctionOnSet(BuildRungs(d), D)
             = SumFunctionOnSet(BuildRungs(d), 1 .. k)
    BY <2>2, <2>5, RungsSplit
  <2>7. SumFunctionOnSet(BuildRungs(d), 1 .. Rungs) = LadderTotal
    BY <2>2, RungsAddUp
  <2>8. Released = SumFunctionOnSet(BuildRungs(d), 1 .. n)
    BY <1>6, <2>1, ReleasedIs
  <2>9. Asked = LadderTotal
    BY <1>6 DEF Asked
  <2>10. QED
    BY <2>4, <2>6, <2>7, <2>8, <2>9
<1>7. CASE strategy \notin {"twap", "dca", "accumulate", "ladder"}
  BY <1>2, <1>7 DEF Asked
<1>8. QED
  BY <1>3, <1>4, <1>5, <1>6, <1>7

\* What the orders of a job have traded and may still trade is within what its state has
\* released.
LEMMA ExposedWithinReleased ==
  ASSUME IInv
  PROVE  /\ Exposed(Legs) <= Released
         /\ Exposed(Legs) \in Nat /\ Released \in Nat
<1>1. HostInv /\ ClaimsInv
  BY DEF IInv
<1>2. PICK claim \in [Legs -> Nat] : Covers(claim)
  BY <1>1 DEF ClaimsInv
<1>3. PICK e \in [Legs -> Nat] : e = [l \in Legs |-> Exposure(l)]
  <2>1. \A l \in Legs : Exposure(l) \in Nat
    BY <1>1, SumsAreTyped
  <2>2. QED
    BY <2>1
<1>4. \A l \in Legs : e[l] \in Nat /\ claim[l] \in Nat /\ e[l] <= claim[l]
  BY <1>2, <1>3 DEF Covers
<1>5. IsFiniteSet(Legs)
  BY StrategyHostAssumption DEF StrategyHostAssumption
<1>6. SumFunctionOnSet(e, Legs) <= SumFunctionOnSet(claim, Legs)
  BY <1>4, <1>5, SumMonotone
<1>7. SumFunctionOnSet(e, Legs) \in Nat
  BY <1>4, <1>5, SumType
<1>8. SumFunctionOnSet(claim, Legs) \in Nat
  BY <1>4, <1>5, SumType
<1>9. Released \in Nat
  BY ReleasedIsNatural DEF IInv, HostInv, HostTypes
<1>10. Exposed(Legs) = SumFunctionOnSet(e, Legs)
  BY <1>3 DEF Exposed
<1>11. SumFunctionOnSet(claim, Legs) <= Released
  BY <1>2 DEF Covers
<1>12. QED
  BY <1>6, <1>7, <1>8, <1>9, <1>10, <1>11

\* Through every fault, restart and halt, what the orders of a job have traded and may
\* still trade is within what its persisted state has released, and that within what was
\* asked for; a rebalance sells no more of a coin than was held.
THEOREM NothingGoesOutTwice == Spec => []NeverMoreThanReleased
<1>1. ASSUME IInv PROVE NeverMoreThanReleased
  <2>1. Exposed(Legs) <= Released /\ Released <= Asked
    BY <1>1, ExposedWithinReleased, ReleasedWithinAsked
  <2>2. strategy = "rebalance" =>
          \A i \in DOMAIN state.plan :
            state.plan[i].side = "sell" => state.executed[i] <= state.plan[i].heldQuantity
    BY <1>1 DEF IInv, RebalanceInv
  <2>3. QED
    BY <2>1, <2>2 DEF NeverMoreThanReleased
<1>2. QED
  BY <1>1, TakersInvariant, PTL

\* A schedule that completes without a reason has released all it was asked for.
THEOREM CompletedIsReleased == Spec => []CompletesInFull
<1>1. ASSUME IInv PROVE CompletesInFull
  <2>1. SUFFICES ASSUME status = "completed", ~lastError
                 PROVE  CASE strategy = "twap" -> Released = RoundDown(state.total)
                          [] strategy \in {"dca", "accumulate", "ladder"} -> Released = Asked
                          [] OTHER -> TRUE
    BY DEF CompletesInFull
  <2>2. Whole
    BY <1>1, <2>1 DEF IInv, EndsInv, Finishes
  <2>3. CASE strategy = "twap"
    BY <2>2, <2>3, ReleasedIs DEF Whole
  <2>4. CASE strategy = "dca"
    BY <2>2, <2>4, ReleasedIs DEF Whole, Asked
  <2>5. CASE strategy = "accumulate"
    BY <2>2, <2>5, ReleasedIs DEF Whole, Asked
  <2>6. CASE strategy = "ladder"
    <3>1. PICK d \in Distributions : d = state.distribution
      BY <1>1, <2>6 DEF IInv, LadderInv, LadderState
    <3>2. \A i \in 1 .. Rungs : BuildRungs(d)[i] > 0
      BY <1>1, <2>6, <3>1 DEF IInv, LadderInv
    <3>3. SumFunctionOnSet(BuildRungs(d), 1 .. Rungs) = LadderTotal
      BY <3>2, RungsAddUp
    <3>4. state.placed = Rungs /\ Asked = LadderTotal
      BY <2>2, <2>6 DEF Whole, Asked
    <3>5. Released = Asked
      BY <2>6, <3>1, <3>3, <3>4, ReleasedIs
    <3>6. QED
      BY <2>6, <3>5
  <2>7. CASE strategy \notin {"twap", "dca", "accumulate", "ladder"}
    BY <2>7
  <2>8. QED
    BY <2>3, <2>4, <2>5, <2>6, <2>7
<1>2. QED
  BY <1>1, TakersInvariant, PTL

\* A position that nothing disturbed is closed, before the deadline, only if it has been
\* opened.
THEOREM ClosedWasOpened == Spec => []PositionIsReal
<1>1. ASSUME IInv PROVE PositionIsReal
  <2>1. SUFFICES ASSUME strategy \in Signals, disturbed = {}, ~Expired, HasExited
                 PROVE  HasEntered
    BY DEF PositionIsReal
  <2>2. PositionCalmInv /\ SignalInv
    BY <1>1 DEF IInv
  <2>3. PICK l \in Legs : order[l] # "absent" /\ request[l].side = Opposite(state.side)
    BY <2>1 DEF HasExited, SentOf, Sent
  <2>4. state.phase \in Phases
    BY <2>1, <2>2 DEF SignalInv, Signals, MomentumState, MeanReversionState
  <2>5. CASE state.phase = "watching"
    BY <2>1, <2>2, <2>3, <2>5 DEF PositionCalmInv, SentOrDue
  <2>6. CASE state.phase = "in_position"
    <3>1. request[l] = Market(state.side, PositionSize)
      BY <2>1, <2>2, <2>3, <2>6 DEF PositionCalmInv, SentOrDue
    <3>2. state.side \in Sides
      BY <2>1, <2>2, <2>6 DEF SignalInv, Signals, MomentumState
    <3>3. request[l].side = state.side
      BY <3>1 DEF Market
    <3>4. QED
      BY <2>3, <3>2, <3>3, SidesDiffer
  <2>7. CASE state.phase = "exited"
    BY <2>1, <2>2, <2>7 DEF PositionCalmInv
  <2>8. QED
    BY <2>4, <2>5, <2>6, <2>7 DEF Phases
<1>2. QED
  BY <1>1, TakersInvariant, PTL

\* A ladder that nothing disturbed completes only when all of it has been accepted.
THEOREM LaddersAreWhole == Spec => []LadderIsWhole
<1>1. ASSUME IInv PROVE LadderIsWhole
  <2>1. SUFFICES ASSUME strategy = "ladder", disturbed = {}, status = "completed", ~lastError
                 PROVE  Exposed(Legs) = LadderTotal
    BY DEF LadderIsWhole
  <2>2. HostInv /\ OnlySends /\ LadderInv /\ LadderCalmInv /\ Finishes
    BY <1>1, <2>1 DEF IInv, Finishes
  <2>3. PICK d \in Distributions, ids \in [1 .. Rungs -> Legs] :
          d = state.distribution /\ ids = state.ids
    BY <2>1, <2>2 DEF LadderInv, LadderState
  <2>4. PICK b : b = BuildRungs(d)
    OBVIOUS
  <2>5. PICK N : N = 1 .. Rungs
    OBVIOUS
  <2>6. \A i \in 1 .. Rungs : BuildRungs(d)[i] > 0
    BY <2>1, <2>2, <2>3 DEF LadderInv
  <2>7. SumFunctionOnSet(b, N) = LadderTotal /\ \A i \in N : b[i] \in Nat
    BY <2>4, <2>5, <2>6, RungsAddUp
  <2>8. PICK e \in [Legs -> Nat] : e = [l \in Legs |-> Exposure(l)]
    <3>1. \A l \in Legs : Exposure(l) \in Nat
      BY <2>2, SumsAreTyped
    <3>2. QED
      BY <3>1
  <2>9. ASSUME NEW i \in N PROVE b[i] \in Nat /\ b[i] <= e[ids[i]]
    <3>1. PICK l \in Legs : l = ids[i]
      BY <2>3, <2>5
    <3>2. intent[l] = "submitted"
      BY <2>1, <2>2, <2>3, <2>5, <3>1 DEF LadderCalmInv
    <3>3. LegInv(l) /\ cancelSent = {}
      BY <2>2 DEF HostInv, OnlySends
    <3>4. order[l] \in {"live", "filled"}
      BY <2>1, <3>2, <3>3 DEF LegInv, Accepted
    <3>5. request[l].size = b[i]
      BY <2>1, <2>2, <2>3, <2>4, <2>5, <3>1, <3>4 DEF LadderInv
    <3>6. Exposure(l) = b[i]
      BY <3>3, <3>4, <3>5 DEF LegInv, Exposure, InTheBook
    <3>7. e[l] = b[i] /\ b[i] \in Nat
      BY <2>7, <2>8, <3>6
    <3>8. QED
      BY <3>1, <3>7
  <2>10. \A i, j \in N : ids[i] = ids[j] => i = j
    BY <2>1, <2>2, <2>3, <2>5 DEF LadderInv
  <2>11. IsFiniteSet(Legs) /\ IsFiniteSet(N)
    <3>1. Rungs \in Nat
      BY LadderAssumption DEF LadderAssumption
    <3>2. QED
      BY <2>5, <3>1, FS_Interval, StrategyHostAssumption DEF StrategyHostAssumption
  <2>12. ids \in [N -> Legs] /\ \A l \in Legs : e[l] \in Nat
    BY <2>3, <2>5, <2>8
  <2>13. SumFunctionOnSet(b, N) <= SumFunctionOnSet(e, Legs)
    BY <2>9, <2>10, <2>11, <2>12, SumInjection
  <2>14. LadderTotal <= Exposed(Legs)
    BY <2>7, <2>8, <2>13 DEF Exposed
  <2>15. Exposed(Legs) <= Released /\ Exposed(Legs) \in Nat /\ Released \in Nat
    BY <1>1, ExposedWithinReleased
  <2>16. Released <= Asked /\ Asked = LadderTotal /\ LadderTotal \in Nat
    BY <1>1, <2>1, ReleasedWithinAsked, LadderAssumption DEF Asked, LadderAssumption
  <2>17. QED
    BY <2>14, <2>15, <2>16
<1>2. QED
  BY <1>1, TakersInvariant, PTL

\* A rebalance that nothing disturbed sends no buy before every sell of the plan has been
\* filled or skipped.
THEOREM SellsComeFirst == Spec => []SellsFundBuys
<1>1. ASSUME IInv PROVE SellsFundBuys
  <2>1. SUFFICES ASSUME strategy = "rebalance", disturbed = {}, SentOf("buy") # {}
                 PROVE  /\ \A i \in DOMAIN state.plan :
                             state.plan[i].side = "sell" => state.status[i] # "pending"
                        /\ Cardinality({l \in SentOf("sell") : order[l] = "filled"})
                             = Cardinality({i \in DOMAIN state.plan :
                                              /\ state.plan[i].side = "sell"
                                              /\ state.status[i] = "submitted"})
    BY DEF SellsFundBuys
  <2>2. HostInv /\ OnlySends /\ RebalanceInv /\ RebalanceCalmInv
    BY <1>1 DEF IInv
  <2>3. PICK id \in [DOMAIN state.plan -> Legs] : Belongs(id)
    BY <2>1, <2>2 DEF RebalanceCalmInv
  <2>4. \A l \in Legs : order[l] # "absent" =>
          \E i \in DOMAIN state.plan :
            Sends(i) /\ id[i] = l /\ request[l].side = state.plan[i].side
    BY <2>3 DEF Belongs, SentOrDue
  <2>5. \E i \in DOMAIN state.plan : Sends(i) /\ state.plan[i].side = "buy"
    <3>1. PICK l \in Legs : order[l] # "absent" /\ request[l].side = "buy"
      BY <2>1 DEF SentOf, Sent
    <3>2. QED
      BY <2>4, <3>1
  <2>6. \A i \in DOMAIN state.plan : state.plan[i].side = "sell" =>
          state.status[i] # "pending" /\ (Sends(i) => intent[id[i]] = "submitted")
    BY <2>3, <2>5 DEF Belongs
  <2>7. PICK A, B :
          /\ A = {i \in DOMAIN state.plan :
                    state.plan[i].side = "sell" /\ state.status[i] = "submitted"}
          /\ B = {l \in SentOf("sell") : order[l] = "filled"}
    OBVIOUS
  <2>8. ASSUME NEW i \in A PROVE id[i] \in B
    <3>1. i \in DOMAIN state.plan /\ Sends(i) /\ state.plan[i].side = "sell"
      BY <2>7 DEF Sends
    <3>2. PICK l \in Legs : l = id[i]
      BY <3>1
    <3>3. intent[l] = "submitted"
      BY <2>6, <3>1, <3>2
    <3>4. LegInv(l) /\ cancelSent = {}
      BY <2>2 DEF HostInv, OnlySends
    <3>5. order[l] \in Accepted /\ order[l] # "cancelled"
      BY <2>1, <3>3, <3>4 DEF LegInv
    <3>6. request[l].market /\ request[l].side = "sell"
      BY <2>3, <3>1, <3>2, <3>5 DEF Belongs, Accepted
    <3>7. order[l] = "filled"
      BY <3>4, <3>5, <3>6 DEF LegInv, Accepted
    <3>8. QED
      BY <2>7, <3>2, <3>6, <3>7 DEF SentOf, Sent
  <2>9. \A i, j \in A : id[i] = id[j] => i = j
    BY <2>3, <2>7 DEF Belongs, Sends
  <2>10. ASSUME NEW l \in B PROVE \E i \in A : id[i] = l
    <3>1. l \in Legs /\ order[l] # "absent" /\ request[l].side = "sell"
      BY <2>7 DEF SentOf, Sent
    <3>2. QED
      BY <2>4, <2>7, <3>1 DEF Sends
  <2>11. PICK f : f = [i \in A |-> id[i]]
    OBVIOUS
  <2>12. f \in Bijection(A, B)
    <3>1. f \in [A -> B]
      BY <2>8, <2>11
    <3>2. \A i, j \in A : f[i] = f[j] => i = j
      BY <2>9, <2>11
    <3>3. \A l \in B : \E i \in A : f[i] = l
      BY <2>10, <2>11
    <3>4. QED
      BY <3>1, <3>2, <3>3 DEF Bijection, Injection, Surjection, IsInjective
  <2>13. IsFiniteSet(A)
    <3>1. IsFiniteSet(DOMAIN state.plan)
      BY <2>1, <2>2, PlansAreFinite
    <3>2. QED
      BY <2>7, <3>1, FS_Subset
  <2>14. Cardinality(A) = Cardinality(B)
    BY <2>12, <2>13, FS_Bijection DEF ExistsBijection
  <2>15. QED
    BY <2>6, <2>7, <2>14
<1>2. QED
  BY <1>1, TakersInvariant, PTL
=============================================================================
