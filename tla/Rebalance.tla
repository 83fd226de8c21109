----------------------------- MODULE Rebalance ------------------------------
(***************************************************************************)
(* Rebalance: a fixed plan of sells and buys, each sent at most once, the  *)
(* sells first.  A leg without a price is tried again, a few times.        *)
(***************************************************************************)
EXTENDS Sizes, Integers, SequencesExt

CONSTANTS
  Prices,            \* bound: the prices there are
  Plans,             \* bound: the legs init may find outside the tolerance
  MaxLegsPerTick,    \* bound: what max_legs_per_tick may be
  MAX_LEG_ATTEMPTS   \* 3 in the code

ASSUME RebalanceAssumption ==
  /\ Prices \subseteq Nat \ {0}
  /\ MaxLegsPerTick \subseteq Nat \ {0}
  /\ MAX_LEG_ATTEMPTS \in Nat \ {0}

PlannedLeg == [side : Sides, deltaUsd : Nat, heldQuantity : Nat, minOrderSize : Nat]

ASSUME PlansAssumption == Plans \subseteq Seq(PlannedLeg)

NoQuote == 0

LegStatus == {"pending", "submitted", "skipped"}

\* The plan is told apart from what has become of it; executed is the size sent, and a dry
\* run sends nothing.
RebalanceState ==
  [plan : Plans, perTick : MaxLegsPerTick, dryRun : BOOLEAN, status : Seq(LegStatus),
   attempts : Seq(0 .. MAX_LEG_ATTEMPTS), executed : Seq(Nat), lastBatch : BOOLEAN]

RebalanceInit ==
  \E plan \in Plans, perTick \in MaxLegsPerTick, dryRun \in BOOLEAN :
    state = [plan |-> plan, perTick |-> perTick, dryRun |-> dryRun,
             status |-> [i \in DOMAIN plan |-> "pending"],
             attempts |-> [i \in DOMAIN plan |-> 0],
             executed |-> [i \in DOMAIN plan |-> 0], lastBatch |-> FALSE]

PendingLegs(s) == {i \in DOMAIN s.plan : s.status[i] = "pending"}

\* The first of them, as many as an advance may work at.
Some(legs) == {i \in legs : Cardinality({j \in legs : j < i}) < state.perTick}

\* Wrong: the buys do not wait for the sells.
InPlanOrder(s) == Some(PendingLegs(s))

\* Sells first, and never a buy with a sell.
Batch(s) ==
  LET sells == {i \in PendingLegs(s) : s.plan[i].side = "sell"}
  IN Some(IF sells # {} THEN sells ELSE PendingLegs(s))

\* A sell is never larger than what the plan saw in the account.
LegSize(leg, price) ==
  LET drift == leg.deltaUsd \div price
  IN RoundDown(IF leg.side = "sell" /\ leg.heldQuantity < drift THEN leg.heldQuantity ELSE drift)

\* Wrong: an attempt without a price is not counted.
SameAttempts(n) == n

OneMoreAttempt(n) == n + 1

\* A leg that is sized and sent at a price.
IsSent(s, i, price) ==
  /\ price # NoQuote /\ ~s.dryRun
  /\ LET size == LegSize(s.plan[i], price) IN size > 0 /\ size >= s.plan[i].minOrderSize

\* What becomes of leg i at a price.
Became(s, i, price) ==
  CASE IsSent(s, i, price) -> "submitted"
    [] price = NoQuote /\ OneMoreAttempt(s.attempts[i]) < MAX_LEG_ATTEMPTS -> "pending"
    [] OTHER -> "skipped"

\* The legs of a batch are tried at their prices, each of them as it was before.
Tried(s, quotes) ==
  [s EXCEPT
     !.attempts = [i \in DOMAIN s.plan |->
                     IF i \in DOMAIN quotes THEN OneMoreAttempt(@[i]) ELSE @[i]],
     !.status   = [i \in DOMAIN s.plan |->
                     IF i \in DOMAIN quotes THEN Became(s, i, quotes[i]) ELSE @[i]],
     !.executed = [i \in DOMAIN s.plan |->
                     IF i \in DOMAIN quotes /\ IsSent(s, i, quotes[i])
                     THEN LegSize(s.plan[i], quotes[i]) ELSE @[i]]]

\* The set in the order of the plan.
InOrder(legs) ==
  {f \in [1 .. Cardinality(legs) -> legs] : \A m, n \in DOMAIN f : m < n => f[m] < f[n]}

LegSubmit(s, i, l) == Submit(l, Market(s.plan[i].side, s.executed[i]))

BatchWasRejected == state.lastBatch /\ row.lastError

RebalanceRejected ==
  /\ Called("rebalance")
  /\ BatchWasRejected
  /\ Return([state EXCEPT !.lastBatch = FALSE], <<>>, Ending("failed", TRUE))
  /\ ReadsNothing

Finished == Ending("completed", TRUE)

RebalanceFinish ==
  /\ Called("rebalance")
  /\ ~BatchWasRejected
  /\ PendingLegs(state) = {}
  /\ Return([state EXCEPT !.lastBatch = FALSE], <<>>, Finished)
  /\ ReadsNothing

RebalanceReads == Called("rebalance") /\ ~BatchWasRejected /\ PendingLegs(state) # {}

\* The legs of the batch that are sent.
ToSend(tried) == {i \in Batch(state) : tried.status[i] = "submitted"}

\* The step that sends them; the rebalance finishes in the one that sends its last legs.
SendsTried(tried) ==
  LET legs == ToSend(tried)
      ids  == SetToSeq(FreshLegs({}))
      ends == PendingLegs(tried) = {}
  IN /\ Len(ids) >= Cardinality(legs)  \* bound: there are ids left
     /\ \E sent \in InOrder(legs) :
          Return([tried EXCEPT !.lastBatch = ~ends /\ legs # {}],
                 [n \in DOMAIN sent |-> LegSubmit(tried, sent[n], ids[n])],
                 IF ends THEN Finished ELSE NotDone)

RebalanceTrade ==
  /\ RebalanceReads
  /\ \E quotes \in [Batch(state) -> Prices \union {NoQuote}] : SendsTried(Tried(state, quotes))
  /\ ReadsNothing

RebalanceAdvance == RebalanceRejected \/ RebalanceFinish \/ RebalanceTrade
=============================================================================
