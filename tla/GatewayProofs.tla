---------------------------- MODULE GatewayProofs ----------------------------
(***************************************************************************)
(* Theorems about the gateway, for every set of callers, every history and *)
(* every bound of the bucket, the retries, the pages and the policy; and   *)
(* how far the venue can be ahead of the ledger of one process.            *)
(***************************************************************************)
EXTENDS Gateway, SumLemmas

\* The value of an order is a whole number, whichever of its fields it comes from.
LEMMA NotionalType ==
  ASSUME NEW r \in Requests, NEW price \in Nat
  PROVE  Notional(r, price) \in Nat
<1>1. r.amount \in Nat /\ UnitPrice(r, price) \in Nat
  BY GateAssumption DEF GateAssumption, UnitPrice
<1>2. \A m, n \in Nat : m * n \in Nat
  OBVIOUS
<1>3. QED
  BY <1>1, <1>2 DEF Notional

\* Every request is one a caller can be in the middle of.
LEMMA RequestsAreTyped ==
  /\ NoRequest \in [stage : Stages, left : 0..GetRetries]
  /\ Get \in [stage : Stages, left : 0..GetRetries]
  /\ Post \in [stage : Stages, left : 0..GetRetries]
BY HttpClientAssumption DEF HttpClientAssumption, NoRequest, Get, Post, Stages

\* A caller that waits for a quote has a request: no price is made of nothing.
PricingInv == \A c \in Callers : task[c] = "pricing" => want[c] \in Requests

GateTypes ==
  /\ req \in [Callers -> [stage : Stages, left : 0..GetRetries]]
  /\ task \in [Callers -> Tasks]
  /\ calls \in [Callers -> 0..MaxCalls]
  /\ want \in [Callers -> Requests \cup {Nothing}]
  /\ worth \in [Callers -> 0..MaxOrderUsd]
  /\ spent \in Nat /\ account \in BOOLEAN
  /\ PricingInv

Walks ==
  [at : Nat, pages : 0..(MaxPages - 1), found : BOOLEAN,
   present : BOOLEAN, broken : BOOLEAN, verdict : Verdicts]

\* A step of a caller that awaits something else than a quote, or nothing.
LEMMA CallTypes ==
  ASSUME GateTypes, NEW c \in Callers, NEW next \in Tasks \ {"pricing"},
         NEW request \in [stage : Stages, left : 0..GetRetries], Call(c, next, request)
  PROVE  /\ req' \in [Callers -> [stage : Stages, left : 0..GetRetries]]
         /\ task' \in [Callers -> Tasks]
         /\ \A d \in Callers : task'[d] = "pricing" => task[d] = "pricing"
BY DEF GateTypes, Call

\* Pricing and sending an order leaves every caller with a request and a task.
LEMMA SubmitTypes ==
  ASSUME GateTypes, NEW c \in Callers, NEW r \in Requests, NEW price \in Nat,
         Submit(c, r, price)
  PROVE  /\ req' \in [Callers -> [stage : Stages, left : 0..GetRetries]]
         /\ task' \in [Callers -> Tasks]
         /\ task'[c] # "pricing"
         /\ \A d \in Callers \ {c} : task'[d] = task[d]
         /\ worth' \in [Callers -> 0..MaxOrderUsd]
<1>1. PICK switch \in KillSwitch :
        IF switch = "released" /\ assertAllowed(r, price) /\ (Mode = "autonomous" \/ r.confirm)
        THEN /\ worth' = [worth EXCEPT ![c] = Notional(r, price)]
             /\ IF account THEN Call(c, "posting", Post) ELSE Call(c, "account", Get)
        ELSE Return(c) /\ UNCHANGED worth
  BY DEF Submit
<1>2. worth' \in [Callers -> 0..MaxOrderUsd]
  <2>1. CASE worth' = worth
    BY <2>1 DEF GateTypes
  <2>2. CASE assertAllowed(r, price) /\ worth' = [worth EXCEPT ![c] = Notional(r, price)]
    <3>1. Notional(r, price) \in 0..MaxOrderUsd
      BY <2>2, NotionalType, GateAssumption DEF GateAssumption, assertAllowed
    <3>2. QED
      BY <2>2, <3>1 DEF GateTypes
  <2>3. QED
    BY <1>1, <2>1, <2>2
<1>3. \/ Call(c, "posting", Post)
      \/ Call(c, "account", Get)
      \/ Call(c, "idle", NoRequest)
  BY <1>1 DEF Return
<1>4. QED
  BY <1>2, <1>3, RequestsAreTyped DEF GateTypes, Call, Tasks

\* A walk begins, and ends with a verdict, from whatever it has seen.
LEMMA WalksAreTyped ==
  ASSUME NEW present \in BOOLEAN, NEW broken \in BOOLEAN, NEW verdict \in Verdicts
  PROVE  Walk(present, broken, verdict) \in Walks
<1>1. 0 \in 0..(MaxPages - 1)
  BY LookupAssumption DEF LookupAssumption
<1>2. QED
  BY <1>1 DEF Walk, Walks

\* The verdict on a walk is one of the five, and a walk that goes on is a walk.
LEMMA VerdictsAreTyped ==
  ASSUME NEW found \in BOOLEAN, NEW truncated \in BOOLEAN
  PROVE  Verdict(found, truncated) \in Verdicts
BY DEF Verdict, Verdicts

IInv == TypeInv /\ PricingInv

\* Every variable keeps its type, the bucket its bounds among them, and a caller
\* that waits for a quote knows the order it is for.
LEMMA InductiveTypes == Spec => []IInv
<1>1. Init => IInv
  <2> SUFFICES ASSUME Init PROVE IInv
    OBVIOUS
  <2>1. 0 \in 0..MaxCalls /\ 0 \in 0..MaxOrderUsd /\ 0 \in 0..(MaxPages - 1)
    BY GateAssumption, LookupAssumption DEF GateAssumption, LookupAssumption
  <2>2. /\ tokens \in 0..Burst
        /\ req \in [Callers -> [stage : Stages, left : 0..GetRetries]]
    BY HttpClientAssumption, RequestsAreTyped DEF HttpClientAssumption, Init, HttpInit
  <2>3. orders \in Nat /\ target \in Nat
    BY LookupAssumption DEF LookupAssumption, Init, LookupInit
  <2>4. walk \in Walks
    <3>1. FALSE \in BOOLEAN /\ "none" \in Verdicts
      BY DEF Verdicts
    <3>2. QED
      BY <3>1, WalksAreTyped DEF Init, LookupInit
  <2>5. QED
    BY <2>1, <2>2, <2>3, <2>4 DEF Walks, Init, GateInit, LookupInit, IInv, TypeInv, PricingInv, Tasks
<1>2. IInv /\ [Next]_vars => IInv'
  <2> SUFFICES ASSUME IInv, [Next]_vars PROVE IInv'
    OBVIOUS
  <2> USE DEF IInv, TypeInv, PricingInv
  <2>0. GateTypes /\ walk \in Walks
    BY DEF GateTypes, Walks
  <2>1. ASSUME NEW c \in Callers, NEW r \in Requests, submitOrder(c, r), UNCHANGED <<tokens, lookupVars>>
        PROVE IInv'
    <3>1. calls' \in [Callers -> 0..MaxCalls]
      BY <2>1, GateAssumption DEF GateAssumption, submitOrder, Arrive
    <3>2. CASE Return(c) /\ UNCHANGED <<want, worth>>
      BY <2>1, <3>1, <3>2, RequestsAreTyped DEF submitOrder, Return, Call, Tasks, lookupVars
    <3>3. CASE Call(c, "pricing", Get) /\ want' = [want EXCEPT ![c] = r] /\ UNCHANGED worth
      BY <2>1, <3>1, <3>3, RequestsAreTyped DEF submitOrder, Call, Tasks, lookupVars
    <3>4. CASE Submit(c, r, 0) /\ UNCHANGED want
      <4>1. /\ req' \in [Callers -> [stage : Stages, left : 0..GetRetries]]
            /\ task' \in [Callers -> Tasks]
            /\ task'[c] # "pricing"
            /\ \A d \in Callers \ {c} : task'[d] = task[d]
            /\ worth' \in [Callers -> 0..MaxOrderUsd]
        BY <2>0, <3>4, SubmitTypes
      <4>2. QED
        BY <2>1, <3>1, <3>4, <4>1 DEF submitOrder, lookupVars
    <3>5. QED
      BY <2>1, <3>2, <3>3, <3>4 DEF submitOrder
  <2>2. ASSUME NEW c \in Callers, cancelOrder(c), UNCHANGED <<tokens, lookupVars>> PROVE IInv'
    <3>1. calls' \in [Callers -> 0..MaxCalls]
      BY <2>2, GateAssumption DEF GateAssumption, cancelOrder, Arrive
    <3>2. QED
      BY <2>2, <3>1, RequestsAreTyped DEF cancelOrder, Call, Tasks, gateVars, lookupVars
  <2>3. ASSUME NEW c \in Callers, Priced(c), UNCHANGED <<tokens, lookupVars>> PROVE IInv'
    <3>1. PICK price \in Prices : Submit(c, want[c], price)
      BY <2>3 DEF Priced
    <3>2. want[c] \in Requests /\ price \in Nat
      BY <2>3, GateAssumption DEF GateAssumption, Priced, Waits
    <3>3. /\ req' \in [Callers -> [stage : Stages, left : 0..GetRetries]]
          /\ task' \in [Callers -> Tasks]
          /\ task'[c] # "pricing"
          /\ \A d \in Callers \ {c} : task'[d] = task[d]
          /\ worth' \in [Callers -> 0..MaxOrderUsd]
      BY <2>0, <3>1, <3>2, SubmitTypes
    <3>4. QED
      BY <2>3, <3>3 DEF Priced, lookupVars
  <2>4. ASSUME NEW c \in Callers, AccountRead(c), UNCHANGED <<tokens, lookupVars>> PROVE IInv'
    <3>1. 0 \in 0..MaxOrderUsd
      BY GateAssumption DEF GateAssumption
    <3>2. CASE account' = TRUE /\ Call(c, "posting", Post) /\ UNCHANGED worth
      <4>1. account' \in BOOLEAN
        BY <3>2
      <4>2. QED
        BY <2>4, <3>2, <4>1, RequestsAreTyped DEF AccountRead, Call, Tasks, lookupVars
    <3>3. CASE Return(c) /\ worth' = [worth EXCEPT ![c] = 0] /\ UNCHANGED account
      BY <2>4, <3>1, <3>3, RequestsAreTyped DEF AccountRead, Return, Call, Tasks, lookupVars
    <3>4. QED
      BY <2>4, <3>2, <3>3 DEF AccountRead
  <2>5. ASSUME NEW c \in Callers, Posted(c), UNCHANGED <<tokens, lookupVars>> PROVE IInv'
    <3>1. 0 \in 0..MaxOrderUsd /\ worth[c] \in Nat
      BY GateAssumption DEF GateAssumption
    <3>2. QED
      BY <2>5, <3>1, RequestsAreTyped DEF Posted, Recorded, Return, Call, Tasks, lookupVars
  <2>6. ASSUME NEW c \in Callers, Cancelled(c), UNCHANGED <<tokens, lookupVars>> PROVE IInv'
    BY <2>6, RequestsAreTyped DEF Cancelled, Return, Call, Tasks, gateVars, lookupVars
  <2>7. ASSUME NEW c \in Callers, CallFails(c), UNCHANGED <<tokens, lookupVars>> PROVE IInv'
    <3>1. 0 \in 0..MaxOrderUsd
      BY GateAssumption DEF GateAssumption
    <3>2. QED
      BY <2>7, <3>1, RequestsAreTyped DEF CallFails, Return, Call, Tasks, lookupVars
  <2>8. ASSUME NEW c \in Callers, findOrderByClientOrderId(c), UNCHANGED tokens PROVE IInv'
    <3>1. calls' \in [Callers -> 0..MaxCalls]
      BY <2>8, GateAssumption DEF GateAssumption, findOrderByClientOrderId, Arrive
    <3>2. walk' \in Walks
      <4>1. (target > 0) \in BOOLEAN /\ "none" \in Verdicts
        BY DEF Verdicts
      <4>2. Walk(target > 0, FALSE, "none") \in Walks
        BY <4>1, WalksAreTyped
      <4>3. QED
        BY <2>8, <2>0, <4>2 DEF findOrderByClientOrderId, Begin
    <3>3. Call(c, "walking", Get) \/ Call(c, "walk_account", Get)
      BY <2>8 DEF findOrderByClientOrderId, Begin
    <3>4. /\ req' \in [Callers -> [stage : Stages, left : 0..GetRetries]]
          /\ task' \in [Callers -> Tasks]
          /\ \A d \in Callers : task'[d] = "pricing" => task[d] = "pricing"
      <4>1. {"walking", "walk_account", "idle"} \subseteq Tasks \ {"pricing"}
        BY DEF Tasks
      <4>2. QED
        BY <2>0, <3>3, <4>1, CallTypes, RequestsAreTyped
    <3>5. QED
      BY <2>8, <3>1, <3>2, <3>4 DEF Walks, findOrderByClientOrderId, gateVars
  <2>9. ASSUME NEW c \in Callers, WalkAccountRead(c), UNCHANGED tokens PROVE IInv'
    <3>1. walk' \in Walks
      <4>1. /\ (target > 0) \in BOOLEAN /\ walk.present \in BOOLEAN
            /\ "none" \in Verdicts /\ "error" \in Verdicts
        BY DEF Verdicts
      <4>2. Walk(target > 0, FALSE, "none") \in Walks /\ Walk(walk.present, FALSE, "error") \in Walks
        BY <4>1, WalksAreTyped
      <4>3. QED
        BY <2>9, <4>2 DEF WalkAccountRead, Begin, Concludes
    <3>2. Call(c, "walking", Get) \/ Call(c, "idle", NoRequest)
      BY <2>9 DEF WalkAccountRead, Begin, Concludes, Return
    <3>3. account' \in BOOLEAN
      <4>1. CASE account' = TRUE
        BY <4>1
      <4>2. CASE UNCHANGED account
        BY <4>2
      <4>3. QED
        BY <2>9, <4>1, <4>2 DEF WalkAccountRead
    <3>4. /\ req' \in [Callers -> [stage : Stages, left : 0..GetRetries]]
          /\ task' \in [Callers -> Tasks]
          /\ \A d \in Callers : task'[d] = "pricing" => task[d] = "pricing"
      <4>1. {"walking", "walk_account", "idle"} \subseteq Tasks \ {"pricing"}
        BY DEF Tasks
      <4>2. QED
        BY <2>0, <3>2, <4>1, CallTypes, RequestsAreTyped
    <3>5. QED
      BY <2>9, <3>1, <3>3, <3>4 DEF Walks, WalkAccountRead
  <2>10. ASSUME NEW c \in Callers, ReadPage(c), UNCHANGED tokens PROVE IInv'
    <3>1. At \in Nat /\ Found \in BOOLEAN /\ (At > 1) \in BOOLEAN
      BY DEF At, Found
    <3>2. walk' \in Walks
      <4>1. CASE Concludes(c, Verdict(Found, At > 1), walk.broken)
        BY <3>1, <4>1, VerdictsAreTyped, WalksAreTyped DEF Concludes
      <4>2. CASE At > 1 /\ walk.pages + 1 < MaxPages /\ Turn(c, At - 1, walk.broken)
        <5>1. At - 1 \in Nat /\ walk.pages + 1 \in 0..(MaxPages - 1)
          BY <3>1, <4>2, LookupAssumption DEF LookupAssumption
        <5>2. QED
          BY <2>0, <3>1, <4>2, <5>1 DEF Walks, Turn
      <4>3. QED
        BY <2>10, <4>1, <4>2 DEF ReadPage
    <3>3. Call(c, "walking", Get) \/ Call(c, "idle", NoRequest)
      BY <2>10 DEF ReadPage, Turn, Concludes, Return
    <3>4. /\ req' \in [Callers -> [stage : Stages, left : 0..GetRetries]]
          /\ task' \in [Callers -> Tasks]
          /\ \A d \in Callers : task'[d] = "pricing" => task[d] = "pricing"
      <4>1. {"walking", "walk_account", "idle"} \subseteq Tasks \ {"pricing"}
        BY DEF Tasks
      <4>2. QED
        BY <2>0, <3>3, <4>1, CallTypes, RequestsAreTyped
    <3>5. QED
      BY <2>10, <3>2, <3>4 DEF Walks, ReadPage, gateVars
  <2>11. ASSUME NEW c \in Callers, BrokenPage(c), UNCHANGED tokens PROVE IInv'
    <3>1. walk' \in Walks
      <4>1. PICK found \in {Found, FALSE} : Concludes(c, Verdict(found, FALSE), TRUE)
        BY <2>11 DEF BrokenPage
      <4>2. found \in BOOLEAN /\ walk.present \in BOOLEAN
        BY <4>1 DEF Found
      <4>3. QED
        BY <4>1, <4>2, VerdictsAreTyped, WalksAreTyped DEF Concludes
    <3>2. Call(c, "idle", NoRequest)
      BY <2>11 DEF BrokenPage, Concludes, Return
    <3>3. QED
      BY <2>11, <3>1, <3>2, RequestsAreTyped DEF Walks, BrokenPage, Call, Tasks, gateVars
  <2>12. ASSUME NEW c \in Callers, StrayPage(c), UNCHANGED tokens PROVE IInv'
    <3>1. PICK at \in 1..orders : Turn(c, at, TRUE)
      BY <2>12 DEF StrayPage
    <3>2. at \in Nat /\ walk.pages + 1 \in 0..(MaxPages - 1) /\ Found \in BOOLEAN
      BY <2>12, <3>1, LookupAssumption DEF LookupAssumption, StrayPage, Found
    <3>3. walk' \in Walks
      BY <2>0, <3>1, <3>2 DEF Walks, Turn
    <3>4. QED
      BY <2>12, <3>1, <3>3, RequestsAreTyped DEF Walks, StrayPage, Turn, Call, Tasks, gateVars
  <2>13. ASSUME NEW c \in Callers, WalkFails(c), UNCHANGED tokens PROVE IInv'
    <3>1. walk' \in Walks
      <4>1. "error" \in Verdicts /\ walk.present \in BOOLEAN
        BY DEF Verdicts
      <4>2. QED
        BY <2>13, <4>1, WalksAreTyped DEF WalkFails, Concludes
    <3>2. QED
      BY <2>13, <3>1, RequestsAreTyped
      DEF Walks, WalkFails, Concludes, Return, Call, Tasks, gateVars
  <2>14. ASSUME NEW c \in Callers, Attempt(c) PROVE IInv'
    <3>1. worth[c] \in Nat
      BY GateAssumption DEF GateAssumption
    <3>2. req' \in [Callers -> [stage : Stages, left : 0..GetRetries]]
      <4>1. CASE \E how \in Stages : Ends(c, how)
        BY <4>1, HttpClientAssumption DEF HttpClientAssumption, Ends
      <4>2. CASE Retry(c)
        BY <4>2, HttpClientAssumption DEF HttpClientAssumption, Retry, NextAttempt, Stages
      <4>3. QED
        BY <2>14, <4>1, <4>2
        DEF Attempt, OrderAnswered, AnswerLost, Accept, Answer, Fail, Stages
    <3>3. /\ orders' \in Nat /\ ordered' \in Nat /\ lost' \in Nat
          /\ UNCHANGED <<want, worth, spent, account>>
      BY <2>14, <3>1 DEF Attempt, OrderAnswered, AnswerLost, Accept, gateVars
    <3>4. QED
      BY <2>14, <3>2, <3>3 DEF Attempt, lookupVars
  <2>15. ASSUME NEW c \in Callers, Wait(c) PROVE IInv'
    BY <2>15, HttpClientAssumption
    DEF HttpClientAssumption, Wait, TakeToken, HasToken, Wake, Becomes, Stages, gateVars, lookupVars
  <2>16. ASSUME Fill PROVE IInv'
    BY <2>16, HttpClientAssumption DEF HttpClientAssumption, Fill, Refill, gateVars, lookupVars
  <2>17. ASSUME Late PROVE IInv'
    <3>1. orders' \in Nat /\ target' \in Nat
      BY <2>17 DEF Late, ArrivesLate
    <3>2. onWire' \in BOOLEAN
      BY <2>17 DEF Late, ArrivesLate
    <3>3. QED
      BY <2>17, <3>1, <3>2 DEF Late
  <2>18. ASSUME UNCHANGED vars PROVE IInv'
    BY <2>18 DEF vars, gateVars, lookupVars
  <2>19. QED
    BY <2>1, <2>2, <2>3, <2>4, <2>5, <2>6, <2>7, <2>8, <2>9, <2>10, <2>11, <2>12, <2>13, <2>14,
       <2>15, <2>16, <2>17, <2>18
    DEF Next, ToolCall, GoOn, Resume
<1>3. QED
  BY <1>1, <1>2, PTL DEF Spec

\* Every variable keeps its type. No caller takes a token that is not there,
\* however many wait for one, and no order is worth more than the ceiling.
THEOREM TypeCorrect == Spec => []TypeInv
<1>1. IInv => TypeInv
  BY DEF IInv
<1>2. QED
  BY <1>1, InductiveTypes, PTL

\* What a walk has to know of an order that was there when it began: while it is
\* not found it lies on a page still to come, and it does not move. A verdict
\* says nothing of the pages the walk did not reach.
WalkInv ==
  /\ target <= orders
  /\ onWire => target = 0
  /\ walk.present \/ walk.found => target > 0
  /\ walk.pages > 0 /\ walk.present /\ ~walk.broken /\ ~walk.found => target <= walk.at
  /\ LookupIsHonest

\* A walk that begins knows whether the order is there, and nothing else.
LEMMA BeginKeepsHonesty ==
  ASSUME IInv, WalkInv, orders' = orders, target' = target, onWire' = onWire,
         walk' = Walk(target > 0, FALSE, "none")
  PROVE  WalkInv'
<1>1. /\ walk'.present = (target > 0) /\ ~walk'.found /\ walk'.pages = 0
      /\ walk'.verdict = "none"
  BY DEF Walk
<1>2. target' <= orders' /\ (onWire' => target' = 0)
  BY DEF WalkInv
<1>3. walk'.present \/ walk'.found => target' > 0
  BY <1>1
<1>4. ~(walk'.pages > 0)
  <2>1. walk'.pages = 0
    BY DEF Walk
  <2>2. ~(0 > 0)
    OBVIOUS
  <2>3. QED
    BY <2>1, <2>2
<1>5. LookupIsHonest'
  BY <1>1 DEF LookupIsHonest
<1>6. QED
  BY <1>2, <1>3, <1>4, <1>5 DEF WalkInv

\* A walk ends honestly when what it says of the order is so.
LEMMA EndKeepsHonesty ==
  ASSUME IInv, WalkInv, orders' = orders, target' = target, onWire' = onWire,
         NEW broken \in BOOLEAN, NEW verdict \in Verdicts,
         walk' = Walk(walk.present, broken, verdict),
         verdict = "found" => target > 0,
         verdict = "not_found" /\ ~broken => ~walk.present
  PROVE  WalkInv'
<1>1. /\ walk'.present = walk.present /\ ~walk'.found /\ walk'.pages = 0
      /\ walk'.broken = broken /\ walk'.verdict = verdict
  BY DEF Walk
<1>2. QED
  BY <1>1 DEF WalkInv, LookupIsHonest

\* The page a walk reads: either it holds the order, or the order is older than
\* everything on it.
LEMMA PageIsBefore ==
  ASSUME IInv, WalkInv, walk.present, ~walk.broken, ~Found
  PROVE  target > 0 /\ target < At
<1>1. target \in Nat /\ orders \in Nat /\ walk.at \in Nat /\ walk.pages \in Nat
  <2>1. walk.pages \in 0..(MaxPages - 1)
    BY DEF IInv, TypeInv
  <2>2. QED
    BY <2>1 DEF IInv, TypeInv
<1>2. target <= At /\ target > 0
  BY <1>1 DEF WalkInv, At, Found
<1>3. target # At
  BY <1>2 DEF Found
<1>4. QED
  BY <1>1, <1>2, <1>3 DEF At

\* The lookup says found or not found only of what is, whatever the number of
\* pages, the length of the history, and the orders that arrive during the walk;
\* so a restart does not give up an order the venue has, unless a page is broken.
THEOREM LookupNeverLies == Spec => []LookupIsHonest
<1>1. Init => WalkInv
  <2> SUFFICES ASSUME Init PROVE WalkInv
    OBVIOUS
  <2>1. orders \in Nat /\ target \in 0..orders
    BY LookupAssumption DEF LookupAssumption, Init, LookupInit
  <2>2. QED
    BY <2>1 DEF Init, LookupInit, Walk, WalkInv, LookupIsHonest
<1>2. IInv /\ WalkInv /\ [Next]_vars => WalkInv'
  <2> SUFFICES ASSUME IInv, WalkInv, [Next]_vars PROVE WalkInv'
    OBVIOUS
  <2>0. /\ orders \in Nat /\ target \in Nat /\ walk \in Walks
        /\ walk.present \in BOOLEAN /\ walk.broken \in BOOLEAN
    BY DEF IInv, TypeInv, Walks
  <2>1. ASSUME UNCHANGED walk, UNCHANGED target, UNCHANGED onWire, orders' \in Nat, orders' >= orders
        PROVE WalkInv'
    BY <2>0, <2>1 DEF WalkInv, LookupIsHonest
  <2>2. ASSUME NEW c \in Callers, ToolCall(c) PROVE WalkInv'
    BY <2>0, <2>1, <2>2 DEF ToolCall, submitOrder, cancelOrder, gateVars, lookupVars
  <2>3. ASSUME NEW c \in Callers, findOrderByClientOrderId(c) PROVE WalkInv'
    <3>1. UNCHANGED <<orders, target, onWire>>
      BY <2>3 DEF findOrderByClientOrderId, gateVars
    <3>2. CASE Begin(c)
      BY <3>1, <3>2, BeginKeepsHonesty DEF Begin
    <3>3. CASE UNCHANGED walk
      BY <2>0, <2>1, <3>1, <3>3
    <3>4. QED
      BY <2>3, <3>2, <3>3 DEF findOrderByClientOrderId
  <2>4. ASSUME NEW c \in Callers, UNCHANGED lookupVars,
               Priced(c) \/ AccountRead(c) \/ Posted(c) \/ Cancelled(c) \/ CallFails(c)
        PROVE WalkInv'
    BY <2>0, <2>1, <2>4 DEF Priced, AccountRead, Posted, Cancelled, CallFails, gateVars, lookupVars
  <2>5. ASSUME NEW c \in Callers, WalkAccountRead(c) PROVE WalkInv'
    <3>1. "error" \in Verdicts
      BY DEF Verdicts
    <3>2. QED
      BY <2>0, <2>5, <3>1, BeginKeepsHonesty, EndKeepsHonesty
      DEF WalkAccountRead, Begin, Concludes
  <2>6. ASSUME NEW c \in Callers, ReadPage(c) PROVE WalkInv'
    <3>1. UNCHANGED <<orders, target, onWire>>
      BY <2>6 DEF ReadPage, gateVars
    <3>2. At \in Nat /\ (Found => target > 0)
      BY <2>0 DEF At, Found, WalkInv, Walks
    <3>3. CASE At > 1 /\ Turn(c, At - 1, walk.broken)
      <4>1. /\ walk'.present = walk.present /\ walk'.broken = walk.broken
            /\ walk'.found = Found /\ walk'.at = At - 1 /\ walk'.verdict = walk.verdict
        BY <2>0, <3>3 DEF Turn, Walks
      <4>2. walk.present /\ ~walk.broken /\ ~Found => target <= At - 1
        BY <2>0, <3>2, PageIsBefore
      <4>3. QED
        BY <3>1, <3>2, <4>1, <4>2 DEF WalkInv, LookupIsHonest
    <3>4. CASE ~(At > 1 /\ walk.pages + 1 < MaxPages)
               /\ Concludes(c, Verdict(Found, At > 1), walk.broken)
      <4>1. Found \in BOOLEAN /\ (At > 1) \in BOOLEAN
        BY <2>0 DEF Found, Walks
      <4>2. Verdict(Found, At > 1) = "found" => target > 0
        BY <3>2 DEF Verdict
      <4>3. Verdict(Found, At > 1) = "not_found" /\ ~walk.broken => ~walk.present
        <5>1. SUFFICES ASSUME ~Found, ~(At > 1), ~walk.broken, walk.present PROVE FALSE
          BY DEF Verdict
        <5>2. target > 0 /\ target < At
          BY <5>1, PageIsBefore
        <5>3. QED
          BY <2>0, <3>2, <5>1, <5>2
      <4>4. Verdict(Found, At > 1) \in Verdicts
        BY <4>1, VerdictsAreTyped
      <4>5. QED
        BY <2>0, <3>1, <3>4, <4>2, <4>3, <4>4, EndKeepsHonesty DEF Concludes
    <3>5. QED
      BY <2>6, <3>3, <3>4 DEF ReadPage
  <2>7. ASSUME NEW c \in Callers, BrokenPage(c) PROVE WalkInv'
    <3>1. PICK found \in {Found, FALSE} : Concludes(c, Verdict(found, FALSE), TRUE)
      BY <2>7 DEF BrokenPage
    <3>2. found \in BOOLEAN /\ (found => target > 0)
      BY <2>0, <3>1 DEF Found, WalkInv, Walks
    <3>3. /\ Verdict(found, FALSE) \in Verdicts
          /\ Verdict(found, FALSE) = "found" => target > 0
      BY <3>2, VerdictsAreTyped DEF Verdict
    <3>4. QED
      BY <2>7, <3>1, <3>3, EndKeepsHonesty DEF BrokenPage, Concludes, gateVars
  <2>8. ASSUME NEW c \in Callers, StrayPage(c) PROVE WalkInv'
    <3>1. PICK at \in 1..orders : Turn(c, at, TRUE)
      BY <2>8 DEF StrayPage
    <3>2. /\ walk'.present = walk.present /\ walk'.broken /\ walk'.found = Found
          /\ walk'.verdict = walk.verdict
      BY <2>0, <3>1 DEF Turn, Walks
    <3>3. Found => target > 0
      BY <2>0 DEF Found, WalkInv, Walks
    <3>4. QED
      BY <2>8, <3>2, <3>3 DEF StrayPage, gateVars, WalkInv, LookupIsHonest
  <2>9. ASSUME NEW c \in Callers, WalkFails(c) PROVE WalkInv'
    <3>1. "error" \in Verdicts
      BY DEF Verdicts
    <3>2. QED
      BY <2>0, <2>9, <3>1, EndKeepsHonesty DEF WalkFails, Concludes, gateVars
  <2>10. ASSUME NEW c \in Callers, Attempt(c) PROVE WalkInv'
    BY <2>0, <2>1, <2>10
    DEF Attempt, OrderAnswered, AnswerLost, Accept, gateVars, lookupVars
  <2>11. ASSUME NEW c \in Callers, Wait(c) PROVE WalkInv'
    BY <2>0, <2>1, <2>11 DEF Wait, gateVars, lookupVars
  <2>12. ASSUME Fill PROVE WalkInv'
    BY <2>0, <2>1, <2>12 DEF Fill, gateVars, lookupVars
  <2>13. ASSUME Late PROVE WalkInv'
    <3>1. target' = orders' /\ orders' = orders + 1 /\ ~onWire' /\ walk' = walk
      BY <2>13 DEF Late, ArrivesLate
    <3>2. ~walk.present /\ ~walk.found
      BY <2>0, <2>13 DEF Late, ArrivesLate, WalkInv
    <3>3. QED
      BY <2>0, <3>1, <3>2 DEF WalkInv, LookupIsHonest
  <2>14. ASSUME UNCHANGED vars PROVE WalkInv'
    BY <2>0, <2>1, <2>14 DEF vars, gateVars, lookupVars
  <2>15. QED
    BY <2>2, <2>3, <2>4, <2>5, <2>6, <2>7, <2>8, <2>9, <2>10, <2>11, <2>12, <2>13, <2>14
    DEF Next, GoOn, Resume
<1>3. WalkInv => LookupIsHonest
  BY DEF WalkInv
<1>4. QED
  BY <1>1, <1>2, <1>3, InductiveTypes, PTL DEF Spec
-----------------------------------------------------------------------------
(***************************************************************************)
(* How far the venue can be ahead of the ledger.                           *)
(***************************************************************************)
\* What the venue has taken of the order of a caller that has not counted it yet.
Taken == [c \in Callers |->
            IF task[c] = "posting" /\ req[c].stage = "answered" THEN worth[c] ELSE 0]

\* The cap, and one order of every caller but one.
Allowance == MaxDailyUsd + (Cardinality(Callers) - 1) * MaxOrderUsd

\* An order counts against the allowance from the check of the cap until it is
\* given up or in the ledger. The caller that passed the check last found the
\* ledger and its own order within the cap: each of the others adds one order at
\* most. What the venue took is in the ledger, lost, or about to be counted.
SpendInv ==
  /\ spent + SumFunctionOnSet(worth, Callers) <= Allowance
  /\ ordered <= spent + lost + SumFunctionOnSet(Taken, Callers)

\* What is added up is made of whole numbers.
Amounts ==
  /\ \A c \in Callers : worth[c] \in Nat /\ worth[c] <= MaxOrderUsd
  /\ \A c \in Callers : Taken[c] \in Nat
  /\ SumFunctionOnSet(worth, Callers) \in Nat
  /\ SumFunctionOnSet(Taken, Callers) \in Nat
  /\ SumFunctionOnSet(Taken, Callers) <= SumFunctionOnSet(worth, Callers)
  /\ spent \in Nat /\ ordered \in Nat /\ lost \in Nat

\* What is in flight adds up to a number, and no more is taken than was sent.
LEMMA AmountsAreTyped == IInv => Amounts
<1> SUFFICES ASSUME IInv PROVE Amounts
  OBVIOUS
<1>0. worth \in [Callers -> 0 .. MaxOrderUsd] /\ MaxOrderUsd \in Nat
  BY GateAssumption DEF GateAssumption, IInv, TypeInv
<1>1. \A c \in Callers : worth[c] \in Nat /\ worth[c] <= MaxOrderUsd
  BY <1>0
<1>2. ASSUME NEW c \in Callers
      PROVE  Taken[c] \in Nat /\ Taken[c] <= worth[c]
  <2>1. Taken[c] = worth[c] \/ Taken[c] = 0
    BY DEF Taken
  <2>2. worth[c] \in Nat
    BY <1>1
  <2> QED BY <2>1, <2>2
<1>3. IsFiniteSet(Callers)
  BY GatewayAssumption DEF GatewayAssumption
<1>4. /\ SumFunctionOnSet(worth, Callers) \in Nat
      /\ SumFunctionOnSet(Taken, Callers) \in Nat
  BY <1>1, <1>2, <1>3, SumType
<1>5. SumFunctionOnSet(Taken, Callers) <= SumFunctionOnSet(worth, Callers)
  BY <1>1, <1>2, <1>3, SumMonotone
<1> QED BY <1>1, <1>2, <1>4, <1>5 DEF Amounts, IInv, TypeInv

\* The allowance is a number, and at least the cap: the reconciler is a caller.
LEMMA AllowanceIsTyped ==
  /\ MaxDailyUsd \in Nat /\ MaxOrderUsd \in Nat /\ IsFiniteSet(Callers)
  /\ Cardinality(Callers) \in Nat \ {0}
  /\ Allowance \in Nat /\ MaxDailyUsd <= Allowance
<1>1. Cardinality(Callers) \in Nat \ {0}
  BY GatewayAssumption, LookupAssumption, FS_CardinalityType, FS_EmptySet
  DEF GatewayAssumption, LookupAssumption
<1>2. MaxDailyUsd \in Nat /\ MaxOrderUsd \in Nat
  BY GateAssumption DEF GateAssumption
<1>3. \A m, n \in Nat : m * n \in Nat
  OBVIOUS
<1>4. Cardinality(Callers) - 1 \in Nat
  BY <1>1
<1>5. (Cardinality(Callers) - 1) * MaxOrderUsd \in Nat
  BY <1>2, <1>3, <1>4
<1> QED BY <1>1, <1>2, <1>5, GatewayAssumption DEF Allowance, GatewayAssumption

\* A step of c changes only what c has in flight. It keeps the sum of that and
\* the ledger, or was checked against the cap; and nothing is taken uncounted.
Accounts(c) ==
  /\ \A d \in Callers \ {c} : worth'[d] = worth[d] /\ Taken'[d] = Taken[d]
  /\ \/ spent' + worth'[c] <= spent + worth[c]
     \/ spent' + worth'[c] <= MaxDailyUsd
  /\ ordered' + spent + lost + Taken[c] <= ordered + spent' + lost' + Taken'[c]

\* Such a step keeps the bound, whatever the other callers have in flight.
LEMMA OneCallerKeepsSpend ==
  ASSUME IInv, IInv', SpendInv, NEW c \in Callers, Accounts(c)
  PROVE  SpendInv'
<1> DEFINE W == SumFunctionOnSet(worth, Callers)
           V == SumFunctionOnSet(worth', Callers)
           T == SumFunctionOnSet(Taken, Callers)
           U == SumFunctionOnSet(Taken', Callers)
           R == SumFunctionOnSet(worth', Callers \ {c})
<1>1. Amounts /\ Amounts'
  BY AmountsAreTyped, PTL
<1>1a. /\ W \in Nat /\ V \in Nat /\ T \in Nat /\ U \in Nat
       /\ worth[c] \in Nat /\ worth'[c] \in Nat /\ Taken[c] \in Nat /\ Taken'[c] \in Nat
       /\ spent \in Nat /\ spent' \in Nat /\ ordered \in Nat /\ ordered' \in Nat
       /\ lost \in Nat /\ lost' \in Nat
  BY <1>1 DEF Amounts
<1>1b. /\ \A d \in Callers : worth[d] \in Nat /\ worth'[d] \in Nat
       /\ \A d \in Callers : Taken[d] \in Nat /\ Taken'[d] \in Nat
       /\ \A d \in Callers : worth'[d] \in 0 .. MaxOrderUsd
  BY <1>1, AllowanceIsTyped DEF Amounts
<1>2. V + worth[c] = W + worth'[c]
  BY <1>1a, <1>1b, AllowanceIsTyped, SumUpdate DEF Accounts
<1>3. U + Taken[c] = T + Taken'[c]
  BY <1>1a, <1>1b, AllowanceIsTyped, SumUpdate DEF Accounts
<1>4. V = worth'[c] + R /\ R \in Nat /\ R <= (Cardinality(Callers) - 1) * MaxOrderUsd
  <2>1. IsFiniteSet(Callers \ {c}) /\ Cardinality(Callers \ {c}) = Cardinality(Callers) - 1
    BY AllowanceIsTyped, FS_RemoveElement
  <2>2. V = worth'[c] + R
    BY <1>1a, <1>1b, AllowanceIsTyped, SumRemove
  <2>3. R \in Nat
    BY <1>1a, <1>1b, <2>1, SumType
  <2>4. R <= Cardinality(Callers \ {c}) * MaxOrderUsd
    BY <1>1a, <1>1b, <2>1, AllowanceIsTyped, SumBound
  <2> QED BY <2>1, <2>2, <2>3, <2>4
<1>5. spent + W <= Allowance /\ ordered <= spent + lost + T
  BY DEF SpendInv
<1> DEFINE Q == (Cardinality(Callers) - 1) * MaxOrderUsd
<1>6. Allowance = MaxDailyUsd + Q /\ Allowance \in Nat /\ MaxDailyUsd \in Nat
  BY AllowanceIsTyped DEF Allowance
<1> HIDE DEF W, V, T, U, R, Q
<1>7. spent' + V <= Allowance
  <2>1. Q \in Int
    BY <1>6, AllowanceIsTyped DEF Q
  <2>2. CASE spent' + worth'[c] <= spent + worth[c]
    BY <1>1a, <1>1b, <1>2, <1>5, <1>6, <2>2
  <2>3. CASE spent' + worth'[c] <= MaxDailyUsd
    <3>1. R <= Q
      BY <1>4 DEF Q
    <3> QED BY <1>1a, <1>1b, <1>4, <1>6, <2>1, <2>3, <3>1
  <2> QED BY <2>2, <2>3 DEF Accounts
<1>8. ordered' <= spent' + lost' + U
  <2> DEFINE before == ordered - spent - lost
             t == Taken[c]
             u == Taken'[c]
             o == ordered'
             s == spent'
             l == lost'
  <2>1. /\ before \in Int /\ t \in Nat /\ u \in Nat
        /\ o \in Nat /\ s \in Nat /\ l \in Nat /\ T \in Nat /\ U \in Nat
    BY <1>1a
  <2>2. o - s - l + t <= before + u
    BY <1>1a DEF Accounts
  <2>3. U + t = T + u /\ before <= T
    BY <1>1a, <1>3, <1>5
  <2> HIDE DEF before, o, s, l, t, u
  <2>4. o <= s + l + U
    BY <2>1, <2>2, <2>3
  <2> QED BY <2>4 DEF o, s, l
<1>9. Allowance' = Allowance
  BY DEF Allowance
<1> QED BY <1>7, <1>8, <1>9 DEF SpendInv, V, U


\* A step of c that neither the venue nor the ledger sees.
Uncounted(c) ==
  /\ \A d \in Callers \ {c} : task'[d] = task[d] /\ req'[d] = req[d] /\ worth'[d] = worth[d]
  /\ UNCHANGED <<spent, ordered, lost>>
  /\ task[c] # "posting" \/ req[c].stage # "answered"
  /\ \/ worth'[c] = worth[c]
     \/ spent + worth'[c] <= MaxDailyUsd
     \/ worth'[c] = 0

\* A step that neither sees is one that accounts for what it does.
LEMMA UncountedAccounts ==
  ASSUME IInv, IInv', NEW c \in Callers, Uncounted(c)
  PROVE  Accounts(c)
<1>1. Amounts /\ Amounts'
  BY AmountsAreTyped, PTL
<1>2. /\ spent \in Nat /\ ordered \in Nat /\ lost \in Nat /\ Taken[c] \in Nat
      /\ worth[c] \in Nat /\ worth'[c] \in Nat /\ Taken'[c] \in Nat
  BY <1>1 DEF Amounts
<1>3. \A d \in Callers \ {c} : worth'[d] = worth[d] /\ Taken'[d] = Taken[d]
  BY DEF Uncounted, Taken
<1>4. Taken[c] = 0
  BY DEF Uncounted, Taken
<1>5. \/ spent' + worth'[c] <= spent + worth[c]
      \/ spent' + worth'[c] <= MaxDailyUsd
  BY <1>2 DEF Uncounted
<1>6. ordered' + spent + lost + Taken[c] <= ordered + spent' + lost' + Taken'[c]
  <2> DEFINE t == Taken'[c]
  <2>1. t \in Nat /\ ordered' = ordered /\ spent' = spent /\ lost' = lost
    BY <1>2 DEF Uncounted
  <2> HIDE DEF t
  <2>2. ordered + spent + lost + 0 <= ordered + spent + lost + t
    BY <1>2, <2>1
  <2> QED BY <1>4, <2>1, <2>2 DEF t
<1> QED BY <1>3, <1>5, <1>6 DEF Accounts

\* An order that is priced and checked waits to be sent, within the cap.
LEMMA SubmitIsUncounted ==
  ASSUME IInv, NEW c \in Callers, NEW r \in Requests, NEW price \in Nat,
         Submit(c, r, price), UNCHANGED <<spent, ordered, lost>>,
         task[c] # "posting"
  PROVE  Uncounted(c)
<1>0. /\ task \in [Callers -> Tasks] /\ worth \in [Callers -> 0..MaxOrderUsd]
      /\ req \in [Callers -> [stage : Stages, left : 0..GetRetries]]
  BY DEF IInv, TypeInv
<1>1. \/ worth' = worth
      \/ /\ worth' = [worth EXCEPT ![c] = Notional(r, price)]
         /\ spent + Notional(r, price) <= MaxDailyUsd
  BY DEF Submit, assertAllowed, WithinDailyCap
<1>2. \/ Call(c, "posting", Post) \/ Call(c, "account", Get) \/ Call(c, "idle", NoRequest)
  BY DEF Submit, Return
<1> QED BY <1>0, <1>1, <1>2 DEF Uncounted, Call

\* Every step of every caller keeps the bound: those of the executor, which
\* check and count, those of a walk of the history and those of the client.
LEMMA SpendIsInductive ==
  ASSUME IInv, IInv', SpendInv, [Next]_vars
  PROVE  SpendInv'
<1>0. /\ task \in [Callers -> Tasks] /\ worth \in [Callers -> 0..MaxOrderUsd]
      /\ req \in [Callers -> [stage : Stages, left : 0..GetRetries]]
      /\ spent \in Nat /\ ordered \in Nat /\ lost \in Nat /\ MaxOrderUsd \in Nat
  BY AllowanceIsTyped DEF IInv, TypeInv
<1>1. ASSUME NEW c \in Callers, ToolCall(c) PROVE Accounts(c)
  <2>1. CASE \E r \in Requests : submitOrder(c, r)
    <3>1. PICK r \in Requests : submitOrder(c, r)
      BY <2>1
    <3>2. task[c] # "posting" /\ UNCHANGED <<spent, ordered, lost>>
      BY <3>1 DEF submitOrder, Arrive
    <3>3. CASE Submit(c, r, 0)
      <4>1. Uncounted(c)
        BY <3>2, <3>3, SubmitIsUncounted
      <4> QED BY <4>1, UncountedAccounts
    <3>4. CASE UNCHANGED worth /\ (Return(c) \/ Call(c, "pricing", Get))
      <4>1. Uncounted(c)
        BY <1>0, <3>2, <3>4 DEF Uncounted, Return, Call
      <4> QED BY <4>1, UncountedAccounts
    <3> QED BY <3>1, <3>3, <3>4 DEF submitOrder
  <2>2. CASE cancelOrder(c)
    <3>1. Uncounted(c)
      BY <1>0, <2>2 DEF Uncounted, cancelOrder, Arrive, Call, gateVars
    <3> QED BY <3>1, UncountedAccounts
  <2> QED BY <1>1, <2>1, <2>2 DEF ToolCall
<1>2. ASSUME NEW c \in Callers, Priced(c) PROVE Accounts(c)
  <2>1. PICK price \in Prices : Submit(c, want[c], price)
    BY <1>2 DEF Priced
  <2>2. want[c] \in Requests /\ price \in Nat
    BY <1>2, GateAssumption DEF GateAssumption, Priced, Waits, IInv, PricingInv
  <2>3. task[c] # "posting" /\ UNCHANGED <<spent, ordered, lost>>
    BY <1>2 DEF Priced, Waits
  <2>4. Uncounted(c)
    BY <2>1, <2>2, <2>3, SubmitIsUncounted
  <2> QED BY <2>4, UncountedAccounts
<1>3. ASSUME NEW c \in Callers, AccountRead(c) PROVE Accounts(c)
  <2>1. Uncounted(c)
    BY <1>0, <1>3 DEF Uncounted, AccountRead, Waits, Return, Call
  <2> QED BY <2>1, UncountedAccounts
<1>4. ASSUME NEW c \in Callers, Posted(c) PROVE Accounts(c)
  <2>1. Amounts /\ Amounts'
    BY AmountsAreTyped, PTL
  <2>2. Taken[c] = worth[c] /\ Taken'[c] = 0 /\ worth[c] \in Nat /\ worth'[c] = 0
    BY <1>0, <1>4 DEF Taken, Posted, Waits, Return, Call
  <2>3. \A d \in Callers \ {c} : worth'[d] = worth[d] /\ Taken'[d] = Taken[d]
    BY <1>0, <1>4 DEF Taken, Posted, Return, Call
  <2>4. spent' = spent + worth[c] /\ ordered' = ordered /\ lost' = lost
    BY <1>4 DEF Posted, Recorded
  <2> DEFINE w == worth[c]
  <2>5. /\ spent + w + 0 <= spent + w
        /\ ordered + spent + lost + w <= ordered + (spent + w) + lost + 0
    <3>1. w \in Nat
      BY <2>2
    <3> HIDE DEF w
    <3> QED BY <1>0, <3>1
  <2> QED BY <2>2, <2>3, <2>4, <2>5 DEF Accounts
<1>5. ASSUME NEW c \in Callers, Cancelled(c) \/ CallFails(c) PROVE Accounts(c)
  <2>1. Uncounted(c)
    BY <1>0, <1>5 DEF Uncounted, Cancelled, CallFails, Waits, Return, Call, gateVars
  <2> QED BY <2>1, UncountedAccounts
<1>6. ASSUME NEW c \in Callers,
             \/ WalkAccountRead(c) \/ ReadPage(c) \/ BrokenPage(c) \/ StrayPage(c) \/ WalkFails(c)
             \/ findOrderByClientOrderId(c)
      PROVE  Accounts(c)
  <2>1. task[c] # "posting" /\ UNCHANGED <<worth, spent, ordered, lost>>
    BY <1>6 DEF WalkAccountRead, ReadPage, BrokenPage, StrayPage, WalkFails,
                findOrderByClientOrderId, Arrive, Waits, gateVars
  <2>2. \E next \in Tasks : \E request \in {NoRequest, Get} : Call(c, next, request)
    BY <1>6 DEF WalkAccountRead, ReadPage, BrokenPage, StrayPage, WalkFails, Begin, Turn,
                findOrderByClientOrderId, Concludes, Return, Tasks
  <2>3. Uncounted(c)
    BY <1>0, <2>1, <2>2 DEF Uncounted, Call
  <2> QED BY <2>3, UncountedAccounts
<1>7. ASSUME NEW c \in Callers, OrderAnswered(c) \/ AnswerLost(c),
             UNCHANGED <<worth, spent, task>>
      PROVE  Accounts(c)
  <2>1. Amounts /\ Amounts'
    BY AmountsAreTyped, PTL
  <2>2. /\ task[c] = "posting" /\ req[c].stage = "flying"
        /\ ordered' = ordered + worth[c]
        /\ \/ req'[c].stage = "answered" /\ lost' = lost
           \/ req'[c].stage = "failed" /\ lost' = lost + worth[c]
    BY <1>0, <1>7 DEF OrderAnswered, AnswerLost, Accept, Answer, Fail, Ends
  <2>3. \A d \in Callers \ {c} : worth'[d] = worth[d] /\ Taken'[d] = Taken[d]
    BY <1>0, <1>7 DEF Taken, OrderAnswered, AnswerLost, Accept, Answer, Fail, Ends
  <2> DEFINE w == worth[c]
  <2>4. /\ Taken[c] = 0 /\ worth'[c] = w /\ w \in Nat
        /\ \/ Taken'[c] = w /\ lost' = lost
           \/ Taken'[c] = 0 /\ lost' = lost + w
    BY <1>0, <1>7, <2>2 DEF Taken
  <2>5. /\ spent + w <= spent + w
        /\ (ordered + w) + spent + lost + 0 <= ordered + spent + lost + w
        /\ (ordered + w) + spent + lost + 0 <= ordered + spent + (lost + w) + 0
    <3>1. w \in Nat
      BY <2>4
    <3> HIDE DEF w
    <3> QED BY <1>0, <3>1
  <2> QED BY <1>7, <2>2, <2>3, <2>4, <2>5 DEF Accounts
<1>8. ASSUME NEW c \in Callers,
             \/ task[c] # "posting" /\ Answer(c)
             \/ Fail(c) \/ Retry(c) \/ TakeToken(c) \/ Wake(c),
             UNCHANGED <<task, worth, spent, ordered, lost>>
      PROVE  Accounts(c)
  <2>1. req[c].stage # "answered" \/ task[c] # "posting"
    BY <1>8 DEF Fail, Retry, TakeToken, Wake, Becomes, Ends
  <2>2. \A d \in Callers \ {c} : req'[d] = req[d]
    BY <1>0, <1>8 DEF Answer, Fail, Retry, TakeToken, Wake, Becomes, Ends
  <2>3. Uncounted(c)
    BY <1>8, <2>1, <2>2 DEF Uncounted
  <2> QED BY <2>3, UncountedAccounts
<1>9. ASSUME UNCHANGED <<task, req, worth, spent, ordered, lost>> PROVE SpendInv'
  BY <1>9 DEF SpendInv, Allowance, Taken
<1>10. ASSUME \E c \in Callers : Accounts(c) PROVE SpendInv'
  BY <1>10, OneCallerKeepsSpend
<1>11. CASE Fill \/ Late \/ UNCHANGED vars
  BY <1>9, <1>11 DEF Fill, Refill, Late, vars, gateVars
<1>12. ASSUME NEW c \in Callers, GoOn(c) PROVE Accounts(c)
  <2>1. CASE Resume(c)
    BY <1>2, <1>3, <1>4, <1>5, <1>6, <2>1 DEF Resume
  <2>2. CASE Attempt(c)
    BY <1>7, <1>8, <2>2 DEF Attempt, gateVars
  <2>3. CASE Wait(c)
    BY <1>8, <2>3 DEF Wait, gateVars
  <2> QED BY <1>12, <2>1, <2>2, <2>3 DEF GoOn
<1> QED BY <1>1, <1>6, <1>10, <1>11, <1>12 DEF Next

\* Whatever the callers do between the check of the daily cap and the entry in
\* the ledger, the venue takes at most the cap, one order of every other caller,
\* and the orders whose answers were lost.
THEOREM SpendStaysBounded == Spec => []SpendIsBounded
<1>1. Init => SpendInv
  <2> SUFFICES ASSUME Init PROVE SpendInv
    OBVIOUS
  <2>1. /\ \A c \in Callers : worth[c] = 0 /\ Taken[c] = 0
        /\ spent = 0 /\ ordered = 0 /\ lost = 0
    BY DEF Init, GateInit, Taken
  <2>2. ASSUME NEW c \in Callers PROVE worth[c] \in 0..0 /\ Taken[c] \in Nat /\ worth[c] \in Nat
    <3>1. worth[c] = 0 /\ Taken[c] = 0
      BY <2>1
    <3>2. 0 \in 0..0 /\ 0 \in Nat
      OBVIOUS
    <3>3. QED
      BY <3>1, <3>2, Zenon
  <2>3. SumFunctionOnSet(worth, Callers) \in Nat /\ SumFunctionOnSet(Taken, Callers) \in Nat
    BY <2>2, AllowanceIsTyped, SumType
  <2>4. SumFunctionOnSet(worth, Callers) <= Cardinality(Callers) * 0
    <3>1. IsFiniteSet(Callers) /\ 0 \in Nat
      BY AllowanceIsTyped
    <3>2. QED
      BY <2>2, <3>1, SumBound
  <2>5. SumFunctionOnSet(worth, Callers) = 0
    BY <2>3, <2>4, AllowanceIsTyped
  <2>6. QED
    BY <2>1, <2>3, <2>5, AllowanceIsTyped DEF SpendInv
<1>2. IInv /\ IInv' /\ SpendInv /\ [Next]_vars => SpendInv'
  BY SpendIsInductive
<1>3. IInv /\ SpendInv => SpendIsBounded
  <2> SUFFICES ASSUME IInv, SpendInv PROVE SpendIsBounded
    OBVIOUS
  <2> DEFINE W == SumFunctionOnSet(worth, Callers)
             T == SumFunctionOnSet(Taken, Callers)
             Q == (Cardinality(Callers) - 1) * MaxOrderUsd
  <2>1. /\ W \in Nat /\ T \in Nat /\ T <= W
        /\ spent \in Nat /\ ordered \in Nat /\ lost \in Nat
    BY AmountsAreTyped DEF Amounts
  <2>2. MaxDailyUsd \in Nat /\ Q \in Nat
    <3>1. Cardinality(Callers) - 1 \in Nat /\ MaxOrderUsd \in Nat
      BY AllowanceIsTyped
    <3>2. \A m, n \in Nat : m * n \in Nat
      OBVIOUS
    <3>3. QED
      BY <3>1, <3>2, AllowanceIsTyped
  <2>3. spent + W <= MaxDailyUsd + Q /\ ordered <= spent + lost + T
    BY DEF SpendInv, Allowance
  <2> HIDE DEF W, T, Q
  <2>4. ordered <= MaxDailyUsd + lost + Q
    BY <2>1, <2>2, <2>3
  <2>5. QED
    BY <2>4 DEF SpendIsBounded, Q
<1>4. QED
  BY <1>1, <1>2, <1>3, InductiveTypes, PTL DEF Spec
=============================================================================
