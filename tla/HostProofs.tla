----------------------------- MODULE HostProofs -----------------------------
(***************************************************************************)
(* What the engine keeps of one job whatever its strategy is: the protocol *)
(* of the intents and the orders, which the theorems about the strategies  *)
(* rest on.                                                                *)
(***************************************************************************)
EXTENDS StrategyHost, SumLemmas, TLAPS

\* No strategy submits an order of nothing.
Sendable == {a \in Action : a.type = "submit" => a.request.size > 0}

Endings == {NotDone} \union [status : {"completed", "failed"}, reason : BOOLEAN]

HostTypes ==
  /\ strategy \in Strategies
  /\ status \in JobStatus
  /\ lastError \in BOOLEAN
  /\ intent \in [Legs -> {"none"} \union IntentStatus]
  /\ engaged \in BOOLEAN /\ pausedByHalt \in BOOLEAN
  /\ pc \in {"down", "idle", "called", "acting", "reserved", "sent"}
  /\ row \in [status : {"pending", "running"}, lastError : BOOLEAN]
  /\ actions \in Seq(Sendable)
  /\ done \in Endings
  /\ order \in [Legs -> OrderStatus]
  /\ request \in [Legs -> Request]
  /\ filled \in [Legs -> Nat]
  /\ cancelSent \in SUBSET Legs
  /\ read \in SUBSET Legs
  /\ crashes \in 0 .. MaxCrashes
  /\ disturbed \in SUBSET {"crash", "halt", "outside"}

\* What the intent says of an order, and the order of what has been filled of it.
LegInv(l) ==
  /\ intent[l] = "none" => order[l] = "absent"
  /\ intent[l] = "submitted" => order[l] \in Accepted
  /\ order[l] = "absent" => request[l] = NoRequest
  /\ order[l] # "absent" => request[l].size > 0
  /\ order[l] \in {"absent", "wire", "refused"} => filled[l] = 0
  /\ order[l] = "live" => filled[l] < request[l].size /\ ~request[l].market
  /\ order[l] = "filled" => filled[l] = request[l].size
  /\ order[l] = "cancelled" => l \in cancelSent \/ "outside" \in disturbed
  /\ filled[l] <= request[l].size

\* An id is reserved before its order is sent, and only for the action at hand;
\* there are no actions but those of the step being performed.
ProcessInv ==
  /\ pc \in {"down", "idle", "called"} => actions = <<>> /\ done = NotDone
  /\ pc \in {"reserved", "sent"} =>
       actions # <<>> /\ Head(actions).type = "submit" /\ intent[Leg] = "pending"
  /\ pc = "reserved" => order[Leg] = "absent"

HostInv == HostTypes /\ ProcessInv /\ \A l \in Legs : LegInv(l)

\* The step a strategy gives back, as far as the engine looks at it.
Stepped ==
  /\ pc = "called" /\ pc' = "acting"
  /\ UpdateIsLegal(status, "running") /\ status' = "running"
  /\ lastError' = FALSE
  /\ UNCHANGED <<strategy, intent, engaged, pausedByHalt, row, upstream, history>>

\* Every job begins with nothing sent and nothing to do.
LEMMA HostBegins == ASSUME HostInit, strategy \in Strategies PROVE HostInv
<1> USE DEF HostInit
<1>1. HostTypes
  <2>1. /\ NoRequest \in Request /\ NotDone \in Endings /\ <<>> \in Seq(Sendable)
        /\ NoRow \in [status : {"pending", "running"}, lastError : BOOLEAN]
        /\ 0 \in 0 .. MaxCrashes
    BY StrategyHostAssumption
    DEF StrategyHostAssumption, NoRequest, Request, Limit, Sides, NotDone, Endings, NoRow
  <2>2. QED
    BY <2>1 DEF HostTypes, JobStatus, OrderStatus
<1>2. ProcessInv
  BY DEF ProcessInv
<1>3. \A l \in Legs : LegInv(l)
  BY DEF LegInv, NoRequest, Limit
<1>4. QED
  BY <1>1, <1>2, <1>3 DEF HostInv

\* The action at hand and the ones after it are as typed as the sequence.
LEMMA ActionsAreTyped ==
  ASSUME HostTypes, actions # <<>>
  PROVE  /\ Head(actions) \in Sendable
         /\ Leg \in Legs /\ Head(actions).request \in Request
         /\ Tail(actions) \in Seq(Sendable)
<1>1. actions \in Seq(Sendable)
  BY DEF HostTypes
<1>2. Head(actions) \in Sendable /\ Tail(actions) \in Seq(Sendable)
  BY <1>1
<1>3. QED
  BY <1>2 DEF Sendable, Action, Leg

\* The step of a strategy keeps the protocol if what it gives back has its types.
LEMMA StepKeepsHost ==
  ASSUME HostInv, Stepped, actions' \in Seq(Sendable), done' \in Endings,
         read' \in SUBSET Legs
  PROVE  HostInv'
<1> USE DEF HostInv, Stepped, upstream, history
<1>1. HostTypes'
  BY DEF HostTypes, JobStatus
<1>2. ProcessInv'
  BY DEF ProcessInv
<1>3. \A l \in Legs : LegInv(l)'
  BY DEF LegInv
<1>4. QED
  BY <1>1, <1>2, <1>3

\* Robinhood changes one order, and the process does not see it.
LEMMA RobinhoodKeepsHost ==
  ASSUME HostInv, NEW l \in Legs,
         \/ Judge(l) \/ LoseRequest(l) \/ Fill(l) \/ CancelTakesEffect(l) \/ CancelledOutside(l)
  PROVE  HostInv'
<1> USE DEF HostInv
<1>0. /\ order \in [Legs -> OrderStatus] /\ request \in [Legs -> Request]
      /\ filled \in [Legs -> Nat] /\ request[l].size \in Nat
      /\ order[l] \in {"wire", "live"}
      /\ LegInv(l)
  BY DEF HostTypes, Request, Judge, LoseRequest, Fill, CancelTakesEffect, CancelledOutside
<1>1. /\ UNCHANGED <<database, memory, cancelSent, crashes>>
      /\ disturbed' \in {disturbed, disturbed \union {"outside"}}
      /\ \A k \in Legs \ {l} : /\ order'[k] = order[k] /\ request'[k] = request[k]
                               /\ filled'[k] = filled[k]
  BY <1>0
  DEF Judge, LoseRequest, Fill, CancelTakesEffect, CancelledOutside, Fills, OrderBecomes, history
<1>2. /\ order' \in [Legs -> OrderStatus]
      /\ request' \in [Legs -> Request]
      /\ filled' \in [Legs -> Nat]
      /\ read' \in SUBSET Legs
  <2>1. NoRequest \in Request
    BY DEF NoRequest, Request, Limit, Sides
  <2>2. \E s \in OrderStatus : OrderBecomes(l, s)
    BY DEF OrderStatus, Judge, LoseRequest, Fill, CancelTakesEffect, CancelledOutside, Fills
  <2>3. order' \in [Legs -> OrderStatus] /\ read' \in SUBSET Legs
    BY <1>0, <2>2 DEF OrderBecomes, HostTypes
  <2>4. request' = request \/ request' = [request EXCEPT ![l] = NoRequest]
    BY DEF Judge, LoseRequest, Fill, CancelTakesEffect, CancelledOutside, Fills
  <2>5. filled' = filled \/ \E n \in Nat : filled' = [filled EXCEPT ![l] = n]
    BY <1>0 DEF Judge, LoseRequest, Fill, CancelTakesEffect, CancelledOutside, Fills
  <2>6. request' \in [Legs -> Request] /\ filled' \in [Legs -> Nat]
    BY <1>0, <2>1, <2>4, <2>5
  <2>7. QED
    BY <2>3, <2>6
<1>3. LegInv(l)'
  <2>1. CASE Judge(l)
    BY <1>0, <1>1, <2>1 DEF Judge, Fills, OrderBecomes, LegInv, database, OrderStatus, Accepted
  <2>2. CASE LoseRequest(l)
    <3>1. /\ order[l] = "wire" /\ order'[l] = "absent" /\ request'[l] = NoRequest
          /\ filled' = filled /\ intent' = intent
      BY <1>0, <1>1, <2>2 DEF LoseRequest, OrderBecomes, database
    <3>2. filled'[l] = 0 /\ request'[l].size = 0 /\ intent'[l] # "submitted"
      BY <1>0, <3>1 DEF LegInv, NoRequest, Limit, Accepted
    <3>3. QED
      BY <3>1, <3>2 DEF LegInv, Accepted
  <2>3. CASE Fill(l)
    BY <1>0, <1>1, <2>3 DEF Fill, Fills, OrderBecomes, LegInv, database, Accepted
  <2>4. CASE CancelTakesEffect(l) \/ CancelledOutside(l)
    BY <1>0, <1>1, <2>4
    DEF CancelTakesEffect, CancelledOutside, OrderBecomes, LegInv, database, Accepted
  <2>5. QED
    BY <2>1, <2>2, <2>3, <2>4
<1>4. HostTypes'
  BY <1>1, <1>2 DEF HostTypes, database, memory
<1>5. ProcessInv'
  <2>1. actions' = actions /\ pc' = pc /\ done' = done /\ intent' = intent
    BY <1>1 DEF database, memory
  <2>2. ASSUME pc = "reserved" PROVE order'[Leg] = "absent"
    <3>1. actions # <<>> /\ order[Leg] = "absent"
      BY <2>2 DEF ProcessInv
    <3>2. Leg \in Legs /\ Leg # l
      BY <1>0, <3>1, ActionsAreTyped
    <3>3. QED
      BY <1>1, <3>1, <3>2
  <2>3. Leg' = Leg
    BY <2>1 DEF Leg
  <2>4. QED
    BY <2>1, <2>2, <2>3 DEF ProcessInv
<1>6. \A k \in Legs : LegInv(k)'
  BY <1>1, <1>3 DEF LegInv, database
<1>7. QED
  BY <1>4, <1>5, <1>6

\* The actions of a step are performed one by one, each under an id of its own.
LEMMA PerformKeepsHost ==
  ASSUME HostInv, Perform
  PROVE  HostInv'
<1> USE DEF HostInv
<1>0. /\ actions # <<>> /\ Head(actions) \in Sendable /\ Leg \in Legs
      /\ Head(actions).request \in Request /\ Tail(actions) \in Seq(Sendable)
      /\ pc \in {"acting", "reserved", "sent"}
  <2>1. actions # <<>> /\ pc \in {"acting", "reserved", "sent"}
    BY DEF ProcessInv, Perform, RefuseOrder, ReserveIntent, SendOrder, RefuseReserved,
           OrderRefused, AnswerLost, OrderAnswered, CancelOrder, CancelFails, Performing
  <2>2. QED
    BY <2>1, ActionsAreTyped
<1>1. PICK l \in Legs : l = Leg
  BY <1>0
<1>2. /\ intent \in [Legs -> {"none"} \union IntentStatus]
      /\ order \in [Legs -> OrderStatus] /\ request \in [Legs -> Request]
  BY DEF HostTypes
<1>3. ASSUME ActionFailed,
             UNCHANGED <<strategy, status, engaged, pausedByHalt, row, done, upstream, read,
                         history>>,
             \/ intent' = intent
             \/ /\ intent' = [intent EXCEPT ![l] = "failed"]
                /\ intent[l] = "pending"
      PROVE  HostInv'
  <2>1. HostTypes'
    BY <1>0, <1>1, <1>2, <1>3 DEF HostTypes, ActionFailed, upstream, history, IntentStatus
  <2>2. ProcessInv'
    BY <1>3 DEF ProcessInv, ActionFailed
  <2>3. \A k \in Legs : LegInv(k)'
    BY <1>0, <1>1, <1>2, <1>3 DEF LegInv, ActionFailed, upstream, history
  <2>4. QED
    BY <2>1, <2>2, <2>3
<1>4. CASE RefuseOrder \/ CancelFails
  BY <1>3, <1>4 DEF RefuseOrder, CancelFails
<1>5. CASE RefuseReserved \/ OrderRefused \/ AnswerLost
  <2>1. intent[l] = "pending"
    BY <1>1, <1>5 DEF RefuseReserved, OrderRefused, AnswerLost, ProcessInv
  <2>2. QED
    BY <1>1, <1>3, <1>5, <2>1 DEF RefuseReserved, OrderRefused, AnswerLost, SettleFailed
<1>6. CASE ReserveIntent
  <2>1. HostTypes'
    BY <1>0, <1>1, <1>2, <1>6 DEF ReserveIntent, HostTypes, upstream, history, IntentStatus
  <2>2. ProcessInv'
    BY <1>0, <1>1, <1>2, <1>6 DEF ReserveIntent, Performing, ProcessInv, LegInv, upstream, Leg
  <2>3. \A k \in Legs : LegInv(k)'
    BY <1>0, <1>1, <1>2, <1>6 DEF ReserveIntent, LegInv, upstream, history
  <2>4. QED
    BY <2>1, <2>2, <2>3
<1>7. CASE SendOrder
  <2>0. intent[l] = "pending" /\ order[l] = "absent" /\ Head(actions).request.size > 0
    BY <1>0, <1>1, <1>7 DEF SendOrder, ProcessInv, Sendable
  <2>1. HostTypes'
    BY <1>0, <1>1, <1>2, <1>7 DEF SendOrder, HostTypes, OrderStatus, database, history
  <2>2. ProcessInv'
    BY <1>0, <1>1, <1>2, <1>7, <2>0 DEF SendOrder, ProcessInv, database, Leg
  <2>3. \A k \in Legs : LegInv(k)'
    <3>1. ASSUME NEW k \in Legs, k # l PROVE LegInv(k)'
      BY <1>0, <1>1, <1>2, <1>7, <3>1 DEF SendOrder, LegInv, database, history
    <3>2. LegInv(l)'
      BY <1>0, <1>1, <1>2, <1>7, <2>0 DEF SendOrder, LegInv, database, HostTypes, Request, Accepted
    <3>3. QED
      BY <3>1, <3>2
  <2>4. QED
    BY <2>1, <2>2, <2>3
<1>8. CASE OrderAnswered
  <2>1. HostTypes'
    BY <1>0, <1>1, <1>2, <1>8 DEF OrderAnswered, HostTypes, upstream, history, IntentStatus
  <2>2. ProcessInv'
    BY <1>0, <1>1, <1>2, <1>8 DEF OrderAnswered, ProcessInv
  <2>3. \A k \in Legs : LegInv(k)'
    BY <1>0, <1>1, <1>2, <1>8 DEF OrderAnswered, LegInv, upstream, Accepted, history
  <2>4. QED
    BY <2>1, <2>2, <2>3
<1>9. CASE CancelOrder
  <2>0. lastError' \in BOOLEAN
    BY <1>9 DEF CancelOrder, HostTypes
  <2>1. HostTypes'
    BY <1>0, <1>1, <1>2, <1>9, <2>0 DEF CancelOrder, HostTypes, history
  <2>2. ProcessInv'
    BY <1>0, <1>1, <1>2, <1>9 DEF CancelOrder, Performing, ProcessInv
  <2>3. \A k \in Legs : LegInv(k)'
    BY <1>0, <1>1, <1>2, <1>9 DEF CancelOrder, LegInv, history
  <2>4. QED
    BY <2>1, <2>2, <2>3
<1>10. QED
  BY <1>4, <1>5, <1>6, <1>7, <1>8, <1>9 DEF Perform

\* The steps of the process that perform no action: it dies with what it knew, and
\* what it left pending is settled before it takes up the job again.
LEMMA ProcessKeepsHost ==
  ASSUME HostInv, Tick \/ FailJob \/ EndAdvance \/ UpdateThrows \/ Crash \/ Restart
  PROVE  HostInv'
<1> USE DEF HostInv
<1>0. /\ NotDone \in Endings /\ <<>> \in Seq(Sendable)
      /\ NoRow \in [status : {"pending", "running"}, lastError : BOOLEAN]
  BY DEF NotDone, Endings, NoRow
<1>1. CASE Tick
  <2>1. HostTypes'
    <3>1. row' \in [status : {"pending", "running"}, lastError : BOOLEAN]
      BY <1>1 DEF Tick, HostTypes
    <3>2. QED
      BY <1>1, <3>1 DEF Tick, HostTypes, database, upstream, history
  <2>2. ProcessInv'
    BY <1>1 DEF Tick, ProcessInv
  <2>3. \A l \in Legs : LegInv(l)'
    BY <1>1 DEF Tick, LegInv, database, upstream, history
  <2>4. QED
    BY <2>1, <2>2, <2>3
<1>2. CASE FailJob
  <2>1. HostTypes'
    BY <1>0, <1>2 DEF FailJob, HostTypes, upstream, history, JobStatus
  <2>2. ProcessInv'
    BY <1>2 DEF FailJob, ProcessInv
  <2>3. \A l \in Legs : LegInv(l)'
    BY <1>2 DEF FailJob, LegInv, upstream, history
  <2>4. QED
    BY <2>1, <2>2, <2>3
<1>3. CASE EndAdvance
  <2>1. status' \in JobStatus /\ lastError' \in BOOLEAN
    BY <1>3 DEF EndAdvance, HostTypes, Endings, JobStatus, NotDone, UpdateIsLegal, Transitions
  <2>2. HostTypes'
    BY <1>0, <1>3, <2>1 DEF EndAdvance, HostTypes, upstream, history
  <2>3. ProcessInv'
    BY <1>3 DEF EndAdvance, ProcessInv
  <2>4. \A l \in Legs : LegInv(l)'
    BY <1>3 DEF EndAdvance, LegInv, upstream, history
  <2>5. QED
    BY <2>2, <2>3, <2>4
<1>4. ASSUME Vanish, UNCHANGED <<database, upstream, read>>,
             crashes' \in 0 .. MaxCrashes, disturbed' \in SUBSET {"crash", "halt", "outside"},
             disturbed \subseteq disturbed'
      PROVE  HostInv'
  <2>1. HostTypes'
    BY <1>0, <1>4 DEF Vanish, HostTypes, database, upstream
  <2>2. ProcessInv'
    BY <1>4 DEF Vanish, ProcessInv
  <2>3. \A l \in Legs : LegInv(l)'
    BY <1>4 DEF LegInv, database, upstream
  <2>4. QED
    BY <2>1, <2>2, <2>3
<1>5. CASE UpdateThrows
  BY <1>4, <1>5 DEF UpdateThrows, HostTypes, history
<1>6. CASE Crash
  <2>1. crashes' \in 0 .. MaxCrashes
    BY <1>6, StrategyHostAssumption DEF StrategyHostAssumption, Crash, HostTypes
  <2>2. disturbed' \in SUBSET {"crash", "halt", "outside"}
    BY <1>6 DEF Crash, HostTypes
  <2>3. QED
    BY <1>4, <1>6, <2>1, <2>2 DEF Crash
<1>7. CASE Restart
  <2>1. PICK unfinished \in SUBSET Legs :
          intent' = [l \in Legs |-> IF intent[l] # "pending" \/ l \in unfinished
                                    THEN intent[l] ELSE Reconciled(l)]
    BY <1>7 DEF Restart
  <2>2. intent' \in [Legs -> {"none"} \union IntentStatus]
    BY <2>1 DEF HostTypes, Reconciled, IntentStatus
  <2>3. HostTypes'
    BY <1>7, <2>2 DEF Restart, HostTypes, upstream, history
  <2>4. ProcessInv'
    BY <1>7 DEF Restart, ProcessInv
  <2>5. \A l \in Legs : LegInv(l)'
    BY <1>7, <2>1 DEF Restart, LegInv, upstream, Reconciled, history
  <2>6. QED
    BY <2>3, <2>4, <2>5
<1>8. QED
  BY <1>1, <1>2, <1>3, <1>5, <1>6, <1>7

\* The tools write the status of the job and nothing a step has to remember.
LEMMA OperatorKeepsHost ==
  ASSUME HostInv, Operator
  PROVE  HostInv'
<1> USE DEF HostInv, Operator, Engage, Release, CancelJob, memory, upstream
<1>1. HostTypes'
  <2>1. /\ engaged' \in BOOLEAN /\ pausedByHalt' \in BOOLEAN
        /\ status' \in JobStatus /\ lastError' \in BOOLEAN
    <3>1. CASE Engage
      BY <3>1 DEF HostTypes, JobStatus
    <3>2. CASE Release
      BY <3>2 DEF HostTypes, JobStatus
    <3>3. CASE CancelJob
      BY <3>3 DEF HostTypes, JobStatus
    <3>4. QED
      BY <3>1, <3>2, <3>3
  <2>2. disturbed' \in SUBSET {"crash", "halt", "outside"} /\ crashes' = crashes
    BY DEF HostTypes, history
  <2>3. QED
    BY <2>1, <2>2 DEF HostTypes
<1>2. ProcessInv'
  BY DEF ProcessInv, Leg
<1>3. \A l \in Legs : LegInv(l)'
  BY DEF LegInv, history
<1>4. QED
  BY <1>1, <1>2, <1>3

\* Whatever happens around a strategy keeps the protocol.
LEMMA HostKeepsHost ==
  ASSUME HostInv, HostNext \/ FailJob
  PROVE  HostInv'
BY RobinhoodKeepsHost, PerformKeepsHost, ProcessKeepsHost, OperatorKeepsHost
DEF HostNext, Process, Robinhood

\* And so does a step that changes nothing of it.
LEMMA StutterKeepsHost ==
  ASSUME HostInv, UNCHANGED hostVars
  PROVE  HostInv'
<1> USE DEF HostInv, hostVars, database, memory, upstream, history
<1>1. HostTypes'
  BY DEF HostTypes
<1>2. ProcessInv'
  BY DEF ProcessInv, Leg
<1>3. \A l \in Legs : LegInv(l)'
  BY DEF LegInv
<1>4. QED
  BY <1>1, <1>2, <1>3

-----------------------------------------------------------------------------
(***************************************************************************)
(* What a strategy may build on.                                           *)
(***************************************************************************)

\* Neither a crash nor a halt has come between the steps of the process.
Calm == disturbed \intersect {"crash", "halt"} = {}

\* Then the row a step was called with is still the row, a process is down only
\* because its job has ended, and no job is paused.
CalmInv ==
  Calm =>
    /\ engaged = FALSE /\ pausedByHalt = FALSE
    /\ status # "paused"
    /\ pc = "called" => row.lastError = lastError
    /\ pc = "down" => IsTerminal(status)
    /\ pc \in {"acting", "reserved", "sent"} => status # "pending"

\* The job has ended, or will with the step being performed.
Over == done # NotDone \/ IsTerminal(status)

\* The orders the step being performed has still to send.
Due == {l \in Legs : \E i \in DOMAIN actions : actions[i].type = "submit" /\ actions[i].leg = l}

\* The orders it has still to cancel.
Cancelled ==
  {l \in Legs : \E i \in DOMAIN actions : actions[i].type = "cancel" /\ actions[i].leg = l}

\* Every order of S was accepted, or has still to be sent, or will be missed.
Placed(S) ==
  \A l \in S : Over \/ intent[l] = "submitted" \/ (state.fresh /\ (lastError \/ l \in Due))

\* Robinhood has the order, and has to list it if it is live.
Spotted(l) == intent[l] = "submitted" /\ (order[l] = "live" => l \in read)

\* What is known of an order that was accepted does not become false.
Onward(l) ==
  /\ intent[l] = "submitted" => intent'[l] = "submitted"
  /\ order[l] \in {"filled", "cancelled"} => order'[l] = order[l]
  /\ order[l] \in Accepted /\ order'[l] = "live" =>
       order[l] = "live" /\ (l \in read => l \in read')

\* A job begins with no halt and no process down.
LEMMA CalmBegins == ASSUME HostInit PROVE CalmInv
BY DEF HostInit, CalmInv

\* The step of a strategy makes the job running, in the process that called it.
LEMMA StepKeepsCalm ==
  ASSUME HostInv, CalmInv, Stepped
  PROVE  CalmInv'
BY DEF CalmInv, Calm, Stepped, history

\* A process throws out of its loop only when its job has ended under it, and nobody
\* writes to the row between its reading and the step, except to end the job.
LEMMA HostKeepsCalm ==
  ASSUME HostInv, CalmInv, HostNext \/ FailJob
  PROVE  CalmInv'
<1> SUFFICES ASSUME Calm'
             PROVE  /\ engaged' = FALSE /\ pausedByHalt' = FALSE
                    /\ status' # "paused"
                    /\ pc' = "called" => row'.lastError = lastError'
                    /\ pc' = "down" => IsTerminal(status')
                    /\ pc' \in {"acting", "reserved", "sent"} => status' # "pending"
  BY DEF CalmInv
<1>0. status \in JobStatus /\ pc \in {"down", "idle", "called", "acting", "reserved", "sent"}
  BY DEF HostInv, HostTypes
<1>1. CASE Tick
  BY <1>0, <1>1 DEF Tick, CalmInv, Calm, database, history
<1>2. CASE FailJob
  BY <1>0, <1>2 DEF FailJob, CalmInv, Calm, history
<1>3. CASE EndAdvance
  BY <1>0, <1>3 DEF EndAdvance, CalmInv, Calm, history, HostInv, HostTypes, Endings
<1>4. CASE UpdateThrows
  <2>1. Calm /\ pc' = "down" /\ UNCHANGED <<status, engaged, pausedByHalt>>
    BY <1>4 DEF UpdateThrows, Vanish, Calm, history, database
  <2>2. status \in {"pending", "running", "completed", "cancelled", "failed"}
    BY <1>0, <2>1 DEF CalmInv, JobStatus
  <2>3. IsTerminal(status)
    <3>1. CASE pc = "called" /\ ~UpdateIsLegal(status, "running")
      BY <2>2, <3>1 DEF UpdateIsLegal, Transitions, IsTerminal, TerminalStatuses
    <3>2. CASE pc = "acting" /\ done # NotDone /\ ~UpdateIsLegal(status, done.status)
      <4>1. done.status \in {"completed", "failed"} /\ status # "pending"
        BY <2>1, <3>2 DEF HostInv, HostTypes, Endings, CalmInv
      <4>2. QED
        BY <2>2, <3>2, <4>1 DEF UpdateIsLegal, Transitions, IsTerminal, TerminalStatuses
    <3>3. QED
      BY <1>4, <3>1, <3>2 DEF UpdateThrows
  <2>4. QED
    BY <2>1, <2>3 DEF CalmInv
<1>5. CASE Crash
  BY <1>5 DEF Crash, Calm
<1>6. CASE Restart
  BY <1>6 DEF Restart, CalmInv, Calm, history
<1>7. CASE Perform
  BY <1>0, <1>7
  DEF Perform, CalmInv, Calm, history, database, RefuseOrder, ReserveIntent, SendOrder,
      RefuseReserved,
      SettleFailed, ActionFailed, OrderRefused, AnswerLost, OrderAnswered, CancelOrder,
      CancelFails, Performing
<1>8. CASE Robinhood
  BY <1>8
  DEF Robinhood, CalmInv, Calm, history, database, memory, Judge, LoseRequest, Fill,
      CancelTakesEffect,
      CancelledOutside, Fills, OrderBecomes
<1>9. CASE Operator
  BY <1>0, <1>9
  DEF Operator, CalmInv, Calm, history, memory, Engage, Release, CancelJob, IsTerminal,
      TerminalStatuses
<1>10. QED
  BY <1>1, <1>2, <1>3, <1>4, <1>5, <1>6, <1>7, <1>8, <1>9 DEF HostNext, Process

\* What may be built on stays so when nothing happens.
LEMMA StutterKeepsCalm ==
  ASSUME CalmInv, UNCHANGED hostVars
  PROVE  CalmInv'
BY DEF CalmInv, Calm, hostVars, database, memory, history

\* A job that has ended is not called: its row does not let it run.
LEMMA SteppedIsNotOver == ASSUME HostInv, Stepped PROVE ~Over /\ actions = <<>>
BY DEF HostInv, ProcessInv, Stepped, Over, UpdateIsLegal, Transitions, IsTerminal, TerminalStatuses

\* An end that nothing but the operator came before is the end.
LEMMA OverIsFinal ==
  ASSUME HostInv, CalmInv, Calm', HostNext \/ FailJob, Over \/ FailJob
  PROVE  Over'
<1>1. CASE FailJob
  BY <1>1 DEF FailJob, Over, IsTerminal, TerminalStatuses
<1>2. ASSUME HostNext, Over PROVE Over'
  <2>1. ASSUME UNCHANGED <<status, done>> PROVE Over'
    BY <1>2, <2>1 DEF Over
  <2>2. CASE Tick
    BY <2>1, <2>2 DEF Tick, database
  <2>3. CASE EndAdvance
    <3>1. CASE done = NotDone
      BY <2>1, <2>3, <3>1 DEF EndAdvance
    <3>2. CASE done # NotDone
      BY <2>3, <3>2
      DEF EndAdvance, HostInv, HostTypes, Endings, Over, IsTerminal, TerminalStatuses
    <3>3. QED
      BY <3>1, <3>2
  <2>4. CASE UpdateThrows
    <3>1. pc' = "down"
      BY <2>4 DEF UpdateThrows, Vanish
    <3>2. QED
      BY <2>4, <3>1, HostKeepsCalm DEF CalmInv, HostNext, Process, Over
  <2>5. CASE Crash
    BY <2>5 DEF Crash, Calm
  <2>6. CASE Restart
    BY <2>1, <2>6 DEF Restart
  <2>7. CASE Perform
    BY <2>1, <2>7
    DEF Perform, database, RefuseOrder, ReserveIntent, SendOrder, RefuseReserved,
        SettleFailed, OrderRefused, AnswerLost, OrderAnswered, CancelOrder, CancelFails
  <2>8. CASE Robinhood
    BY <2>1, <2>8
    DEF Robinhood, database, memory, Judge, LoseRequest, Fill, CancelTakesEffect,
        CancelledOutside, Fills, OrderBecomes
  <2>9. CASE Operator
    BY <1>2, <2>9
    DEF Operator, memory, Engage, Release, CancelJob, Over, IsTerminal, TerminalStatuses
  <2>10. QED
    BY <1>2, <2>2, <2>3, <2>4, <2>5, <2>6, <2>7, <2>8, <2>9 DEF HostNext, Process
<1>3. QED
  BY <1>1, <1>2

\* What is known of an order that was accepted does not become false.
LEMMA OrdersMoveOn ==
  ASSUME HostInv, HostNext \/ FailJob, NEW l \in Legs
  PROVE  Onward(l)
<1>0. /\ intent \in [Legs -> {"none"} \union IntentStatus]
      /\ order \in [Legs -> OrderStatus] /\ LegInv(l)
  BY DEF HostInv, HostTypes
<1>1. ASSUME UNCHANGED <<intent, order, read>> PROVE Onward(l)
  BY <1>1 DEF Onward
<1>2. CASE Tick \/ FailJob \/ EndAdvance \/ UpdateThrows \/ Crash \/ Operator
  BY <1>1, <1>2
  DEF Tick, FailJob, EndAdvance, UpdateThrows, Crash, Operator, Engage, Release, CancelJob,
      database, upstream
<1>3. CASE Restart
  BY <1>0, <1>3 DEF Restart, Onward, upstream, Reconciled
<1>4. CASE RefuseOrder \/ CancelOrder \/ CancelFails
  BY <1>1, <1>4 DEF RefuseOrder, CancelOrder, CancelFails, upstream
<1>5. CASE ReserveIntent \/ OrderAnswered \/ RefuseReserved \/ OrderRefused \/ AnswerLost
  <2>1. UNCHANGED <<order, read>>
    BY <1>5
    DEF ReserveIntent, OrderAnswered, RefuseReserved, OrderRefused, AnswerLost, SettleFailed,
        upstream
  <2>2. intent[Leg] \in {"none", "pending"}
    BY <1>5
    DEF ReserveIntent, OrderAnswered, RefuseReserved, OrderRefused, AnswerLost, HostInv, ProcessInv
  <2>3. \E s : intent' = [intent EXCEPT ![Leg] = s]
    BY <1>5
    DEF ReserveIntent, OrderAnswered, RefuseReserved, OrderRefused, AnswerLost, SettleFailed
  <2>4. QED
    BY <1>0, <2>1, <2>2, <2>3 DEF Onward
<1>6. CASE SendOrder
  <2>1. order[Leg] = "absent"
    BY <1>6 DEF SendOrder, HostInv, ProcessInv
  <2>2. QED
    BY <1>0, <1>6, <2>1 DEF SendOrder, Onward, database, Accepted
<1>7. ASSUME NEW k \in Legs,
             Judge(k) \/ LoseRequest(k) \/ Fill(k) \/ CancelTakesEffect(k) \/ CancelledOutside(k)
      PROVE  Onward(l)
  BY <1>0, <1>7
  DEF Judge, LoseRequest, Fill, CancelTakesEffect, CancelledOutside, Fills, OrderBecomes, Onward,
      database, Accepted
<1>8. QED
  BY <1>2, <1>3, <1>4, <1>5, <1>6, <1>7 DEF HostNext, Process, Perform, Robinhood

\* Only the action at hand leaves the step.
LEMMA TailKeepsDue ==
  ASSUME HostInv, actions # <<>>, actions' = Tail(actions), NEW l \in Due
  PROVE  l \in Due' \/ (Head(actions).type = "submit" /\ Leg = l)
<1>1. actions \in Seq(Sendable)
  BY DEF HostInv, HostTypes
<1>2. PICK i \in DOMAIN actions : actions[i].type = "submit" /\ actions[i].leg = l
  BY DEF Due
<1>3. CASE i = 1
  BY <1>1, <1>2, <1>3 DEF Leg
<1>4. CASE i # 1
  <2>1. i - 1 \in DOMAIN Tail(actions) /\ Tail(actions)[i - 1] = actions[i]
    BY <1>1, <1>4
  <2>2. QED
    BY <1>2, <2>1 DEF Due
<1>5. QED
  BY <1>3, <1>4

\* What is left of a step is part of it.
LEMMA TailsAreParts ==
  ASSUME HostInv,
         actions' = actions \/ actions' = <<>> \/ (actions # <<>> /\ actions' = Tail(actions))
  PROVE  \A i \in DOMAIN actions' : \E j \in DOMAIN actions : actions[j] = actions'[i]
<1>1. actions \in Seq(Sendable)
  BY DEF HostInv, HostTypes
<1>2. ASSUME actions # <<>>, NEW i \in DOMAIN Tail(actions)
      PROVE  i + 1 \in DOMAIN actions /\ actions[i + 1] = Tail(actions)[i]
  BY <1>1, <1>2
<1>3. QED
  BY <1>2

\* The actions of a step are only used up, and what is cancelled was to be cancelled.
LEMMA ActionsAreUsedUp ==
  ASSUME HostInv, HostNext \/ FailJob
  PROVE  /\ UNCHANGED <<strategy, state>>
         /\ disturbed \subseteq disturbed'
         /\ actions' = actions \/ actions' = <<>> \/ (actions # <<>> /\ actions' = Tail(actions))
         /\ done' \in {done, NotDone}
         /\ status' = status \/ status' # "completed" \/ done.status = "completed"
         /\ Due' \subseteq Due
         /\ cancelSent \subseteq cancelSent'
         /\ cancelSent' \union Cancelled' \subseteq cancelSent \union Cancelled
<1>1. /\ UNCHANGED <<strategy, state>>
      /\ disturbed \subseteq disturbed'
      /\ actions' = actions \/ actions' = <<>> \/ (actions # <<>> /\ actions' = Tail(actions))
      /\ done' \in {done, NotDone}
      /\ status' = status \/ status' # "completed" \/ done.status = "completed"
      /\ cancelSent' \in {cancelSent, cancelSent \union {Leg}}
      /\ cancelSent' # cancelSent => actions # <<>> /\ Head(actions).type = "cancel"
  <2>1. CASE Tick \/ FailJob \/ EndAdvance \/ UpdateThrows \/ Crash \/ Restart
    BY <2>1
    DEF Tick, FailJob, EndAdvance, UpdateThrows, Crash, Restart, Vanish, database, upstream, history
  <2>2. CASE Perform
    BY <2>2
    DEF Perform, RefuseOrder, ReserveIntent, SendOrder, RefuseReserved, OrderRefused, AnswerLost,
        OrderAnswered, CancelOrder, CancelFails, SettleFailed, ActionFailed, Performing,
        HostInv, ProcessInv, database, upstream, history
  <2>3. CASE Robinhood
    BY <2>3
    DEF Robinhood, Judge, LoseRequest, Fill, CancelTakesEffect, CancelledOutside, Fills,
        OrderBecomes, database, memory, history
  <2>4. CASE Operator
    BY <2>4 DEF Operator, Engage, Release, CancelJob, memory, upstream, history
  <2>5. QED
    BY <2>1, <2>2, <2>3, <2>4 DEF HostNext, Process
<1>2. \A i \in DOMAIN actions' : \E j \in DOMAIN actions : actions[j] = actions'[i]
  BY <1>1, TailsAreParts
<1>3. Due' \subseteq Due /\ Cancelled' \subseteq Cancelled
  BY <1>2 DEF Due, Cancelled
<1>4. ASSUME actions # <<>>, Head(actions).type = "cancel" PROVE Leg \in Cancelled
  <2>1. 1 \in DOMAIN actions /\ actions[1] = Head(actions)
    BY <1>4 DEF HostInv, HostTypes
  <2>2. QED
    BY <1>4, <2>1, ActionsAreTyped DEF Cancelled, Leg, HostInv
<1>5. QED
  BY <1>1, <1>3, <1>4

\* An order asks for what the action that sent it said.
LEMMA OrdersAreAskedFor ==
  ASSUME HostInv, HostNext \/ FailJob, NEW l \in Legs, order'[l] # "absent"
  PROVE  \/ order[l] # "absent" /\ request'[l] = request[l]
         \/ \E i \in DOMAIN actions :
              actions[i].type = "submit" /\ actions[i].leg = l /\ actions[i].request = request'[l]
<1>0. order \in [Legs -> OrderStatus] /\ request \in [Legs -> Request]
  BY DEF HostInv, HostTypes
<1>1. CASE SendOrder
  <2>1. /\ actions # <<>> /\ Head(actions).type = "submit"
        /\ 1 \in DOMAIN actions /\ actions[1] = Head(actions)
    BY <1>1 DEF SendOrder, HostInv, ProcessInv, HostTypes
  <2>2. QED
    BY <1>0, <1>1, <2>1 DEF SendOrder, Leg
<1>2. ASSUME NEW k \in Legs,
             Judge(k) \/ LoseRequest(k) \/ Fill(k) \/ CancelTakesEffect(k) \/ CancelledOutside(k)
      PROVE  order[l] # "absent" /\ request'[l] = request[l]
  BY <1>0, <1>2
  DEF Judge, LoseRequest, Fill, CancelTakesEffect, CancelledOutside, Fills, OrderBecomes
<1>3. ASSUME UNCHANGED <<order, request>> PROVE order[l] # "absent" /\ request'[l] = request[l]
  BY <1>3
<1>4. CASE Tick \/ FailJob \/ EndAdvance \/ UpdateThrows \/ Crash \/ Restart \/ Operator
  BY <1>3, <1>4
  DEF Tick, FailJob, EndAdvance, UpdateThrows, Crash, Restart, Operator, Engage, Release,
      CancelJob, upstream
<1>5. CASE Perform /\ ~SendOrder
  BY <1>3, <1>5
  DEF Perform, RefuseOrder, ReserveIntent, RefuseReserved, OrderRefused, AnswerLost,
      OrderAnswered, CancelOrder, CancelFails, SettleFailed, upstream
<1>6. QED
  BY <1>1, <1>2, <1>4, <1>5 DEF HostNext, Process, Robinhood

\* What a step has still to send stays to be sent until it is accepted or fails.
LEMMA DueIsSent ==
  ASSUME HostInv, CalmInv, Calm', HostNext \/ FailJob, NEW l \in Legs,
         intent[l] = "submitted" \/ lastError \/ l \in Due
  PROVE  intent'[l] = "submitted" \/ lastError' \/ l \in Due' \/ Over'
<1>0. intent \in [Legs -> {"none"} \union IntentStatus]
  BY DEF HostInv, HostTypes
<1>1. CASE intent[l] = "submitted"
  BY <1>1, OrdersMoveOn DEF Onward
<1>2. CASE Over \/ FailJob
  BY <1>2, OverIsFinal
<1>3. ASSUME UNCHANGED <<lastError, actions>>, lastError \/ l \in Due
      PROVE  lastError' \/ l \in Due'
  BY <1>3 DEF Due
<1>4. ASSUME HostNext, ~Over, lastError \/ l \in Due
      PROVE  intent'[l] = "submitted" \/ lastError' \/ l \in Due' \/ Over'
  <2>1. CASE Tick
    BY <1>3, <1>4, <2>1 DEF Tick, database
  <2>2. CASE EndAdvance
    BY <1>3, <1>4, <2>2 DEF EndAdvance, Over
  <2>3. CASE UpdateThrows
    <3>1. pc' = "down"
      BY <2>3 DEF UpdateThrows, Vanish
    <3>2. QED
      BY <1>4, <3>1, HostKeepsCalm DEF CalmInv, Over
  <2>4. CASE Crash
    BY <2>4 DEF Crash, Calm
  <2>5. CASE Restart
    BY <1>3, <1>4, <2>5 DEF Restart
  <2>6. CASE RefuseOrder \/ RefuseReserved \/ OrderRefused \/ AnswerLost \/ CancelFails
    BY <2>6
    DEF RefuseOrder, RefuseReserved, OrderRefused, AnswerLost, CancelFails, SettleFailed,
        ActionFailed
  <2>7. CASE ReserveIntent
    BY <1>3, <1>4, <2>7 DEF ReserveIntent
  <2>8. CASE SendOrder
    BY <1>3, <1>4, <2>8 DEF SendOrder, database
  <2>9. CASE OrderAnswered
    <3>1. actions # <<>> /\ actions' = Tail(actions) /\ lastError' = lastError
      BY <2>9 DEF OrderAnswered, HostInv, ProcessInv
    <3>2. CASE l = Leg
      BY <1>0, <2>9, <3>2 DEF OrderAnswered
    <3>3. CASE l # Leg
      BY <1>4, <3>1, <3>3, TailKeepsDue
    <3>4. QED
      BY <3>2, <3>3
  <2>10. CASE CancelOrder
    <3>1. /\ actions # <<>> /\ actions' = Tail(actions) /\ Head(actions).type = "cancel"
          /\ lastError => lastError'
      BY <2>10 DEF CancelOrder, Performing
    <3>2. QED
      BY <1>4, <3>1, TailKeepsDue
  <2>11. CASE Robinhood
    BY <1>3, <1>4, <2>11
    DEF Robinhood, database, memory, Judge, LoseRequest, Fill, CancelTakesEffect,
        CancelledOutside, Fills, OrderBecomes
  <2>12. CASE Operator
    <3>1. CASE Release
      <4>1. ~Release
        BY DEF Release, CalmInv, Calm, history
      <4>2. QED
        BY <3>1, <4>1
    <3>2. CASE Engage
      BY <3>2 DEF Engage, Calm
    <3>3. CASE CancelJob
      BY <1>3, <1>4, <3>3 DEF CancelJob, memory
    <3>4. QED
      BY <2>12, <3>1, <3>2, <3>3 DEF Operator
  <2>13. QED
    BY <1>4, <2>1, <2>2, <2>3, <2>4, <2>5, <2>6, <2>7, <2>8, <2>9, <2>10, <2>11, <2>12
    DEF HostNext, Process, Perform
<1>5. QED
  BY <1>1, <1>2, <1>4

\* A sighting stays one: an order that was accepted is live until it is closed.
LEMMA SpottedStays ==
  ASSUME HostInv, NEW l \in Legs, Onward(l), Spotted(l)
  PROVE  Spotted(l)'
BY DEF HostInv, LegInv, Onward, Spotted

\* A reading of the open orders is a sighting of every order that was accepted.
LEMMA ReadingSpots ==
  ASSUME NEW listing, Reads(listing), UNCHANGED <<intent, order>>,
         NEW l \in Legs, intent[l] = "submitted"
  PROVE  Spotted(l)'
BY DEF Reads, OpenSet, Known, Spotted

\* An order that was sighted and is not listed is closed.
LEMMA MissingIsClosed ==
  ASSUME HostInv, NEW listing \in Listings, NEW l \in Legs \ listing, Spotted(l)
  PROVE  order[l] \in {"filled", "cancelled"}
BY DEF HostInv, LegInv, Accepted, Listings, Unlisted, OpenSet, Known, Spotted

\* Only orders that were accepted are listed.
LEMMA ListedIsKnown ==
  ASSUME NEW listing \in Listings, NEW l \in listing
  PROVE  l \in Legs /\ intent[l] = "submitted" /\ order[l] = "live"
BY DEF Listings, OpenSet, Known

\* Until a crash, a halt or an end comes, what was placed stays placed.
LEMMA PlacedStays ==
  ASSUME HostInv, CalmInv, Calm', HostNext \/ FailJob, NEW S \in SUBSET Legs,
         Placed(S), UNCHANGED state
  PROVE  Placed(S)'
<1> SUFFICES ASSUME NEW l \in S
             PROVE  Over' \/ intent'[l] = "submitted" \/ (state.fresh /\ (lastError' \/ l \in Due'))
  BY DEF Placed
<1>1. Over \/ intent[l] = "submitted" \/ (state.fresh /\ (lastError \/ l \in Due))
  BY DEF Placed
<1>2. CASE Over
  BY <1>2, OverIsFinal
<1>3. CASE intent[l] = "submitted"
  BY <1>3, OrdersMoveOn DEF Onward
<1>4. CASE state.fresh /\ (lastError \/ l \in Due)
  BY <1>4, DueIsSent
<1>5. QED
  BY <1>1, <1>2, <1>3, <1>4

\* An ending is one the engine knows.
LEMMA EndingsAreKnown ==
  /\ NotDone \in Endings /\ NotDone.status = "none"
  /\ \A s \in {"completed", "failed"}, reason \in BOOLEAN :
       /\ Ending(s, reason) \in Endings /\ Ending(s, reason).status = s
       /\ Ending(s, reason) # NotDone
BY DEF NotDone, Endings, Ending

\* A reading is a set of legs.
LEMMA ReadingIsTyped ==
  ASSUME HostInv, \/ ReadsNothing
                  \/ \E listing \in Listings : Reads(listing)
  PROVE  read' \in SUBSET Legs
BY DEF HostInv, HostTypes, ReadsNothing, Reads, OpenSet, Known

\* What is known of the orders does not change with the step that reads them.
LEMMA SteppedKeepsOrders ==
  ASSUME Stepped
  PROVE  /\ UNCHANGED <<strategy, intent, order, request, filled, cancelSent, disturbed, row>>
         /\ status' = "running" /\ lastError' = FALSE
BY DEF Stepped, upstream, history

\* The engine takes what a step of a strategy gives back, and the strategy finds
\* nothing left of the step before.
LEMMA ReturnIsStep ==
  ASSUME HostInv, pc = "called", NEW newState, NEW newActions, NEW ending,
         Return(newState, newActions, ending)
  PROVE  /\ Stepped /\ state' = newState /\ actions' = newActions /\ done' = ending
         /\ ~Over /\ actions = <<>> /\ done = NotDone /\ Due = {} /\ Cancelled = {}
<1>1. Stepped /\ state' = newState /\ actions' = newActions /\ done' = ending
  BY DEF Return, Stepped
<1>2. ~Over /\ actions = <<>>
  BY <1>1, SteppedIsNotOver
<1>3. done = NotDone
  BY <1>2 DEF Over
<1>4. QED
  BY <1>1, <1>2, <1>3 DEF Due, Cancelled
-----------------------------------------------------------------------------
\* A sum over what the orders expose is a sum of numbers.
LEMMA SumsAreTyped ==
  ASSUME HostInv, NEW S \in SUBSET Legs
  PROVE  /\ IsFiniteSet(S)
         /\ \A l \in Legs : filled[l] \in Nat /\ Exposure(l) \in Nat
         /\ Exposed(S) \in Nat /\ Traded(S) \in Nat
<1>1. IsFiniteSet(S)
  BY StrategyHostAssumption, FS_Subset DEF StrategyHostAssumption
<1>2. \A l \in Legs : filled[l] \in Nat /\ Exposure(l) \in Nat
  BY DEF HostInv, HostTypes, Request, Exposure
<1>3. \A l \in S : [k \in Legs |-> Exposure(k)][l] \in Nat
  BY <1>2
<1>4. Exposed(S) \in Nat
  BY <1>1, <1>3, SumType DEF Exposed
<1>5. Traded(S) \in Nat
  BY <1>1, <1>2, SumType DEF Traded
<1>6. QED
  BY <1>1, <1>2, <1>4, <1>5

\* What all orders expose is what one of them does and what the others do.
LEMMA ExposedApart ==
  ASSUME HostInv, NEW l \in Legs
  PROVE  /\ Exposed(Legs) = Exposure(l) + Exposed(Legs \ {l})
         /\ Traded(Legs) = filled[l] + Traded(Legs \ {l})
<1>1. IsFiniteSet(Legs) /\ \A k \in Legs : filled[k] \in Nat /\ Exposure(k) \in Nat
  BY SumsAreTyped
<1>2. \A k \in Legs : [x \in Legs |-> Exposure(x)][k] \in Nat
  BY <1>1
<1>3. Exposed(Legs) = [x \in Legs |-> Exposure(x)][l] + Exposed(Legs \ {l})
  BY <1>1, <1>2, SumRemove DEF Exposed
<1>4. Traded(Legs) = filled[l] + Traded(Legs \ {l})
  BY <1>1, SumRemove DEF Traded
<1>5. QED
  BY <1>3, <1>4

\* An order that is not being sent exposes no more than before; and what has left the book
\* trades no more, and does not come back.
LEMMA OnlySendingExposes ==
  ASSUME HostInv, HostNext \/ FailJob, NEW l \in Legs, ~(SendOrder /\ Leg = l)
  PROVE  /\ l \in InTheBook' => l \in InTheBook
         /\ Exposure(l)' <= Exposure(l)
         /\ l \notin InTheBook => filled'[l] = filled[l]
<1>0. /\ order \in [Legs -> OrderStatus] /\ request \in [Legs -> Request]
      /\ filled \in [Legs -> Nat] /\ request[l].size \in Nat
      /\ LegInv(l) /\ LegInv(l)'
  BY HostKeepsHost DEF HostInv, HostTypes, Request
<1>1. ASSUME UNCHANGED <<order, request, filled>>
      PROVE  /\ l \in InTheBook' => l \in InTheBook
             /\ Exposure(l)' <= Exposure(l)
             /\ l \notin InTheBook => filled'[l] = filled[l]
  BY <1>0, <1>1 DEF InTheBook, Exposure
<1>2. CASE Tick \/ FailJob \/ EndAdvance \/ UpdateThrows \/ Crash \/ Restart \/ Operator
  BY <1>1, <1>2
  DEF Tick, FailJob, EndAdvance, UpdateThrows, Crash, Restart, Operator, Engage, Release,
      CancelJob, upstream
<1>3. CASE Perform /\ ~SendOrder
  BY <1>1, <1>3
  DEF Perform, RefuseOrder, ReserveIntent, RefuseReserved, OrderRefused, AnswerLost,
      OrderAnswered, CancelOrder, CancelFails, SettleFailed, upstream
<1>4. CASE SendOrder
  <2>1. order'[l] = order[l] /\ request'[l] = request[l] /\ filled'[l] = filled[l]
    BY <1>0, <1>4 DEF SendOrder
  <2>2. QED
    BY <1>0, <2>1 DEF InTheBook, Exposure
<1>5. ASSUME NEW k \in Legs,
             Judge(k) \/ LoseRequest(k) \/ Fill(k) \/ CancelTakesEffect(k) \/ CancelledOutside(k)
      PROVE  /\ l \in InTheBook' => l \in InTheBook
             /\ Exposure(l)' <= Exposure(l)
             /\ l \notin InTheBook => filled'[l] = filled[l]
  <2>1. CASE k # l
    <3>1. order'[l] = order[l] /\ request'[l] = request[l] /\ filled'[l] = filled[l]
      BY <1>0, <1>5, <2>1
      DEF Judge, LoseRequest, Fill, CancelTakesEffect, CancelledOutside, Fills, OrderBecomes
    <3>2. QED
      BY <1>0, <3>1 DEF InTheBook, Exposure
  <2>2. CASE k = l
    <3>1. l \in InTheBook
      BY <1>5, <2>2
      DEF Judge, LoseRequest, Fill, CancelTakesEffect, CancelledOutside, InTheBook
    <3>2. CASE LoseRequest(l)
      <4>1. order'[l] = "absent"
        BY <1>0, <3>2 DEF LoseRequest, OrderBecomes
      <4>2. l \notin InTheBook' /\ filled'[l] = 0
        BY <1>0, <4>1 DEF LegInv, InTheBook
      <4>3. QED
        BY <1>0, <3>1, <4>2 DEF Exposure
    <3>3. CASE ~LoseRequest(l)
      <4>1. request' = request
        BY <1>5, <2>2, <3>3 DEF Judge, Fill, CancelTakesEffect, CancelledOutside, Fills
      <4>2. filled'[l] <= request[l].size /\ filled'[l] \in Nat
        BY <1>0, <4>1, HostKeepsHost DEF LegInv, HostInv, HostTypes
      <4>3. QED
        BY <1>0, <3>1, <4>1, <4>2 DEF Exposure
    <3>4. QED
      BY <3>2, <3>3
  <2>3. QED
    BY <2>1, <2>2
<1>6. QED
  BY <1>2, <1>3, <1>4, <1>5 DEF HostNext, Process, Robinhood

\* What is being sent is the first action of the step.
LEMMA SendingIsDue ==
  ASSUME HostInv, SendOrder
  PROVE  /\ 1 \in DOMAIN actions /\ actions[1] = Head(actions)
         /\ actions[1].leg = Leg /\ Leg \in Due
<1>1. /\ actions # <<>> /\ Head(actions).type = "submit"
      /\ 1 \in DOMAIN actions /\ actions[1] = Head(actions)
  BY DEF SendOrder, HostInv, ProcessInv, HostTypes
<1>2. Leg \in Legs
  BY <1>1, ActionsAreTyped DEF HostInv
<1>3. QED
  BY <1>1, <1>2 DEF Due, Leg

\* An order that no action of the step sends exposes no more than before; and what has
\* left the book trades no more, and does not come back.
LEMMA BookIsSent ==
  ASSUME HostInv, HostNext \/ FailJob, NEW l \in Legs, l \notin Due
  PROVE  /\ l \in InTheBook' => l \in InTheBook
         /\ Exposure(l)' <= Exposure(l)
         /\ l \notin InTheBook => filled'[l] = filled[l]
BY OnlySendingExposes, SendingIsDue

\* What an order exposes beyond what it did before, an action asked for.
LEMMA ExposureIsAskedFor ==
  ASSUME HostInv, HostNext \/ FailJob, NEW l \in Legs
  PROVE  \/ Exposure(l)' <= Exposure(l)
         \/ \E i \in DOMAIN actions :
              actions[i].leg = l /\ Exposure(l)' = actions[i].request.size
<1>1. CASE SendOrder /\ Leg = l
  <2>1. /\ order' = [order EXCEPT ![l] = "wire"]
        /\ request' = [request EXCEPT ![l] = actions[1].request]
    BY <1>1, SendingIsDue DEF SendOrder
  <2>2. order'[l] = "wire" /\ request'[l] = actions[1].request
    BY <2>1 DEF HostInv, HostTypes
  <2>3. Exposure(l)' = actions[1].request.size
    BY <2>2 DEF Exposure, InTheBook
  <2>4. QED
    BY <1>1, <2>3, SendingIsDue
<1>2. CASE ~(SendOrder /\ Leg = l)
  BY <1>2, OnlySendingExposes
<1>3. QED
  BY <1>1, <1>2

\* The sum of what the other orders expose does not grow between two steps, and what
\* they have traded does not change when none of them is in the book.
LEMMA OthersExposeNoMore ==
  ASSUME HostInv, HostNext \/ FailJob, NEW S \in SUBSET Legs, S \cap Due = {}
  PROVE  /\ Exposed(S)' \in Nat /\ Exposed(S)' <= Exposed(S)
         /\ S \cap InTheBook = {} => Traded(S)' = Traded(S)
<1> DEFINE before == [l \in Legs |-> Exposure(l)]
           after  == [l \in Legs |-> Exposure(l)']
<1>1. IsFiniteSet(S) /\ \A l \in Legs : Exposure(l) \in Nat
  BY SumsAreTyped
<1>2. \A l \in Legs : Exposure(l)' \in Nat
  BY HostKeepsHost DEF HostInv, HostTypes, Request, Exposure
<1>3. \A l \in S : Exposure(l)' <= Exposure(l)
  BY BookIsSent
<1>4. SumFunctionOnSet(after, S) <= SumFunctionOnSet(before, S)
  BY <1>1, <1>2, <1>3, SumMonotone
<1>5. SumFunctionOnSet(after, S) \in Nat
  <2>1. \A l \in S : after[l] \in Nat
    BY <1>2
  <2>2. QED
    BY <1>1, <2>1, SumType
<1>6. Exposed(S)' = SumFunctionOnSet(after, S) /\ Exposed(S) = SumFunctionOnSet(before, S)
  BY DEF Exposed
<1>7. ASSUME S \cap InTheBook = {} PROVE Traded(S)' = Traded(S)
  <2>1. \A l \in S : filled'[l] = filled[l]
    BY <1>7, BookIsSent
  <2>2. SumFunctionOnSet(filled', S) = SumFunctionOnSet(filled, S)
    BY <1>1, <2>1, SumEqual
  <2>3. QED
    BY <2>2 DEF Traded
<1>8. QED
  BY <1>4, <1>6, <1>7, <1>5

\* The step of a strategy changes nothing of what the orders have traded and may trade.
LEMMA StepKeepsSums ==
  ASSUME Stepped, NEW S
  PROVE  InTheBook' = InTheBook /\ Exposed(S)' = Exposed(S) /\ Traded(S)' = Traded(S)
<1>1. UNCHANGED <<order, request, filled>>
  BY SteppedKeepsOrders
<1>2. InTheBook' = InTheBook
  BY <1>1 DEF InTheBook
<1>3. \A l : Exposure(l)' = Exposure(l)
  BY <1>1, <1>2 DEF Exposure
<1>4. [l \in Legs |-> Exposure(l)]' = [l \in Legs |-> Exposure(l)]
  BY <1>3
<1>5. QED
  BY <1>1, <1>2, <1>4 DEF Exposed, Traded

\* A job that completes without a reason was to complete without one.
LEMMA EndsAsPlanned ==
  ASSUME HostInv, HostNext \/ FailJob, status' = "completed", ~lastError'
  PROVE  (status = "completed" /\ ~lastError) \/ (done.status = "completed" /\ ~done.reason)
<1>1. ASSUME UNCHANGED <<status, lastError>> PROVE status = "completed" /\ ~lastError
  BY <1>1
<1>2. CASE Tick \/ UpdateThrows \/ Crash \/ Restart
  BY <1>1, <1>2 DEF Tick, UpdateThrows, Crash, Restart, database
<1>3. CASE FailJob \/ EndAdvance
  BY <1>1, <1>3 DEF FailJob, EndAdvance
<1>4. CASE Perform
  BY <1>4
  DEF Perform, RefuseOrder, ReserveIntent, SendOrder, RefuseReserved, OrderRefused, AnswerLost,
      OrderAnswered, CancelOrder, CancelFails, SettleFailed, ActionFailed, database
<1>5. CASE Robinhood
  BY <1>1, <1>5
  DEF Robinhood, Judge, LoseRequest, Fill, CancelTakesEffect, CancelledOutside, Fills,
      OrderBecomes, database
<1>6. CASE Operator
  BY <1>6 DEF Operator, Engage, Release, CancelJob
<1>7. QED
  BY <1>2, <1>3, <1>4, <1>5, <1>6 DEF HostNext, Process

-----------------------------------------------------------------------------
(***************************************************************************)
(* What a process knows of its orders where no answer is lost.             *)
(***************************************************************************)
\* No answer is lost, and no search for an order ends before it has found it.
Truthful == Faults \intersect {"lost_answer", "unfinished"} = {}

\* The intent of an order that may trade is submitted, or the process that sent it waits
\* for the answer or is down: it does not come up again before the order is found.
HonestInv ==
  Truthful =>
    /\ \A l \in Legs : order[l] = "wire" => pc = "down" \/ (pc = "sent" /\ Leg = l)
    /\ \A k, l \in Legs : order[k] = "wire" /\ order[l] = "wire" => k = l
    /\ \A l \in Legs : intent[l] = "pending" =>
         pc = "down" \/ (pc \in {"reserved", "sent"} /\ Leg = l)
    /\ \A l \in Legs : intent[l] \in {"failed", "abandoned"} => order[l] \notin {"wire", "live"}

\* A job begins with nothing sent.
LEMMA HonestBegins == ASSUME HostInit PROVE HonestInv
BY DEF HostInit, HonestInv

\* The step of a strategy sends nothing yet.
LEMMA StepKeepsHonest ==
  ASSUME HonestInv, Stepped
  PROVE  HonestInv'
BY DEF HonestInv, Stepped, upstream

\* And so does a step that changes nothing.
LEMMA StutterKeepsHonest ==
  ASSUME HonestInv, UNCHANGED hostVars
  PROVE  HonestInv'
BY DEF HonestInv, hostVars, database, memory, upstream, Leg

\* One order is on its way at a time, and the process that sent it knows what became of it.
LEMMA HostKeepsHonest ==
  ASSUME HostInv, HonestInv, HostNext \/ FailJob
  PROVE  HonestInv'
<1> SUFFICES ASSUME Truthful
             PROVE  /\ \A l \in Legs : order'[l] = "wire" =>
                            pc' = "down" \/ (pc' = "sent" /\ Leg' = l)
                    /\ \A k, l \in Legs : order'[k] = "wire" /\ order'[l] = "wire" => k = l
                    /\ \A l \in Legs : intent'[l] = "pending" =>
                         pc' = "down" \/ (pc' \in {"reserved", "sent"} /\ Leg' = l)
                    /\ \A l \in Legs :
                         intent'[l] \in {"failed", "abandoned"} => order'[l] \notin {"wire", "live"}
  BY DEF HonestInv
<1>0. /\ "lost_answer" \notin Faults /\ "unfinished" \notin Faults
      /\ order \in [Legs -> OrderStatus] /\ intent \in [Legs -> {"none"} \union IntentStatus]
      /\ ProcessInv
      /\ \A l \in Legs : LegInv(l)
      /\ actions # <<>> => Leg \in Legs
  BY ActionsAreTyped DEF Truthful, HostInv, HostTypes
<1>1. /\ \A l \in Legs : order[l] = "wire" => pc = "down" \/ (pc = "sent" /\ Leg = l)
      /\ \A k, l \in Legs : order[k] = "wire" /\ order[l] = "wire" => k = l
      /\ \A l \in Legs : intent[l] = "pending" =>
           pc = "down" \/ (pc \in {"reserved", "sent"} /\ Leg = l)
      /\ \A l \in Legs : intent[l] \in {"failed", "abandoned"} => order[l] \notin {"wire", "live"}
  BY DEF HonestInv
<1>2. CASE Tick \/ FailJob \/ EndAdvance
  BY <1>1, <1>2 DEF Tick, FailJob, EndAdvance, database, upstream
<1>3. CASE UpdateThrows \/ Crash
  BY <1>1, <1>3 DEF UpdateThrows, Crash, Vanish, database, upstream
<1>4. CASE Restart
  <2>1. order' = order /\ \A l \in Legs : order[l] # "wire"
    BY <1>4 DEF Restart, upstream
  <2>2. \A l \in Legs :
          intent'[l] = IF intent[l] # "pending" THEN intent[l] ELSE Reconciled(l)
    BY <1>0, <1>4 DEF Restart
  <2>3. \A l \in Legs : /\ Reconciled(l) \in {"submitted", "abandoned"}
                        /\ Reconciled(l) = "abandoned" => order[l] # "live"
    BY DEF Reconciled, Accepted
  <2>4. QED
    BY <1>1, <2>1, <2>2, <2>3
<1>5. CASE Operator
  BY <1>1, <1>5 DEF Operator, Engage, Release, CancelJob, memory, upstream, Leg
<1>6. CASE RefuseOrder \/ CancelOrder \/ CancelFails
  <2>1. pc = "acting" /\ pc' = "acting" /\ UNCHANGED <<intent, order>>
    BY <1>6 DEF RefuseOrder, CancelOrder, CancelFails, ActionFailed, Performing, upstream
  <2>2. QED
    BY <1>1, <2>1
<1>7. CASE ReserveIntent
  <2>1. /\ pc = "acting" /\ pc' = "reserved" /\ order' = order /\ Leg' = Leg /\ Leg \in Legs
        /\ intent' = [intent EXCEPT ![Leg] = "pending"]
    BY <1>0, <1>7 DEF ReserveIntent, Performing, upstream, Leg
  <2>2. QED
    BY <1>0, <1>1, <2>1
<1>8. CASE SendOrder
  <2>1. /\ pc = "reserved" /\ pc' = "sent" /\ intent' = intent /\ Leg' = Leg /\ Leg \in Legs
        /\ order' = [order EXCEPT ![Leg] = "wire"] /\ intent[Leg] = "pending"
    BY <1>0, <1>8 DEF SendOrder, database, Leg, ProcessInv
  <2>2. QED
    BY <1>0, <1>1, <2>1
<1>9. CASE RefuseReserved \/ OrderRefused
  <2>1. /\ pc \in {"reserved", "sent"} /\ pc' = "acting" /\ order' = order /\ Leg \in Legs
        /\ intent' = [intent EXCEPT ![Leg] = "failed"]
        /\ order[Leg] \in {"absent", "refused"}
    BY <1>0, <1>9
    DEF RefuseReserved, OrderRefused, SettleFailed, ActionFailed, upstream, ProcessInv
  <2>2. QED
    BY <1>0, <1>1, <2>1
<1>10. CASE OrderAnswered
  <2>1. /\ pc = "sent" /\ pc' = "acting" /\ order' = order /\ Leg \in Legs
        /\ intent' = [intent EXCEPT ![Leg] = "submitted"] /\ order[Leg] # "wire"
    BY <1>0, <1>10 DEF OrderAnswered, upstream, ProcessInv, Accepted
  <2>2. QED
    BY <1>0, <1>1, <2>1
<1>11. ~AnswerLost
  BY <1>0 DEF AnswerLost
<1>12. ASSUME NEW k \in Legs,
              Judge(k) \/ LoseRequest(k) \/ Fill(k) \/ CancelTakesEffect(k) \/ CancelledOutside(k)
       PROVE  /\ \A l \in Legs : order'[l] = "wire" => order[l] = "wire"
              /\ \A l \in Legs : order'[l] = "live" => order[l] \in {"wire", "live"}
              /\ intent' = intent /\ pc' = pc /\ Leg' = Leg
  BY <1>0, <1>12
  DEF Judge, LoseRequest, Fill, CancelTakesEffect, CancelledOutside, Fills, OrderBecomes,
      database, memory, Leg
<1>13. CASE Robinhood
  <2>1. /\ \A l \in Legs : order'[l] = "wire" => order[l] = "wire"
        /\ \A l \in Legs : order'[l] = "live" => order[l] \in {"wire", "live"}
        /\ intent' = intent /\ pc' = pc /\ Leg' = Leg
    BY <1>12, <1>13 DEF Robinhood
  <2>2. QED
    BY <1>1, <2>1
<1>14. QED
  BY <1>2, <1>3, <1>4, <1>5, <1>6, <1>7, <1>8, <1>9, <1>10, <1>11, <1>13
  DEF HostNext, Process, Perform

\* When a strategy is called, every order that may trade is live, and its intent says so.
LEMMA CalledKnowsAll ==
  ASSUME Truthful, HostInv, HonestInv, pc = "called", NEW l \in InTheBook
  PROVE  l \in Legs /\ order[l] = "live" /\ intent[l] = "submitted"
<1>1. l \in Legs /\ order[l] \in {"wire", "live"} /\ LegInv(l)
  BY DEF InTheBook, HostInv
<1>2. order[l] = "live" /\ intent[l] \notin {"pending", "failed", "abandoned"}
  BY <1>1 DEF HonestInv
<1>3. intent[l] \in {"none", "submitted"}
  BY <1>1, <1>2 DEF HostInv, HostTypes, IntentStatus
<1>4. QED
  BY <1>1, <1>2, <1>3 DEF LegInv
=============================================================================
