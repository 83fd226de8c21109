---------------------------- MODULE StrategyHost ----------------------------
(***************************************************************************)
(* What a strategy runs on: one job, one supervisor, the orders of the job *)
(* at Robinhood, and the tools that touch the job.  Engine has the same    *)
(* protocol for many jobs and processes with the strategy abstracted; here *)
(* the strategy is exact and the engine is reduced to what one job can     *)
(* notice of it.                                                           *)
(*                                                                         *)
(* A strategy is a set of actions that end in Return: the step it gives    *)
(* back to advanceJob, which persists it and performs its actions one by   *)
(* one.  Counters of the state that the code only compares with a small    *)
(* number are capped there (checks, missedChecks).                         *)
(***************************************************************************)
EXTENDS JobModel, Naturals, Sequences, FiniteSets, Functions

CONSTANTS
  Strategies,  \* the strategies the job may be an instance of
  Legs,        \* bound: the client order ids there are
  MaxCrashes,  \* bound: crashes in a behaviour
  Faults       \* what may go wrong outside the process

\* "lost_answer":  the answer to a POST is lost, although Robinhood acted on it;
\* "refusal":      an order is refused, by the policy or by Robinhood;
\* "cancel_fails": a cancel of a live order fails;
\* "outage":       a quote or the open orders cannot be read;
\* "lag":          an order is missing from the first reading of the open orders;
\* "unread":       what was filled of an order cannot be read;
\* "unfinished":   a reconcile ends before it has found an order;
\* "halt":         the kill switch is engaged, once;
\* "outside":      an order is cancelled by other means than the job, once.
FaultKinds == {"lost_answer", "refusal", "cancel_fails", "outage", "lag",
               "unread", "unfinished", "halt", "outside"}

ASSUME StrategyHostAssumption ==
  /\ IsFiniteSet(Legs)
  /\ MaxCrashes \in Nat
  /\ Faults \subseteq FaultKinds

VARIABLES
  \* the database
  strategy,     \* jobs.strategy
  status,       \* jobs.status
  lastError,    \* jobs.last_error is not null
  state,        \* jobs.state
  intent,       \* order_intents.status, by leg
  engaged,      \* the kill switch
  pausedByHalt, \* the kill switch has the job in pausedJobIds
  \* the memory of the process
  pc,
  row,          \* the row dueJobs returned, as far as others may change it meanwhile
  actions,      \* the actions of the step still to perform
  done,         \* step.done: the status, or "none"
  \* Robinhood
  order,
  request,      \* what an order that was sent asks for
  filled,       \* how much of it has been filled
  cancelSent,   \* the legs whose cancel Robinhood has accepted
  read,         \* the live legs that were live at an earlier reading of the open orders
  \* bookkeeping
  crashes,
  disturbed     \* history: what has come between the code and its plan

database == <<strategy, status, lastError, state, intent, engaged, pausedByHalt>>
memory   == <<pc, row, actions, done>>
upstream == <<order, request, filled, cancelSent>>
history  == <<crashes, disturbed>>
hostVars == <<database, memory, upstream, read, history>>

OrderStatus == {"absent", "wire", "refused", "live", "filled", "cancelled"}
Accepted    == {"live", "filled", "cancelled"}
NotDone     == [status |-> "none", reason |-> FALSE]
NoRow       == [status |-> "pending", lastError |-> FALSE]
Ending(s, reason) == [status |-> s, reason |-> reason]
Sides   == {"buy", "sell"}
Request == [market : BOOLEAN, side : Sides, size : Nat, price : Nat]
Limit(side, size, price) == [market |-> FALSE, side |-> side, size |-> size, price |-> price]
Market(side, size)       == [market |-> TRUE, side |-> side, size |-> size, price |-> 0]
NoRequest                == Limit("sell", 0, 0)

Action == [type : {"submit", "cancel"}, leg : Legs, request : Request]
Submit(l, what) == [type |-> "submit", leg |-> l, request |-> what]
Cancel(l)       == [type |-> "cancel", leg |-> l, request |-> NoRequest]

HostInit ==
  /\ status = "pending"
  /\ lastError = FALSE
  /\ intent = [l \in Legs |-> "none"]
  /\ engaged = FALSE
  /\ pausedByHalt = FALSE
  /\ pc = "idle"
  /\ row = NoRow
  /\ actions = <<>>
  /\ done = NotDone
  /\ order = [l \in Legs |-> "absent"]
  /\ request = [l \in Legs |-> NoRequest]
  /\ filled = [l \in Legs |-> 0]
  /\ cancelSent = {}
  /\ read = {}
  /\ crashes = 0
  /\ disturbed = {}
-----------------------------------------------------------------------------
(***************************************************************************)
(* The process: tick and advanceJob.                                       *)
(***************************************************************************)
Tick ==
  /\ pc = "idle"
  /\ status \in {"pending", "running"}
  /\ row' = [status |-> status, lastError |-> lastError]
  /\ pc' = "called"
  /\ UNCHANGED <<database, actions, done, upstream, read, history>>

Called(name) == pc = "called" /\ strategy = name

\* The step of the strategy is persisted before any of its actions, over whatever
\* the row has become since it was read.  read is left to the strategy.
Return(newState, newActions, ending) ==
  /\ UpdateIsLegal(status, "running")
  /\ status' = "running"
  /\ lastError' = FALSE
  /\ state' = newState
  /\ actions' = newActions
  /\ done' = ending
  /\ pc' = "acting"
  /\ UNCHANGED <<strategy, intent, engaged, pausedByHalt, row, upstream, history>>

\* failJob: the strategy threw.
FailJob ==
  /\ pc = "called"
  /\ UpdateIsLegal(status, "failed")
  /\ status' = "failed"
  /\ lastError' = TRUE
  /\ pc' = "idle"
  /\ row' = NoRow
  /\ UNCHANGED <<strategy, state, intent, engaged, pausedByHalt, actions, done,
                 upstream, read, history>>

EndAdvance ==
  /\ pc = "acting"
  /\ actions = <<>>
  /\ IF done = NotDone
     THEN UNCHANGED <<status, lastError>>
     ELSE /\ UpdateIsLegal(status, done.status)
          /\ status' = done.status
          /\ lastError' = done.reason
  /\ pc' = "idle"
  /\ row' = NoRow
  /\ done' = NotDone
  /\ UNCHANGED <<strategy, state, intent, engaged, pausedByHalt, actions, upstream, read, history>>

Vanish ==
  /\ pc' = "down"
  /\ row' = NoRow
  /\ actions' = <<>>
  /\ done' = NotDone

\* updateJob throws JobTransitionError outside every try: Node exits.
UpdateThrows ==
  /\ \/ pc = "called" /\ ~UpdateIsLegal(status, "running")
     \/ /\ pc = "acting" /\ actions = <<>> /\ done # NotDone
        /\ ~UpdateIsLegal(status, done.status)
  /\ Vanish
  /\ UNCHANGED <<database, upstream, read, history>>

Crash ==
  /\ pc # "down"
  /\ crashes < MaxCrashes
  /\ crashes' = crashes + 1
  /\ disturbed' = disturbed \union {"crash"}
  /\ Vanish
  /\ UNCHANGED <<database, upstream, read>>

\* Wrong: an id that was not found is taken for an order.
AdoptAlways(l) == "submitted"

\* What reconcile makes of a pending intent once its search is finished.
Reconciled(l) == IF order[l] \in Accepted THEN "submitted" ELSE "abandoned"

\* start: reconcile settles what is pending; Engine has it step by step.  No request
\* is still on its way by then.
Restart ==
  /\ pc = "down"
  /\ \A l \in Legs : order[l] # "wire"
  /\ \E unfinished \in SUBSET {l \in Legs : "unfinished" \in Faults} :
       intent' = [l \in Legs |->
                    IF intent[l] # "pending" \/ l \in unfinished THEN intent[l]
                    ELSE Reconciled(l)]
  /\ pc' = "idle"
  /\ UNCHANGED <<strategy, status, lastError, state, engaged, pausedByHalt, row, actions,
                 done, upstream, read, history>>
-----------------------------------------------------------------------------
(***************************************************************************)
(* The process: performAction.                                             *)
(***************************************************************************)
Performing(type) == pc = "acting" /\ actions # <<>> /\ Head(actions).type = type
Leg == Head(actions).leg

ActionFailed ==
  /\ lastError' = TRUE
  /\ actions' = Tail(actions)
  /\ pc' = "acting"

\* The price cannot be found, a limit is exceeded, the switch is engaged, or
\* reserveIntent finds the id taken.
RefuseOrder ==
  /\ Performing("submit")
  /\ "refusal" \in Faults \/ engaged \/ intent[Leg] # "none"
  /\ ActionFailed
  /\ UNCHANGED <<strategy, status, state, intent, engaged, pausedByHalt, row, done,
                 upstream, read, history>>

ReserveIntent ==
  /\ Performing("submit")
  /\ ~engaged
  /\ intent[Leg] = "none"
  /\ intent' = [intent EXCEPT ![Leg] = "pending"]
  /\ pc' = "reserved"
  /\ UNCHANGED <<strategy, status, lastError, state, engaged, pausedByHalt, row, actions,
                 done, upstream, read, history>>

\* The checks of submitOrder pass a second time, and the request leaves.
SendOrder ==
  /\ pc = "reserved"
  /\ ~engaged
  /\ order' = [order EXCEPT ![Leg] = "wire"]
  /\ request' = [request EXCEPT ![Leg] = Head(actions).request]
  /\ pc' = "sent"
  /\ UNCHANGED <<database, row, actions, done, filled, cancelSent, read, history>>

SettleFailed ==
  /\ intent' = [intent EXCEPT ![Leg] = "failed"]
  /\ ActionFailed
  /\ UNCHANGED <<strategy, status, state, engaged, pausedByHalt, row, done,
                 upstream, read, history>>

RefuseReserved == pc = "reserved" /\ ("refusal" \in Faults \/ engaged) /\ SettleFailed

OrderRefused == pc = "sent" /\ order[Leg] = "refused" /\ SettleFailed

\* The request times out, or its answer is lost.
AnswerLost == pc = "sent" /\ "lost_answer" \in Faults /\ SettleFailed

OrderAnswered ==
  /\ pc = "sent"
  /\ order[Leg] \in Accepted
  /\ intent' = [intent EXCEPT ![Leg] = "submitted"]
  /\ actions' = Tail(actions)
  /\ pc' = "acting"
  /\ UNCHANGED <<strategy, status, lastError, state, engaged, pausedByHalt, row, done,
                 upstream, read, history>>

CancelOrder ==
  /\ Performing("cancel")
  /\ order[Leg] = "live"
  /\ cancelSent' = cancelSent \union {Leg}
  /\ lastError' \in {lastError} \union (IF "lost_answer" \in Faults THEN {TRUE} ELSE {})
  /\ actions' = Tail(actions)
  /\ UNCHANGED <<strategy, status, state, intent, engaged, pausedByHalt, pc, row, done,
                 order, request, filled, read, history>>

CancelFails ==
  /\ Performing("cancel")
  /\ order[Leg] = "live" => "cancel_fails" \in Faults
  /\ ActionFailed
  /\ UNCHANGED <<strategy, status, state, intent, engaged, pausedByHalt, row, done,
                 upstream, read, history>>
-----------------------------------------------------------------------------
(***************************************************************************)
(* Robinhood.  A market order never rests: it is filled as it is accepted. *)
(* An accepted cancel takes effect some time later, or never, and the      *)
(* order may be filled first.                                              *)
(***************************************************************************)
OrderBecomes(l, s) ==
  /\ order' = [order EXCEPT ![l] = s]
  /\ read' = IF s = "live" THEN read ELSE read \ {l}
  /\ UNCHANGED <<database, memory, cancelSent>>

Fills(l, n) ==
  /\ filled' = [filled EXCEPT ![l] = n]
  /\ OrderBecomes(l, IF n = request[l].size THEN "filled" ELSE "live")
  /\ UNCHANGED request

Judge(l) ==
  /\ order[l] = "wire"
  /\ \/ /\ request[l].market
        /\ Fills(l, request[l].size)
     \/ /\ ~request[l].market
        /\ OrderBecomes(l, "live")
        /\ UNCHANGED <<request, filled>>
     \/ /\ "refusal" \in Faults
        /\ OrderBecomes(l, "refused")
        /\ UNCHANGED <<request, filled>>
  /\ UNCHANGED history

\* A request that never arrives: its sender times out, or is dead.
LoseRequest(l) ==
  /\ order[l] = "wire"
  /\ "lost_answer" \in Faults \/ pc = "down"
  /\ OrderBecomes(l, "absent")
  /\ request' = [request EXCEPT ![l] = NoRequest]
  /\ UNCHANGED <<filled, history>>

\* An order is filled one unit at a time.
Fill(l) ==
  /\ order[l] = "live"
  /\ Fills(l, filled[l] + 1)
  /\ UNCHANGED history

CancelTakesEffect(l) ==
  /\ order[l] = "live"
  /\ l \in cancelSent
  /\ OrderBecomes(l, "cancelled")
  /\ UNCHANGED <<request, filled, history>>

CancelledOutside(l) ==
  /\ "outside" \in Faults \ disturbed
  /\ order[l] = "live"
  /\ OrderBecomes(l, "cancelled")
  /\ disturbed' = disturbed \union {"outside"}
  /\ UNCHANGED <<request, filled, crashes>>

\* What openOrders may return: the live orders whose intent is submitted.  An order
\* may be missing from the first reading after it was accepted, not from the second.
Known    == {l \in Legs : intent[l] = "submitted"}
OpenSet  == {l \in Known : order[l] = "live"}
Unlisted == IF "lag" \in Faults THEN OpenSet \ read ELSE {}
Listings == {S \in SUBSET OpenSet : OpenSet \ S \subseteq Unlisted}

\* The strategy awaits the open orders; the orders that are open now will be listed.
Reads(listing) == listing \in Listings /\ read' = read \union OpenSet
ReadsNothing   == UNCHANGED read

\* Wrong: an order whose fill is not known is taken for unfilled.
KnownFills(l, size, orderIdKnown) == {IF orderIdKnown THEN filled[l] ELSE 0}

\* What a strategy credits a closed order with: what was filled of it, or, when getOrder
\* fails or there is no order id to ask for, what was submitted.
Credits(l, size, orderIdKnown) ==
  (IF orderIdKnown THEN {filled[l]} ELSE {})
    \union (IF ~orderIdKnown \/ "unread" \in Faults THEN {size} ELSE {})

\* An id nobody has used.  One that a crash made everybody forget is as good as new.
FreshLegs(remembered) == {l \in Legs \ remembered : intent[l] = "none"}
-----------------------------------------------------------------------------
(***************************************************************************)
(* The tools.                                                              *)
(***************************************************************************)
Engage ==
  /\ "halt" \in Faults \ disturbed
  /\ ~engaged
  /\ engaged' = TRUE
  /\ IF status = "running"
     THEN status' = "paused" /\ lastError' = TRUE /\ pausedByHalt' = TRUE
     ELSE UNCHANGED <<status, lastError, pausedByHalt>>
  /\ disturbed' = disturbed \union {"halt"}
  /\ UNCHANGED <<strategy, state, intent, memory, upstream, read, crashes>>

Release ==
  /\ engaged
  /\ engaged' = FALSE
  /\ pausedByHalt' = FALSE
  /\ IF pausedByHalt /\ status = "paused"
     THEN status' = "running" /\ lastError' = FALSE
     ELSE UNCHANGED <<status, lastError>>
  /\ UNCHANGED <<strategy, state, intent, memory, upstream, read, history>>

CancelJob ==
  /\ ~IsTerminal(status)
  /\ status' = "cancelled"
  /\ UNCHANGED <<strategy, lastError, state, intent, engaged, pausedByHalt, memory,
                 upstream, read, history>>
-----------------------------------------------------------------------------
Perform ==
  \/ RefuseOrder \/ ReserveIntent \/ SendOrder \/ RefuseReserved
  \/ OrderRefused \/ AnswerLost \/ OrderAnswered \/ CancelOrder \/ CancelFails

Process  == Tick \/ EndAdvance \/ UpdateThrows \/ Restart \/ Perform

Robinhood == \E l \in Legs : Judge(l) \/ LoseRequest(l) \/ Fill(l)
                             \/ CancelTakesEffect(l) \/ CancelledOutside(l)

Operator == Engage \/ Release \/ CancelJob

\* Calling the strategy is added by the module that knows the strategies.
HostNext == Process \/ Crash \/ Robinhood \/ Operator
-----------------------------------------------------------------------------
\* The orders that may still trade, and what an order has traded and may still trade.
InTheBook   == {l \in Legs : order[l] \in {"wire", "live"}}
Exposure(l) == IF l \in InTheBook THEN request[l].size ELSE filled[l]
Traded(S)   == SumFunctionOnSet(filled, S)
Exposed(S)  == SumFunctionOnSet([l \in Legs |-> Exposure(l)], S)
=============================================================================
