------------------------------- MODULE Engine -------------------------------
(***************************************************************************)
(* The execution engine of robinhood-mcp: the job store, the supervisors   *)
(* that advance the jobs of that store, the reserve / submit / settle      *)
(* protocol of one order, the reconciliation of a restart, and the tools   *)
(* an operator calls meanwhile.                                            *)
(*                                                                         *)
(* A process is one Node process.  Its code runs to the next await without *)
(* interruption, so one action is the code between two awaits; a crash can *)
(* come before any of them.  The variables fall into three parts: the      *)
(* SQLite file (survives a crash, shared by every process), the memory of  *)
(* each process (lost in a crash), and Robinhood.                          *)
(*                                                                         *)
(* A strategy is abstracted to what the engine sees of it.  A job is a     *)
(* sequence of slices 1, 2, ..., MaxSlices; its persisted state is how     *)
(* many of them it has released, and one advance may release some more,    *)
(* ask for a cancel, finish the job, or throw.  The slice an order is for  *)
(* is part of its client_order_id here, so that "the same slice twice" can *)
(* be stated; Mints tells apart the ids minted for one slice.              *)
(***************************************************************************)
EXTENDS JobModel, Naturals, FiniteSets

CONSTANTS
  Processes,   \* the processes with a supervisor: daemons and trading servers
  Servers,     \* the trading servers, which serve the operator's tools
  OperatorTools, \* the kinds of tools the operator uses
  Jobs,
  MaxSlices,   \* bound: the slices of a job
  MaxRelease,  \* bound: the slices one advance may release
  Mints,       \* bound: the ids randomUUID may mint for one slice
  BatchSize,   \* SupervisorOptions.batchSize
  MaxToolOrders, \* bound: the orders of tools a process holds between check and send
  MaxCrashes,  \* bound: crashes in a behaviour
  Faults,      \* the faults of the network that may happen
  NoJob,       \* no job is being advanced
  NoIntent     \* no order is being submitted

\* "timeout": the answer to a POST may be lost or come too late, whether or not
\*            Robinhood accepts the order.
\* "late":    a POST whose sender died may still be on its way when the restarted
\*            process looks the order up.
\* "inconclusive": a lookup may end before it has seen the whole history.
FaultKinds == {"timeout", "late", "inconclusive"}

\* algo_start and algo_cancel_job; the kill switch; the order tools.
ToolKinds == {"jobs", "halt", "orders"}

Slices    == 1 .. MaxSlices
ClientIds == Jobs \X Slices \X Mints

ASSUME EngineAssumption ==
  /\ Servers \subseteq Processes
  /\ OperatorTools \subseteq ToolKinds
  /\ MaxSlices \in Nat
  /\ MaxRelease \in Nat
  /\ BatchSize \in Nat
  /\ MaxToolOrders \in Nat
  /\ MaxCrashes \in Nat
  /\ Faults \subseteq FaultKinds
  /\ NoJob \notin Jobs
  /\ NoIntent \notin ClientIds

VARIABLES
  \* the database
  status,        \* jobs.status
  released,      \* jobs.state: how many slices the strategy has released
  due,           \* the jobs whose next_run_at has passed
  intent,        \* order_intents.status, by client_order_id
  unresolved,    \* the ids a reconcile reported as unresolved (its log line)
  engaged,       \* the kill switch
  pausedJobIds,  \* the jobs the engage paused
  \* the memory of each process
  pc,            \* where it is
  todo,          \* reconcile: the pending intents still to look up
  answer,        \* reconcile: the verdict on the one that was looked up
  batch,         \* tick: the due jobs still to advance
  seen,          \* tick: the released slices in the rows dueJobs returned
  cur,           \* advanceJob: the job
  toCancel,      \* advanceJob: the cancels the step asked for
  toSubmit,      \* advanceJob: the slices the step released, still to submit
  done,          \* advanceJob: step.done, or "none"
  cid,           \* performAction: the order being submitted
  call,          \* the kill switch handler it is in, which yields to nobody
  toolOrders,    \* the orders of tools that have passed the last check, not yet sent
  \* Robinhood
  order,
  \* bookkeeping
  crashes,
  sentSinceHalt, \* history: the orders each process sent since the last engage
  clearedAtHalt  \* history: those it had past the last check at that engage, unsent

database == <<status, released, due, intent, unresolved,
              engaged, pausedJobIds>>
handlers == <<call, toolOrders>>
memory   == <<pc, todo, answer, batch, seen, cur, toCancel, toSubmit, done, cid, handlers>>
history  == <<sentSinceHalt, clearedAtHalt>>
vars     == <<database, memory, order, crashes, history>>

\* An order at Robinhood: "wire" is sent and not yet judged, "closed" was
\* accepted and has been filled or cancelled since.
OrderStatus    == {"absent", "wire", "refused", "live", "closed"}
Accepted       == {"live", "closed"}
Verdicts       == {"found", "not_found", "inconclusive"}
PcValues       == {"off", "dead", "recovering", "idle", "batch", "advance",
                   "acting", "reserved", "cleared", "sent"}
Down           == {"off", "dead"}
NoCall         == [tool |-> "none", left |-> {}, paused |-> {}]
Active(j)      == status[j] \in {"pending", "running"}

Init ==
  /\ status \in [Jobs -> {"none", "pending"}]
  /\ released = [j \in Jobs |-> 0]
  /\ due = {j \in Jobs : status[j] = "pending"}
  /\ intent = [c \in ClientIds |-> "none"]
  /\ unresolved = {}
  /\ engaged = FALSE
  /\ pausedJobIds = {}
  /\ pc = [p \in Processes |-> "off"]
  /\ todo = [p \in Processes |-> {}]
  /\ answer = [p \in Processes |-> <<NoIntent, "not_found">>]
  /\ batch = [p \in Processes |-> {}]
  /\ seen = [p \in Processes |-> [j \in Jobs |-> 0]]
  /\ cur = [p \in Processes |-> NoJob]
  /\ toCancel = [p \in Processes |-> {}]
  /\ toSubmit = [p \in Processes |-> {}]
  /\ done = [p \in Processes |-> "none"]
  /\ cid = [p \in Processes |-> NoIntent]
  /\ call = [p \in Processes |-> NoCall]
  /\ toolOrders = [p \in Processes |-> 0]
  /\ order = [c \in ClientIds |-> "absent"]
  /\ crashes = 0
  /\ sentSinceHalt = [p \in Processes |-> 0]
  /\ clearedAtHalt = [p \in Processes |-> 0]
-----------------------------------------------------------------------------
(***************************************************************************)
(* Memory.                                                                 *)
(***************************************************************************)
Goto(p, place) == pc' = [pc EXCEPT ![p] = place]

\* The process is gone, and its memory with it.
Vanish(p, place) ==
  /\ Goto(p, place)
  /\ todo' = [todo EXCEPT ![p] = {}]
  /\ answer' = [answer EXCEPT ![p] = <<NoIntent, "not_found">>]
  /\ batch' = [batch EXCEPT ![p] = {}]
  /\ seen' = [seen EXCEPT ![p] = [j \in Jobs |-> 0]]
  /\ cur' = [cur EXCEPT ![p] = NoJob]
  /\ toCancel' = [toCancel EXCEPT ![p] = {}]
  /\ toSubmit' = [toSubmit EXCEPT ![p] = {}]
  /\ done' = [done EXCEPT ![p] = "none"]
  /\ cid' = [cid EXCEPT ![p] = NoIntent]
  /\ call' = [call EXCEPT ![p] = NoCall]
  /\ toolOrders' = [toolOrders EXCEPT ![p] = 0]

(***************************************************************************)
(* start and reconcile.                                                    *)
(***************************************************************************)
NoPendingIntents == {}
PendingIntents == {c \in ClientIds : intent[c] = "pending"}

Start(p) ==
  /\ pc[p] \in Down
  /\ todo' = [todo EXCEPT ![p] = PendingIntents]
  /\ Goto(p, "recovering")
  /\ UNCHANGED <<database, answer, batch, seen, cur, toCancel, toSubmit, done, cid, handlers,
                 order, crashes, history>>

\* What findOrderByClientOrderId may say of an id.  A request still on its way
\* to Robinhood is not in the history.
LookupVerdicts(c) ==
  {v \in Verdicts :
     \/ v = "found" /\ order[c] \in Accepted
     \/ v = "not_found" /\ order[c] \notin Accepted
     \/ v = "inconclusive" /\ "inconclusive" \in Faults}

\* Robinhood answers the lookup; the verdict is applied after the await.
Lookup(p, c) ==
  /\ pc[p] = "recovering"
  /\ c \in todo[p]
  /\ answer[p][1] = NoIntent
  /\ order[c] = "wire" => "late" \in Faults
  /\ \E v \in LookupVerdicts(c) : answer' = [answer EXCEPT ![p] = <<c, v>>]
  /\ UNCHANGED <<database, pc, todo, batch, seen, cur, toCancel, toSubmit, done, cid, handlers,
                 order, crashes, history>>

\* Wrong: the row gets the verdict itself; absence is left pending; an unfinished
\* search is read as absence.
VerdictAsStatus(c, verdict) == verdict
AbsenceIsPending(c, verdict) == IF verdict = "found" THEN "submitted" ELSE intent[c]
UnfinishedIsAbsence(c, verdict) == IF verdict = "found" THEN "submitted" ELSE "abandoned"

\* The status reconcile writes for a verdict; an unfinished search writes nothing.
ReconciledStatus(c, verdict) ==
  CASE verdict = "found"        -> "submitted"
    [] verdict = "not_found"    -> "abandoned"
    [] verdict = "inconclusive" -> intent[c]

ApplyLookup(p) ==
  LET c == answer[p][1]
      verdict == answer[p][2]
  IN /\ pc[p] = "recovering"
     /\ c # NoIntent
     /\ intent' = [intent EXCEPT ![c] = ReconciledStatus(c, verdict)]
     /\ unresolved' = IF verdict = "inconclusive" THEN unresolved \union {c}
                                                  ELSE unresolved
     /\ todo' = [todo EXCEPT ![p] = @ \ {c}]
     /\ answer' = [answer EXCEPT ![p] = <<NoIntent, "not_found">>]
     /\ UNCHANGED <<status, released, due, engaged, pausedJobIds,
                    pc, batch, seen, cur, toCancel, toSubmit, done, cid, handlers,
                    order, crashes, history>>

\* The timer start arms does not keep the process alive.  A trading server waits for its
\* client; a daemon waits for nothing that could happen, its event loop is empty and the
\* process exits, before a first tick.
AfterStart(p) == IF p \in Servers THEN "idle" ELSE "off"

\* start arms the timer once reconcile returns.
Recovered(p) ==
  /\ pc[p] = "recovering"
  /\ todo[p] = {}
  /\ Goto(p, AfterStart(p))
  /\ UNCHANGED <<database, todo, answer, batch, seen, cur, toCancel, toSubmit, done,
                 cid, handlers, order, crashes, history>>

(***************************************************************************)
(* tick.                                                                   *)
(***************************************************************************)
\* Wrong: only a new job is due.
NewJobs == {j \in due : status[j] = "pending"}

DueJobs == {j \in due : Active(j)}

\* The rows a tick may get from dueJobs: all that are due, or BatchSize of them.
DueBatches ==
  {S \in SUBSET DueJobs : \/ S = DueJobs /\ Cardinality(S) <= BatchSize
                          \/ Cardinality(S) = BatchSize}

Tick(p) ==
  /\ pc[p] = "idle"
  /\ \E S \in DueBatches :
       /\ batch' = [batch EXCEPT ![p] = S]
       /\ seen' = [seen EXCEPT ![p] = [j \in Jobs |-> IF j \in S THEN released[j] ELSE 0]]
       /\ Goto(p, IF S = {} THEN "idle" ELSE "batch")
  /\ UNCHANGED <<database, todo, answer, cur, toCancel, toSubmit, done, cid, handlers,
                 order, crashes, history>>

\* advanceJob calls the strategy with the row dueJobs returned, however old.
CallStrategy(p, j) ==
  /\ pc[p] = "batch"
  /\ j \in batch[p]
  /\ batch' = [batch EXCEPT ![p] = @ \ {j}]
  /\ cur' = [cur EXCEPT ![p] = j]
  /\ Goto(p, "advance")
  /\ UNCHANGED <<database, todo, answer, seen, toCancel, toSubmit, done, cid, handlers,
                 order, crashes, history>>

EndTick(p) ==
  /\ pc[p] = "batch"
  /\ batch[p] = {}
  /\ seen' = [seen EXCEPT ![p] = [j \in Jobs |-> 0]]
  /\ Goto(p, "idle")
  /\ UNCHANGED <<database, todo, answer, batch, cur, toCancel, toSubmit, done, cid, handlers,
                 order, crashes, history>>

(***************************************************************************)
(* advanceJob: what follows the strategy's answer.                         *)
(***************************************************************************)
\* A strategy may release slices, ask for an open order to be cancelled, end the job
\* or keep waiting; MaxSlices bounds what it releases.
StepIsPossible(p, k) == seen[p][cur[p]] + k <= MaxSlices

OpenOrders(j) == {c \in ClientIds : c[1] = j /\ intent[c] = "submitted" /\ order[c] = "live"}

\* Wrong: the step's state is not saved; the slices are counted from the row as it is.
UnsavedState(p, k) == seen[p][cur[p]]

\* The state updateJob persists before any action of the step: it follows from the
\* row the tick read, not from the row as it is now.
PersistedState(p, k) == seen[p][cur[p]] + k

Persist(p, k, ending, cancels) ==
  LET j == cur[p]
  IN /\ pc[p] = "advance"
     /\ StepIsPossible(p, k)
     /\ UpdateIsLegal(status[j], "running")
     /\ status' = [status EXCEPT ![j] = "running"]
     /\ released' = [released EXCEPT ![j] = PersistedState(p, k)]
     /\ due' = due \ {j}
     /\ toSubmit' = [toSubmit EXCEPT ![p] =
                       (seen[p][j] + 1) .. (seen[p][j] + k)]
     /\ toCancel' = [toCancel EXCEPT ![p] = cancels]
     /\ done' = [done EXCEPT ![p] = ending]
     /\ Goto(p, "acting")
     /\ UNCHANGED <<intent, unresolved, engaged, pausedJobIds,
                    todo, answer, batch, seen, cur, cid, handlers, order, crashes, history>>

StrategyReturns(p) ==
  \E k \in 0 .. MaxRelease, ending \in {"none", "completed", "failed"},
     cancels \in {{}} \union {{c} : c \in OpenOrders(cur[p])} :
    Persist(p, k, ending, cancels)

BackToBatch(p) ==
  /\ Goto(p, "batch")
  /\ cur' = [cur EXCEPT ![p] = NoJob]
  /\ done' = [done EXCEPT ![p] = "none"]

\* failJob: the strategy threw, or no strategy has the job's name.
StrategyThrows(p) ==
  /\ pc[p] = "advance"
  /\ UpdateIsLegal(status[cur[p]], "failed")
  /\ status' = [status EXCEPT ![cur[p]] = "failed"]
  /\ BackToBatch(p)
  /\ UNCHANGED <<released, due, intent, unresolved, engaged, pausedJobIds,
                 todo, answer, batch, seen, toCancel, toSubmit, cid, handlers,
                 order, crashes, history>>

StepIsDone(p) == toCancel[p] = {} /\ toSubmit[p] = {}

EndAdvance(p) ==
  /\ pc[p] = "acting"
  /\ StepIsDone(p)
  /\ done[p] # "none" => UpdateIsLegal(status[cur[p]], done[p])
  /\ status' = [status EXCEPT ![cur[p]] = IF done[p] = "none" THEN @ ELSE done[p]]
  /\ BackToBatch(p)
  /\ UNCHANGED <<released, due, intent, unresolved, engaged, pausedJobIds,
                 todo, answer, batch, seen, toCancel, toSubmit, cid, handlers,
                 order, crashes, history>>

\* The status an updateJob of the supervisor is about to write.
NextUpdate(p) ==
  CASE pc[p] = "advance"                                     -> {"running", "failed"}
    [] pc[p] = "acting" /\ StepIsDone(p) /\ done[p] # "none" -> {done[p]}
    [] OTHER                                                 -> {}

\* updateJob throws JobTransitionError outside every try of advanceJob.  The promise
\* of tick rejects, start's timer callback does not catch it, and Node exits.
UpdateThrows(p) ==
  /\ \E to \in NextUpdate(p) : ~UpdateIsLegal(status[cur[p]], to)
  /\ Vanish(p, "dead")
  /\ UNCHANGED <<database, order, crashes, history>>

(***************************************************************************)
(* performAction: cancel.                                                  *)
(***************************************************************************)
CancelOrder(p, c) ==
  /\ pc[p] = "acting"
  /\ c \in toCancel[p]
  /\ toCancel' = [toCancel EXCEPT ![p] = @ \ {c}]
  /\ order' = [order EXCEPT ![c] = "closed"]
  /\ order[c] = "live"
  /\ UNCHANGED <<database, pc, todo, answer, batch, seen, cur, toSubmit, done, cid, handlers,
                 crashes, history>>

\* The order is no longer open, or the request failed: last_error, nothing else.
CancelFails(p, c) ==
  /\ pc[p] = "acting"
  /\ c \in toCancel[p]
  /\ toCancel' = [toCancel EXCEPT ![p] = @ \ {c}]
  /\ UNCHANGED <<database, pc, todo, answer, batch, seen, cur, toSubmit, done, cid, handlers,
                 order, crashes, history>>

(***************************************************************************)
(* performAction: submit.  "acting" awaits the price of the next slice,    *)
(* "reserved" the price submitOrder asks for again, "cleared" the token of *)
(* the rate limiter (and the account number), "sent" the answer.           *)
(***************************************************************************)
\* The step's submits come after its cancels, and in the order of the slices.
Pricing(p, s) ==
  /\ pc[p] = "acting"
  /\ toCancel[p] = {}
  /\ s \in toSubmit[p]
  /\ \A t \in toSubmit[p] : s <= t

\* Wrong: the switch is not read.
NeverHalted == TRUE

\* assertNotHalted: every check of an order reads the switch from the database.
NotHalted == ~engaged

\* Refused before it was reserved: halted, over a cap, or not priceable.
RefuseOrder(p, s) ==
  /\ Pricing(p, s)
  /\ toSubmit' = [toSubmit EXCEPT ![p] = @ \ {s}]
  /\ UNCHANGED <<status, released, due, intent, unresolved, engaged, pausedJobIds,
                 pc, todo, answer, batch, seen, cur, toCancel, done, cid, handlers,
                 order, crashes, history>>

\* reserveIntent, under an id nobody has used.
ReserveIntent(p, s, m) ==
  /\ Pricing(p, s)
  /\ NotHalted
  /\ intent[<<cur[p], s, m>>] = "none"
  /\ intent' = [intent EXCEPT ![<<cur[p], s, m>>] = "pending"]
  /\ cid' = [cid EXCEPT ![p] = <<cur[p], s, m>>]
  /\ toSubmit' = [toSubmit EXCEPT ![p] = @ \ {s}]
  /\ Goto(p, "reserved")
  /\ UNCHANGED <<status, released, due, unresolved, engaged, pausedJobIds,
                 todo, answer, batch, seen, cur, toCancel, done, handlers,
                 order, crashes, history>>

\* settleIntent overwrites whatever status the row has by now.
SettleIntent(p, outcome) ==
  /\ intent' = [intent EXCEPT ![cid[p]] = outcome]
  /\ cid' = [cid EXCEPT ![p] = NoIntent]
  /\ Goto(p, "acting")

SettleFailed(p) ==
  /\ SettleIntent(p, "failed")
  /\ UNCHANGED <<status, released, due, unresolved, engaged, pausedJobIds,
                 todo, answer, batch, seen, cur, toCancel, toSubmit, done, handlers,
                 order, crashes, history>>

\* The second price is known and the second assertAllowed passes.
ClearToSend(p) ==
  /\ pc[p] = "reserved"
  /\ NotHalted
  /\ Goto(p, "cleared")
  /\ UNCHANGED <<database, todo, answer, batch, seen, cur, toCancel, toSubmit, done, cid, handlers,
                 order, crashes, history>>

RefuseReserved(p) ==
  /\ pc[p] = "reserved"
  /\ SettleFailed(p)

\* History: one more order of the process has gone out.
CountSent(p) ==
  /\ sentSinceHalt' = [sentSinceHalt EXCEPT ![p] = IF engaged THEN @ + 1 ELSE 0]
  /\ UNCHANGED clearedAtHalt

SendOrder(p) ==
  /\ pc[p] = "cleared"
  /\ order' = [order EXCEPT ![cid[p]] = "wire"]
  /\ CountSent(p)
  /\ Goto(p, "sent")
  /\ UNCHANGED <<database, todo, answer, batch, seen, cur, toCancel, toSubmit, done, cid, handlers,
                 crashes>>

OrderAnswered(p) ==
  /\ pc[p] = "sent"
  /\ order[cid[p]] \in Accepted
  /\ SettleIntent(p, "submitted")
  /\ UNCHANGED <<status, released, due, unresolved, engaged, pausedJobIds,
                 todo, answer, batch, seen, cur, toCancel, toSubmit, done, handlers,
                 order, crashes, history>>

OrderRefused(p) ==
  /\ pc[p] = "sent"
  /\ order[cid[p]] = "refused"
  /\ SettleFailed(p)

\* fetch timed out, or the answer was a 5xx or not JSON: the catch of performAction
\* cannot tell this from a refusal.
AnswerLost(p) ==
  /\ pc[p] = "sent"
  /\ "timeout" \in Faults
  /\ order[cid[p]] \in {"wire"} \union Accepted
  /\ SettleFailed(p)

(***************************************************************************)
(* Robinhood, and time.                                                    *)
(***************************************************************************)
Judge(c) ==
  /\ order[c] = "wire"
  /\ \E verdict \in {"live", "refused"} : order' = [order EXCEPT ![c] = verdict]
  /\ UNCHANGED <<database, memory, crashes, history>>

\* The order fills, or the user cancels it.
Close(c) ==
  /\ order[c] = "live"
  /\ order' = [order EXCEPT ![c] = "closed"]
  /\ UNCHANGED <<database, memory, crashes, history>>

BecomeDue(j) ==
  /\ j \notin due
  /\ status[j] \in {"pending", "running", "paused"}
  /\ due' = due \union {j}
  /\ UNCHANGED <<status, released, intent, unresolved, engaged,
                 pausedJobIds, memory, order, crashes, history>>

Crash(p) ==
  /\ pc[p] \notin Down
  /\ crashes < MaxCrashes
  /\ crashes' = crashes + 1
  /\ Vanish(p, "off")
  /\ UNCHANGED <<database, order, history>>

(***************************************************************************)
(* The tools of a trading server.                                          *)
(***************************************************************************)
algo_start(q, j) ==
  /\ pc[q] \notin Down
  /\ status[j] = "none"
  /\ status' = [status EXCEPT ![j] = "pending"]
  /\ due' = due \union {j}
  /\ UNCHANGED <<released, intent, unresolved, engaged, pausedJobIds,
                 memory, order, crashes, history>>

algo_cancel_job(q, j) ==
  /\ pc[q] \notin Down
  /\ status[j] # "none" /\ ~IsTerminal(status[j])
  /\ status' = [status EXCEPT ![j] = "cancelled"]
  /\ UNCHANGED <<released, due, intent, unresolved, engaged, pausedJobIds,
                 memory, order, crashes, history>>

(***************************************************************************)
(* The order tools share the executor of the supervisor, and run between   *)
(* its steps: a call parks at the awaits behind the last check, any number *)
(* of them at once.  Their orders belong to no job and have no intent.     *)
(***************************************************************************)
\* submitOrder: the price is known and the order passes the last check.
ClearToolOrder(q) ==
  /\ pc[q] \notin Down
  /\ NotHalted
  /\ toolOrders[q] < MaxToolOrders
  /\ toolOrders' = [toolOrders EXCEPT ![q] = @ + 1]
  /\ UNCHANGED <<database, pc, todo, answer, batch, seen, cur, toCancel, toSubmit, done, cid,
                 call, order, crashes, history>>

\* A call leaves the awaits and sends its order.
SendToolOrder(q) ==
  /\ toolOrders[q] > 0
  /\ toolOrders' = [toolOrders EXCEPT ![q] = @ - 1]
  /\ CountSent(q)
  /\ UNCHANGED <<database, pc, todo, answer, batch, seen, cur, toCancel, toSubmit, done, cid,
                 call, order, crashes>>

\* The account number could not be read: the call throws and sends nothing.
ToolOrderFails(q) ==
  /\ toolOrders[q] > 0
  /\ toolOrders' = [toolOrders EXCEPT ![q] = @ - 1]
  /\ UNCHANGED <<database, pc, todo, answer, batch, seen, cur, toCancel, toSubmit, done, cid,
                 call, order, crashes, history>>

(***************************************************************************)
(* The handlers of the kill switch.  They have no await, so the process    *)
(* does nothing else meanwhile, but each of their writes is on its own:    *)
(* another process, or a crash, can come between two of them.              *)
(***************************************************************************)
\* The orders of a process that have passed the last check and are not sent.
PastTheCheck(p) == toolOrders[p] + (IF pc[p] = "cleared" THEN 1 ELSE 0)

\* History: what a halt finds past the check, and nothing sent since.
BeginHalt ==
  /\ sentSinceHalt' = [p \in Processes |-> 0]
  /\ clearedAtHalt' = [p \in Processes |-> PastTheCheck(p)]

EndHalt ==
  /\ sentSinceHalt' = [p \in Processes |-> 0]
  /\ clearedAtHalt' = [p \in Processes |-> 0]

\* Block first, pause second: the switch is written before the running jobs are listed.
risk_kill_switch_engage(q) ==
  /\ pc[q] \notin Down
  /\ ~engaged
  /\ engaged' = TRUE
  /\ pausedJobIds' = {}
  /\ call' = [call EXCEPT ![q] = [tool |-> "engage", paused |-> {},
                                 left |-> {j \in Jobs : status[j] = "running"}]]
  /\ BeginHalt
  /\ UNCHANGED <<status, released, due, intent, unresolved, pc, todo, answer, batch, seen,
                 cur, toCancel, toSubmit, done, cid, toolOrders, order,
                 crashes>>

\* updateJob pauses one of the listed jobs; for one that ended since it throws.
PauseJob(q, j) ==
  LET legal == UpdateIsLegal(status[j], "paused")
  IN /\ call[q].tool = "engage"
     /\ j \in call[q].left
     /\ status' = IF legal THEN [status EXCEPT ![j] = "paused"] ELSE status
     /\ call' = [call EXCEPT ![q] = [tool |-> "engage", left |-> call[q].left \ {j},
                     paused |-> IF legal THEN call[q].paused \union {j} ELSE call[q].paused]]
     /\ UNCHANGED <<released, due, intent, unresolved, engaged, pausedJobIds, pc, todo,
                    answer, batch, seen, cur, toCancel, toSubmit, done, cid, toolOrders, order,
                    crashes, history>>

\* Wrong: only the first write is made, before any job is paused.
ForgetPaused(q) == {}

RecordedPauses(q) == call[q].paused

\* The second write: the whole row again, with the ids of the paused jobs.
EngageReturns(q) ==
  /\ call[q].tool = "engage"
  /\ call[q].left = {}
  /\ engaged' = TRUE
  /\ pausedJobIds' = RecordedPauses(q)
  /\ IF engaged THEN UNCHANGED history ELSE BeginHalt
  /\ call' = [call EXCEPT ![q] = NoCall]
  /\ UNCHANGED <<status, released, due, intent, unresolved, pc, todo, answer, batch, seen,
                 cur, toCancel, toSubmit, done, cid, toolOrders, order,
                 crashes>>

risk_kill_switch_release(q) ==
  /\ pc[q] \notin Down
  /\ engaged
  /\ call' = [call EXCEPT ![q] = [tool |-> "release", left |-> pausedJobIds, paused |-> {}]]
  /\ UNCHANGED <<database, pc, todo, answer, batch, seen, cur, toCancel, toSubmit, done, cid,
                 toolOrders, order, crashes, history>>

\* A job somebody moved meanwhile is left as it is.
ResumeJob(q, j) ==
  /\ call[q].tool = "release"
  /\ j \in call[q].left
  /\ status' = IF status[j] = "paused" THEN [status EXCEPT ![j] = "running"] ELSE status
  /\ call' = [call EXCEPT ![q] = [tool |-> "release", left |-> call[q].left \ {j},
                                 paused |-> {}]]
  /\ UNCHANGED <<released, due, intent, unresolved, engaged, pausedJobIds, pc, todo,
                 answer, batch, seen, cur, toCancel, toSubmit, done, cid, toolOrders, order,
                 crashes, history>>

\* Orders are accepted again once every job has been resumed, and not before.
ReleaseReturns(q) ==
  /\ call[q].tool = "release"
  /\ call[q].left = {}
  /\ engaged' = FALSE
  /\ pausedJobIds' = {}
  /\ EndHalt
  /\ call' = [call EXCEPT ![q] = NoCall]
  /\ UNCHANGED <<status, released, due, intent, unresolved, pc, todo, answer, batch, seen,
                 cur, toCancel, toSubmit, done, cid, toolOrders, order,
                 crashes>>

-----------------------------------------------------------------------------
Reconcile(p) ==
  \/ Start(p)
  \/ \E c \in ClientIds : Lookup(p, c)
  \/ ApplyLookup(p)
  \/ Recovered(p)

Advance(p) ==
  \/ Tick(p)
  \/ \E j \in Jobs : CallStrategy(p, j)
  \/ EndTick(p)
  \/ StrategyReturns(p)
  \/ StrategyThrows(p)
  \/ EndAdvance(p)
  \/ UpdateThrows(p)

Act(p) ==
  \/ \E c \in ClientIds : CancelOrder(p, c) \/ CancelFails(p, c)
  \/ \E s \in Slices : RefuseOrder(p, s) \/ \E m \in Mints : ReserveIntent(p, s, m)
  \/ ClearToSend(p)
  \/ RefuseReserved(p)
  \/ SendOrder(p)
  \/ OrderAnswered(p)
  \/ OrderRefused(p)
  \/ AnswerLost(p)

Handle(p) ==
  \/ \E j \in Jobs : PauseJob(p, j) \/ ResumeJob(p, j)
  \/ EngageReturns(p)
  \/ ReleaseReturns(p)

\* The supervisor goes on when no handler of the kill switch has the process.
Supervise(p) ==
  /\ call[p] = NoCall
  /\ Reconcile(p) \/ Advance(p) \/ Act(p)

ToolOrder(q) == ClearToolOrder(q) \/ SendToolOrder(q) \/ ToolOrderFails(q)

Tools(q) ==
  /\ call[q] = NoCall
  /\ \/ "jobs" \in OperatorTools /\ \E j \in Jobs : algo_start(q, j) \/ algo_cancel_job(q, j)
     \/ "orders" \in OperatorTools /\ ToolOrder(q)
     \/ "halt" \in OperatorTools /\ risk_kill_switch_engage(q)
     \/ "halt" \in OperatorTools /\ risk_kill_switch_release(q)

World ==
  \/ \E c \in ClientIds : Judge(c) \/ Close(c)
  \/ \E j \in Jobs : BecomeDue(j)

Next ==
  \/ \E p \in Processes : Supervise(p) \/ Handle(p) \/ Crash(p)
  \/ \E q \in Servers : Tools(q)
  \/ World

Spec == Init /\ [][Next]_vars

\* The event loop of a running process turns, a handler of the kill switch runs to its end,
\* a request is answered or times out, whoever starts a process starts it again when it is
\* gone, and next_run_at comes.  Nobody has to call a tool, let an order tool go on, crash,
\* or fill an order; and a daemon gets no tick from any of this.
Fairness ==
  /\ \A p \in Processes : WF_vars(Supervise(p)) /\ WF_vars(Handle(p))
  /\ \A c \in ClientIds : WF_vars(Judge(c))
  /\ \A j \in Jobs : WF_vars(BecomeDue(j))

FairSpec == Spec /\ Fairness

-----------------------------------------------------------------------------
TypeOK ==
  /\ status \in [Jobs -> JobStatus \union {"none"}]
  /\ released \in [Jobs -> 0 .. MaxSlices]
  /\ due \in SUBSET Jobs
  /\ intent \in [ClientIds -> IntentStatus \union {"none"}]
  /\ unresolved \in SUBSET ClientIds
  /\ engaged \in BOOLEAN
  /\ pausedJobIds \in SUBSET Jobs
  /\ pc \in [Processes -> PcValues]
  /\ todo \in [Processes -> SUBSET ClientIds]
  /\ answer \in [Processes -> (ClientIds \union {NoIntent}) \X Verdicts]
  /\ batch \in [Processes -> SUBSET Jobs]
  /\ seen \in [Processes -> [Jobs -> 0 .. MaxSlices]]
  /\ cur \in [Processes -> Jobs \union {NoJob}]
  /\ toCancel \in [Processes -> SUBSET ClientIds]
  /\ toSubmit \in [Processes -> SUBSET Slices]
  /\ done \in [Processes -> {"none", "completed", "failed"}]
  /\ cid \in [Processes -> ClientIds \union {NoIntent}]
  /\ call \in [Processes -> [tool : {"none", "engage", "release"},
                          left : SUBSET Jobs, paused : SUBSET Jobs]]
  /\ order \in [ClientIds -> OrderStatus]
  /\ crashes \in 0 .. MaxCrashes
  /\ toolOrders \in [Processes -> 0 .. MaxToolOrders]
  /\ sentSinceHalt \in [Processes -> Nat]
  /\ clearedAtHalt \in [Processes -> Nat]

SameSlice(c, d) == c[1] = d[1] /\ c[2] = d[2]

\* No crash, lost answer, restart or operator makes the engine send a second order for
\* a slice: the double fill the reserve / submit / settle protocol exists to prevent.
AtMostOneOrderPerSlice ==
  \A c, d \in ClientIds :
    order[c] # "absent" /\ order[d] # "absent" /\ SameSlice(c, d) => c = d

\* While requests are not lost on the way, an order Robinhood accepted is never one the
\* database calls failed or abandoned: what a restart does not know of, it will look up.
NoOrphanOrder ==
  \A c \in ClientIds : order[c] \in Accepted => intent[c] \in {"pending", "submitted"}

\* A pending intent always has someone to settle it: the process that is submitting it,
\* one that is reconciling it or will on its restart; or a reconcile said it could not.
PendingIntentIsOwned ==
  \A c \in ClientIds : intent[c] = "pending" =>
    \/ c \in unresolved
    \/ \E p \in Processes : pc[p] \in Down \/ c \in todo[p] \/ cid[p] = c

\* The kill switch is read before the last awaits of a submission, so what a process had
\* past that check when the switch was engaged may still go out, the supervisor's order and
\* those of the tools running beside it: those, and no other.
HaltAdmitsTheCleared ==
  engaged => \A p \in Processes : sentSinceHalt[p] <= clearedAtHalt[p]

\* Unless a crash cuts an engage short, no job is left paused for good: the switch is
\* engaged and its row names the job, or the engage that paused it is about to say so.
\* Nothing but a release resumes a paused job, and a release resumes the named ones.
PausedJobsAreRemembered ==
  crashes = 0 => \A j \in Jobs : status[j] = "paused" =>
    \/ engaged /\ j \in pausedJobIds
    \/ \E q \in Processes : j \in call[q].paused

\* An ended job stays as it ended and releases no slice, though the supervisor works
\* from a row it read before the job was cancelled.
TerminalIsFinal ==
  [][\A j \in Jobs : IsTerminal(status[j]) =>
       status'[j] = status[j] /\ released'[j] = released[j]]_vars

\* The engine implements the promise of SliceLedger.
Ledger == INSTANCE SliceLedger WITH
            open <- {j \in Jobs : ~IsTerminal(status[j])},
            sent <- {c \in ClientIds : order[c] # "absent"}

RefinesSliceLedger == Ledger!Spec

\* An intent a crash left pending is settled by the restart, or reported unresolved.
PendingIntentsResolve ==
  \A c \in ClientIds :
    intent[c] = "pending" ~> intent[c] # "pending" \/ c \in unresolved

\* A due job is advanced, though another job throws, waits, or takes the process down.
DueJobsAdvance ==
  \A j \in Jobs :
    j \in due /\ Active(j) ~> ~Active(j) \/ \E p \in Processes : cur[p] = j

(***************************************************************************)
(* What the documents and comments say, and the code does not do.          *)
(***************************************************************************)
\* supervisor.ts, advanceJob: a job "never takes down the supervisor".
SupervisorSurvives == \A p \in Processes : pc[p] # "dead"
=============================================================================
