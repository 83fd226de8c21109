------------------------------- MODULE Gateway -------------------------------
(***************************************************************************)
(* One process and the venue: concurrent tool calls and the supervisor     *)
(* share the token bucket, the ledger and the account number, each at its  *)
(* own await.                                                              *)
(***************************************************************************)
EXTENDS OrderLookup, FiniteSets

ASSUME GatewayAssumption == IsFiniteSet(Callers)

vars == <<tokens, req, task, calls, gateVars, lookupVars>>

Init == HttpInit /\ GateInit /\ LookupInit

\* The supervisor places orders once it has reconciled.
ToolCall(c) ==
  /\ c = Reconciler => calls[c] > 0
  /\ \/ \E r \in Requests : submitOrder(c, r)
     \/ cancelOrder(c)
  /\ UNCHANGED <<tokens, lookupVars>>

Resume(c) ==
  /\ \/ /\ Priced(c) \/ AccountRead(c) \/ Posted(c) \/ Cancelled(c) \/ CallFails(c)
        /\ UNCHANGED lookupVars
     \/ WalkAccountRead(c) \/ ReadPage(c) \/ BrokenPage(c) \/ StrayPage(c) \/ WalkFails(c)
  /\ UNCHANGED tokens

\* Only an order that is being posted changes the venue.
Attempt(c) ==
  /\ \/ /\ OrderAnswered(c) \/ AnswerLost(c)
        /\ UNCHANGED <<want, worth, spent, account>>
     \/ /\ task[c] # "posting"
        /\ Answer(c)
        /\ UNCHANGED gateVars
     \/ /\ Fail(c) \/ Retry(c)
        /\ UNCHANGED gateVars
  /\ UNCHANGED <<tokens, task, calls, lookupVars>>

Wait(c) ==
  /\ \/ TakeToken(c)
     \/ Wake(c) /\ UNCHANGED tokens
  /\ UNCHANGED <<task, calls, gateVars, lookupVars>>

GoOn(c) == Resume(c) \/ Attempt(c) \/ Wait(c)

Fill == Refill /\ UNCHANGED <<task, calls, gateVars, lookupVars>>

Late ==
  /\ ArrivesLate
  /\ UNCHANGED <<tokens, req, task, calls, want, worth, spent, account, ordered, lost, walk>>

Next ==
  \/ \E c \in Callers :
       \/ ToolCall(c)
       \/ findOrderByClientOrderId(c) /\ UNCHANGED tokens
       \/ GoOn(c)
  \/ Fill \/ Late

\* A call that has begun goes on: its awaits end, its request times out after
\* 30 seconds, its waits are timers, and time fills the bucket.
Spec ==
  /\ Init /\ [][Next]_vars
  /\ \A c \in Callers : WF_vars(GoOn(c))
  /\ WF_vars(Fill)

-----------------------------------------------------------------------------
Tasks == {"idle", "pricing", "account", "posting", "cancelling", "walk_account", "walking"}

\* Every variable keeps its type. The bucket is the part that could fail: it
\* never goes below zero though waiters wake together, nor above its burst.
TypeInv ==
  /\ tokens \in 0..Burst
  /\ req \in [Callers -> [stage : Stages, left : 0..GetRetries]]
  /\ task \in [Callers -> Tasks]
  /\ calls \in [Callers -> 0..MaxCalls]
  /\ want \in [Callers -> Requests \cup {Nothing}]
  /\ worth \in [Callers -> 0..MaxOrderUsd]
  /\ spent \in Nat /\ ordered \in Nat /\ lost \in Nat /\ orders \in Nat /\ target \in Nat
  /\ account \in BOOLEAN /\ onWire \in BOOLEAN
  /\ walk \in [at : Nat, pages : 0..(MaxPages - 1), found : BOOLEAN,
               present : BOOLEAN, broken : BOOLEAN, verdict : Verdicts]

\* The daily cap is checked before the awaits of a submission and counted after
\* them: what the venue takes exceeds it by the orders of the other callers that
\* were in flight together, one each, and by those whose answers were lost.
SpendIsBounded ==
  ordered <= MaxDailyUsd + lost + (Cardinality(Callers) - 1) * MaxOrderUsd

\* An order is called found only if the venue has it, and not found only if the
\* venue did not have it when the walk began, unless a page broke the walk:
\* whatever arrives meanwhile, however long the history and whatever fails.
LookupIsHonest ==
  /\ walk.verdict = "found" => target > 0
  /\ walk.verdict = "not_found" /\ ~walk.broken => ~walk.present

\* Every call comes back: through failed attempts, an empty bucket whose
\* waiters have no queue, and a venue whose cursors lead nowhere.
EveryCallReturns == \A c \in Callers : task[c] # "idle" ~> task[c] = "idle"
=============================================================================
