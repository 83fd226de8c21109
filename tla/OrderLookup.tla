----------------------------- MODULE OrderLookup -----------------------------
(***************************************************************************)
(* The walk of the order history that tells whether an order of an earlier *)
(* life of the process reached the venue. Pages run from the newest order  *)
(* to the oldest, one order a page, while orders keep arriving.            *)
(***************************************************************************)
EXTENDS OrderGate

CONSTANTS
  Reconciler,  \* the caller that starts with a lookup: the supervisor
  MaxPages,    \* RECONCILE_MAX_PAGES
  MaxHistory   \* bound: the orders there are when the process starts

ASSUME LookupAssumption ==
  MaxPages \in Nat \ {0} /\ MaxHistory \in Nat /\ Reconciler \in Callers

VARIABLES
  target,  \* where the order looked for is in the history; 0 when it is not
  onWire,  \* its request has not reached the venue yet
  walk

lookupVars == <<target, onWire, walk>>

Verdicts == {"none", "found", "not_found", "inconclusive", "error"}

\* present: the order was there when the walk began.
\* broken:  the venue has sent a page that belongs to no walk.
Walk(present, broken, verdict) ==
  [at |-> 0, pages |-> 0, found |-> FALSE,
   present |-> present, broken |-> broken, verdict |-> verdict]

LookupInit ==
  /\ orders \in 0..MaxHistory
  /\ target \in 0..orders
  /\ onWire \in BOOLEAN
  /\ onWire => target = 0
  /\ walk = Walk(FALSE, FALSE, "none")

Begin(c) == Call(c, "walking", Get) /\ walk' = Walk(target > 0, FALSE, "none")

\* A restart looks its pending order up before anything else.
findOrderByClientOrderId(c) ==
  /\ c = Reconciler
  /\ calls[c] = 0
  /\ Arrive(c)
  /\ IF account THEN Begin(c) ELSE Call(c, "walk_account", Get) /\ UNCHANGED walk
  /\ UNCHANGED <<gateVars, target, onWire>>

\* Only what the verdict is judged by is kept of a walk that has ended.
Concludes(c, verdict, broken) == Return(c) /\ walk' = Walk(walk.present, broken, verdict)

WalkAccountRead(c) ==
  /\ Waits(c, "walk_account", "answered")
  /\ \/ account' = TRUE /\ Begin(c)
     \/ UNCHANGED account /\ Concludes(c, "error", FALSE)
  /\ UNCHANGED <<calls, want, worth, spent, ordered, lost, orders, target, onWire>>

\* Wrong: the end of the walk is taken for the end of the history.
TruncatedIsAbsent(found, truncated) == IF found THEN "found" ELSE "not_found"

Verdict(found, truncated) ==
  IF found THEN "found" ELSE IF truncated THEN "inconclusive" ELSE "not_found"

At    == IF walk.pages = 0 THEN orders ELSE walk.at
Found == walk.found \/ (target > 0 /\ At = target)

Turn(c, at, broken) ==
  /\ Call(c, "walking", Get)
  /\ walk' = [walk EXCEPT !.found = Found, !.at = at, !.pages = @ + 1, !.broken = broken]

ReadPage(c) ==
  /\ Waits(c, "walking", "answered")
  /\ IF At > 1 /\ walk.pages + 1 < MaxPages
     THEN Turn(c, At - 1, walk.broken)
     ELSE Concludes(c, Verdict(Found, At > 1), walk.broken)
  /\ UNCHANGED <<calls, gateVars, target, onWire>>

\* A page without a usable cursor, or with the cursor it was asked for; a body
\* that is no page, for which everything read before is dropped.
BrokenPage(c) ==
  /\ Waits(c, "walking", "answered")
  /\ \E found \in {Found, FALSE} : Concludes(c, Verdict(found, FALSE), TRUE)
  /\ UNCHANGED <<calls, gateVars, target, onWire>>

\* A cursor that leads somewhere else in the history.
StrayPage(c) ==
  /\ Waits(c, "walking", "answered")
  /\ walk.pages + 1 < MaxPages
  /\ \E at \in 1..orders : at # At /\ Turn(c, at, TRUE)
  /\ UNCHANGED <<calls, gateVars, target, onWire>>

\* reconcile catches the error and leaves the intent pending.
WalkFails(c) ==
  /\ Waits(c, "walking", "failed") \/ Waits(c, "walk_account", "failed")
  /\ Concludes(c, "error", FALSE)
  /\ UNCHANGED <<calls, gateVars, target, onWire>>

ArrivesLate ==
  /\ onWire
  /\ onWire' = FALSE
  /\ orders' = orders + 1
  /\ target' = orders + 1
=============================================================================
