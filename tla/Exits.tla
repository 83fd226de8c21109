------------------------------- MODULE Exits --------------------------------
(***************************************************************************)
(* A job of one of the exit strategies, run by the engine through lost     *)
(* answers, refusals, restarts and halts.                                  *)
(***************************************************************************)
EXTENDS Oco, Bracket, TrailingStop

ASSUME ExitsAssumption ==
  /\ PairLegs \subseteq Legs
  /\ Strategies \subseteq {"oco", "bracket", "trailing_stop"}

Init ==
  /\ strategy \in Strategies
  /\ HostInit
  /\ CASE strategy = "oco"           -> OcoInit
       [] strategy = "bracket"       -> BracketInit
       [] strategy = "trailing_stop" -> TrailingStopInit

\* A strategy that cannot read the open orders or a quote throws, and fails its job.
AdvanceThrows ==
  /\ "outage" \in Faults
  /\ OcoReads \/ BracketReads \/ TrailingReads
  /\ FailJob

Advance == OcoAdvance \/ BracketAdvance \/ TrailingAdvance \/ AdvanceThrows

Next == HostNext \/ Advance

Spec == Init /\ [][Next]_hostVars

\* The process keeps running its code, a process that died is started again, and a
\* request sent is judged or lost; everything else is up to others.
Fairness == /\ WF_hostVars(Process \/ Advance)
            /\ WF_hostVars(\E l \in Legs : Judge(l) \/ LoseRequest(l))

FairSpec == Spec /\ Fairness
-----------------------------------------------------------------------------
\* The variables have their types, and the intents tell what the orders are.
TypeInv ==
  /\ strategy \in Strategies
  /\ status \in JobStatus
  /\ lastError \in BOOLEAN
  /\ CASE strategy = "oco"           -> state \in OcoState
       [] strategy = "bracket"       -> state \in BracketState
       [] strategy = "trailing_stop" -> state \in TrailingStopState
  /\ intent \in [Legs -> {"none"} \union IntentStatus]
  /\ engaged \in BOOLEAN /\ pausedByHalt \in BOOLEAN
  /\ pc \in {"down", "idle", "called", "acting", "reserved", "sent"}
  /\ row \in [status : {"pending", "running"}, lastError : BOOLEAN]
  /\ actions \in Seq(Action) /\ Len(actions) <= 2
  /\ done \in [status : {"none", "completed", "failed"}, reason : BOOLEAN]
  /\ order \in [Legs -> OrderStatus]
  /\ request \in [Legs -> Request]
  /\ filled \in [Legs -> 0 .. 1]
  /\ cancelSent \in SUBSET ExitLegs
  /\ read \in SUBSET Legs
  /\ crashes \in 0 .. MaxCrashes
  /\ disturbed \in SUBSET {"crash", "halt", "outside"}
  /\ \A l \in Legs : intent[l] = "submitted" => order[l] \in Accepted

\* An OCO or a bracket that nothing disturbed cancels an exit only when the other one
\* has filled: a leg that was refused, or not listed yet, never costs the position the
\* protection it has (oco.ts:201-204, bracket.ts:233-235).
CancelNeedsAFill ==
  disturbed = {} => \A l \in cancelSent : order[Twin(l)] = "filled"

\* When an OCO completes the survivor whose order id it has is not live, and no leg is
\* live at all if nothing disturbed it (oco.ts:274-276: it does not complete before the
\* cancel has landed).
OcoEndsClosed ==
  [][strategy = "oco" /\ status # "completed" /\ status' = "completed" =>
       /\ disturbed = {} => \A l \in ExitLegs : order[l] # "live"
       /\ Twin(state.filledBy) \notin OpenSet]_hostVars

\* An OCO completes, saying that the survivor was cancelled, only if Robinhood had accepted
\* that cancel, unless a crash or a halt lost the error of one it refused (oco.ts:300-303): a
\* survivor that filled before its cancel came is not taken for a cancelled one.  One that
\* fills after its cancel was accepted is (oco.ts:331-345).
OcoCompletesByItsCancel ==
  strategy = "oco" /\ status = "completed" /\ disturbed \intersect {"crash", "halt"} = {}
    => Twin(state.filledBy) \in cancelSent

\* A bracket that nothing disturbed sends no exit before its entry has filled
\* (bracket.ts:172-175).
ExitsNeedEntry ==
  strategy = "bracket" /\ disturbed = {} /\ order["entry"] # "filled"
    => \A l \in ExitLegs : order[l] = "absent"

\* The stop of a trailing stop never moves back, whatever quotes are read, missing or
\* out of date, and through every restart and halt (trailing-stop.ts:2).
TrailNeverRetreats ==
  [][strategy = "trailing_stop" /\ state.watermark # NoPrice =>
       AtLeast(state.side, state'.watermark, state.watermark)]_hostVars

\* A trailing stop that no crash and no halt disturbed sends one exit.
TrailingExitsOnce ==
  strategy = "trailing_stop" /\ disturbed = {}
    => Cardinality({l \in Legs : order[l] # "absent"}) <= 1

\* A bracket or an OCO one of whose exits has filled does not go on running.
FiredExitsEnd ==
  (strategy # "trailing_stop" /\ status = "running" /\ \E l \in ExitLegs : order[l] = "filled")
    ~> status \notin {"pending", "running"}
=============================================================================
