------------------------------- MODULE Takers -------------------------------
(***************************************************************************)
(* A job of one of the strategies that send orders by plan or signal and   *)
(* do not look at them again, run by the engine through lost answers,      *)
(* refusals, restarts and halts.                                           *)
(***************************************************************************)
EXTENDS Twap, Dca, Accumulate, Ladder, Rebalance, Momentum, MeanReversion

ASSUME TakersAssumption ==
  Strategies \subseteq {"twap", "dca", "accumulate", "ladder", "rebalance", "momentum",
                        "mean_reversion"}

Init ==
  /\ strategy \in Strategies
  /\ HostInit
  /\ now = 0
  /\ CASE strategy = "twap"           -> TwapInit
       [] strategy = "dca"            -> DcaInit
       [] strategy = "accumulate"     -> AccumulateInit
       [] strategy = "ladder"         -> LadderInit
       [] strategy = "rebalance"      -> RebalanceInit
       [] strategy = "momentum"       -> MomentumInit
       [] strategy = "mean_reversion" -> MeanReversionInit

takerVars == <<hostVars, now>>

Timed    == {"accumulate", "momentum", "mean_reversion"}
Signals  == {"momentum", "mean_reversion"}

AdvanceThrows ==
  /\ "outage" \in Faults
  /\ \/ TwapReads \/ DcaReads \/ AccumulateReads \/ RebalanceReads
     \/ pc = "called" /\ strategy \in Signals /\ PositionReads
  /\ FailJob

Advance ==
  \/ TwapAdvance \/ DcaAdvance \/ AccumulateAdvance \/ LadderAdvance
  \/ RebalanceAdvance \/ MomentumAdvance \/ MeanReversionAdvance
  \/ AdvanceThrows

TimePasses == strategy \in Timed /\ PassTime /\ UNCHANGED hostVars

Next ==
  \/ (HostNext \/ Advance) /\ UNCHANGED now
  \/ TimePasses

Spec == Init /\ [][Next]_takerVars

\* As in Makers.
Fairness == /\ WF_takerVars((Process \/ Advance) /\ UNCHANGED now)
            /\ WF_takerVars((\E l \in Legs : Judge(l) \/ LoseRequest(l)) /\ UNCHANGED now)

FairSpec == Spec /\ Fairness
-----------------------------------------------------------------------------
\* The variables have their types, and the intents tell what the orders are.
TypeInv ==
  /\ strategy \in Strategies
  /\ status \in JobStatus
  /\ lastError \in BOOLEAN
  /\ CASE strategy = "twap"           -> state \in TwapState
       [] strategy = "dca"            -> state \in DcaState
       [] strategy = "accumulate"     -> state \in AccumulateState
       [] strategy = "ladder"         -> state \in LadderState
       [] strategy = "rebalance"      -> state \in RebalanceState
       [] strategy = "momentum"       -> state \in MomentumState
       [] strategy = "mean_reversion" -> state \in MeanReversionState
  /\ intent \in [Legs -> {"none"} \union IntentStatus]
  /\ engaged \in BOOLEAN /\ pausedByHalt \in BOOLEAN
  /\ pc \in {"down", "idle", "called", "acting", "reserved", "sent"}
  /\ row \in [status : {"pending", "running"}, lastError : BOOLEAN]
  /\ actions \in Seq(Action)
  /\ done \in [status : {"none", "completed", "failed"}, reason : BOOLEAN]
  /\ order \in [Legs -> OrderStatus]
  /\ request \in [Legs -> Request]
  /\ filled \in [Legs -> Nat]
  /\ cancelSent = {} /\ read \in SUBSET Legs
  /\ now \in 0 .. Duration
  /\ \A l \in Legs : intent[l] = "submitted" => order[l] \in Accepted

Sent         == {l \in Legs : order[l] # "absent"}
SentOf(side) == {l \in Sent : request[l].side = side}

\* What the state says has been released, and what was asked for.
Released ==
  CASE strategy = "twap"       -> state.filledQuantity
    [] strategy = "dca"        -> state.occurrencesDone
    [] strategy = "accumulate" -> state.acquiredQuantity
    [] strategy = "ladder"     -> SumFunctionOnSet(BuildRungs(state.distribution), 1 .. state.placed)
    [] strategy = "rebalance"  -> SumFunctionOnSet(state.executed, DOMAIN state.executed)
    [] strategy \in Signals    -> CASE state.phase = "watching"    -> 0
                                    [] state.phase = "in_position" -> PositionSize
                                    [] state.phase = "exited"      -> 2 * PositionSize

Asked ==
  CASE strategy = "twap"       -> state.total
    [] strategy = "dca"        -> Occurrences
    [] strategy = "accumulate" -> state.target
    [] strategy = "ladder"     -> LadderTotal
    [] OTHER                   -> Released

\* Through every fault, restart and halt, what the orders of a job have traded and may
\* still trade is within what its persisted state has released, and that within what was
\* asked for; a rebalance sells no more of a coin than was held.  No crash makes a slice,
\* a rung, a leg, an entry or an exit go out twice (dca.ts:9-10, ladder.ts:30-32,
\* rebalance.ts:15).
NeverMoreThanReleased ==
  /\ Exposed(Legs) <= Released
  /\ Released <= Asked
  /\ strategy = "rebalance" =>
       \A i \in DOMAIN state.plan :
         state.plan[i].side = "sell" => state.executed[i] <= state.plan[i].heldQuantity

\* Through everything, a schedule that completes without a reason has released all it was
\* asked for: rounding the slices loses less than one increment (twap.ts:89-90), and a
\* skipped purchase is not counted (dca.ts:160-161).
CompletesInFull ==
  status = "completed" /\ ~lastError =>
    CASE strategy = "twap"                            -> Released = RoundDown(state.total)
      [] strategy \in {"dca", "accumulate", "ladder"} -> Released = Asked
      [] OTHER                                        -> TRUE

\* A rebalance that nothing disturbed sends no buy before every sell of the plan has been
\* sent and accepted, a market order that is accepted filling at once, or skipped
\* (rebalance.ts:20-22, 223-226).
SellsFundBuys ==
  strategy = "rebalance" /\ disturbed = {} /\ SentOf("buy") # {} =>
    /\ \A i \in DOMAIN state.plan :
         state.plan[i].side = "sell" => state.status[i] # "pending"
    /\ Cardinality({l \in SentOf("sell") : order[l] = "filled"})
         = Cardinality({i \in DOMAIN state.plan :
                          state.plan[i].side = "sell" /\ state.status[i] = "submitted"})

\* A position that nothing disturbed is closed, before the deadline, only if it has been
\* opened (momentum.ts:164-166, mean-reversion.ts:174-175).
HasExited  == SentOf(Opposite(state.side)) # {}
HasEntered == \E l \in SentOf(state.side) : order[l] = "filled"

PositionIsReal ==
  strategy \in Signals /\ disturbed = {} /\ ~Expired /\ HasExited => HasEntered

\* A ladder that nothing disturbed completes only when all of it has been accepted: the
\* refusal of the last batch is read too (ladder.ts:211-212).
LadderIsWhole ==
  strategy = "ladder" /\ disturbed = {} /\ status = "completed" /\ ~lastError
    => Exposed(Legs) = LadderTotal

\* What does not wait for a price ends, and so does a rebalance, whatever the quotes
\* (rebalance.ts:15-17), and a position past its deadline (momentum.ts:131-133).
HasToEnd ==
  CASE strategy = "twap"                     -> ~state.limited
    [] strategy = "dca"                      -> ~NeedsPrice
    [] strategy \in {"ladder", "rebalance"}  -> TRUE
    [] OTHER                                 -> Expired

BoundedJobsEnd ==
  (status \in {"pending", "running"} /\ HasToEnd) ~> status \notin {"pending", "running"}

\* A position that nothing disturbed is closed only if it has been opened, whatever the
\* deadline (momentum.ts:164-166).
NoPhantomExit == strategy \in Signals /\ disturbed = {} /\ HasExited => HasEntered
=============================================================================
