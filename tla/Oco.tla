-------------------------------- MODULE Oco ---------------------------------
(***************************************************************************)
(* The OCO: two resting exits, and the first one to fill cancels the       *)
(* other.  Phases: place, monitor, cancelling.                             *)
(***************************************************************************)
EXTENDS StrategyHost, Legs, ExitLegs

\* Cancels issued for the survivor before the job gives up on it.
MAX_CANCEL_ATTEMPTS == 3

\* sized: the quantity does not round to zero.
OcoState ==
  [phase : {"place", "monitor", "cancelling"}, sized : BOOLEAN,
   legs : [ExitLegs -> LegRecord], filledBy : ExitLegs \union {"none"},
   cancelAttempts : 0 .. MAX_CANCEL_ATTEMPTS, fresh : BOOLEAN]

\* fresh: checks = 0, the one thing the code asks of that counter.
OcoInit ==
  \E sized \in BOOLEAN :
    state = [phase |-> "place", sized |-> sized, legs |-> [l \in ExitLegs |-> NewLeg],
             filledBy |-> "none", cancelAttempts |-> 0, fresh |-> TRUE]

OcoIn(phase) == Called("oco") /\ state.sized /\ state.phase = phase

OcoRoundedToZero ==
  /\ Called("oco")
  /\ ~state.sized
  /\ Return(state, <<>>, Ending("failed", TRUE))
  /\ ReadsNothing

OcoPlace ==
  /\ OcoIn("place")
  /\ Return([state EXCEPT !.phase = "monitor", !.fresh = TRUE],
            <<Submit("take_profit", Exit), Submit("stop", Exit)>>, NotDone)
  /\ ReadsNothing

\* The only reading of a submit that failed: last_error is cleared by this advance.
OcoLegRejected ==
  /\ OcoIn("monitor")
  /\ state.fresh /\ row.lastError
  /\ Return(state, <<>>, Ending("failed", TRUE))
  /\ ReadsNothing

\* The legs after one reading of the open orders.
Observed(listing) == [l \in ExitLegs |-> Observe(state.legs[l], l \in listing)]
Gone(legs) == {l \in ExitLegs : IsResolved(legs[l], ABSENCE_GRACE_CHECKS)}

\* Wrong: the job completes with the request to cancel, as the bracket does.
CompletesAtOnce == Ending("completed", FALSE)

\* The OCO fires, and does not complete before the cancel is seen to have landed.
Firing == NotDone

OcoMonitor ==
  /\ OcoIn("monitor")
  /\ ~(state.fresh /\ row.lastError)
  /\ \E listing \in Listings :
       LET legs == Observed(listing)
           next == [state EXCEPT !.legs = legs, !.fresh = FALSE]
       IN /\ Reads(listing)
          /\ \/ /\ Gone(legs) = {}
                /\ Return(next, <<>>, NotDone)
             \/ /\ Gone(legs) = ExitLegs
                /\ Return(next, <<>>, Ending("failed", TRUE))
             \/ \E gone \in ExitLegs :
                  /\ Gone(legs) = {gone}
                  /\ IF legs[Twin(gone)].seenOpen
                     THEN Return([next EXCEPT !.phase = "cancelling", !.filledBy = gone,
                                              !.cancelAttempts = 1],
                                 <<Cancel(Twin(gone))>>, Firing)
                     ELSE Return(next, <<>>, NotDone)

\* Wrong: a rejected cancel is not read.
CancelErrorIgnored == FALSE

\* A rejected cancel is read as a second fill.
CancelWasRejected == state.cancelAttempts > 0 /\ row.lastError

OcoDoubleFill ==
  /\ OcoIn("cancelling")
  /\ CancelWasRejected
  /\ Return(state, <<>>, Ending("failed", TRUE))
  /\ ReadsNothing

OcoCancelling ==
  /\ OcoIn("cancelling")
  /\ ~CancelWasRejected
  /\ LET survivor == Twin(state.filledBy)
     IN \E listing \in Listings :
          LET leg  == Observe(state.legs[survivor], survivor \in listing)
              next == [state EXCEPT !.legs[survivor] = leg]
          IN /\ Reads(listing)
             /\ \/ /\ IsResolved(leg, ABSENCE_GRACE_CHECKS)
                   /\ Return(next, <<>>, Ending("completed", TRUE))
                \/ /\ ~IsResolved(leg, ABSENCE_GRACE_CHECKS)
                   /\ IF state.cancelAttempts >= MAX_CANCEL_ATTEMPTS
                      THEN Return(next, <<>>, Ending("failed", TRUE))
                      ELSE Return([next EXCEPT !.cancelAttempts = @ + 1],
                                  <<Cancel(survivor)>>, NotDone)

\* The advances that await the open orders, which asks Robinhood only if the job has
\* an order with an id.
OcoReads ==
  /\ Known # {}
  /\ \/ OcoIn("monitor") /\ ~(state.fresh /\ row.lastError)
     \/ OcoIn("cancelling") /\ ~CancelWasRejected

OcoAdvance == OcoRoundedToZero \/ OcoPlace \/ OcoLegRejected \/ OcoMonitor
              \/ OcoDoubleFill \/ OcoCancelling
=============================================================================
