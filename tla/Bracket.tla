------------------------------ MODULE Bracket -------------------------------
(***************************************************************************)
(* The bracket: an entry, then a take-profit and a stop that cancel each   *)
(* other.  Phases: entry, entry_fill, exits, monitor.                      *)
(***************************************************************************)
EXTENDS StrategyHost, Legs, ExitLegs

\* sized: the quantity does not round to zero; fresh: checks = 0.
BracketState ==
  [phase : {"entry", "entry_fill", "exits", "monitor"}, sized : BOOLEAN,
   entryType : {"market", "limit"}, legs : [PairLegs -> LegRecord], fresh : BOOLEAN]

BracketInit ==
  \E type \in {"market", "limit"}, sized \in BOOLEAN :
    state = [phase |-> "entry", sized |-> sized, entryType |-> type,
             legs |-> [l \in PairLegs |-> NewLeg], fresh |-> TRUE]

BracketIn(phase) == Called("bracket") /\ state.sized /\ state.phase = phase

BracketRoundedToZero ==
  /\ Called("bracket")
  /\ ~state.sized
  /\ Return(state, <<>>, Ending("failed", TRUE))
  /\ ReadsNothing

BracketEntry ==
  /\ BracketIn("entry")
  /\ Return([state EXCEPT !.phase = "entry_fill", !.fresh = TRUE],
            <<Submit("entry", Entry(state.entryType))>>, NotDone)
  /\ ReadsNothing

\* Wrong: the error of a submit is not read.
ErrorIgnored == FALSE

\* The submits of the last advance are judged by last_error, once.
SubmitWasRejected == state.fresh /\ row.lastError

BracketSubmitRejected ==
  /\ BracketIn("entry_fill") \/ BracketIn("monitor")
  /\ SubmitWasRejected
  /\ Return(state, <<>>, Ending("failed", TRUE))
  /\ ReadsNothing

EntryGrace == IF state.entryType = "market" THEN 1 ELSE ABSENCE_GRACE_CHECKS

BracketEntryFill ==
  /\ BracketIn("entry_fill")
  /\ ~SubmitWasRejected
  /\ \E listing \in Listings :
       LET entry == Observe(state.legs["entry"], "entry" \in listing)
           next  == [state EXCEPT !.legs["entry"] = entry]
       IN /\ Reads(listing)
          /\ IF IsResolved(entry, EntryGrace)
             THEN Return([next EXCEPT !.phase = "exits", !.fresh = TRUE], <<>>, NotDone)
             ELSE Return([next EXCEPT !.fresh = FALSE], <<>>, NotDone)

BracketExits ==
  /\ BracketIn("exits")
  /\ Return([state EXCEPT !.phase = "monitor", !.fresh = TRUE],
            <<Submit("take_profit", Exit), Submit("stop", Exit)>>, NotDone)
  /\ ReadsNothing

ExitsSeen(listing) ==
  [l \in PairLegs |-> IF l \in ExitLegs THEN Observe(state.legs[l], l \in listing)
                                    ELSE state.legs[l]]
ExitsGone(legs) == {l \in ExitLegs : IsResolved(legs[l], ABSENCE_GRACE_CHECKS)}

BracketMonitor ==
  /\ BracketIn("monitor")
  /\ ~SubmitWasRejected
  /\ \E listing \in Listings :
       LET legs == ExitsSeen(listing)
           next == [state EXCEPT !.legs = legs, !.fresh = FALSE]
       IN /\ Reads(listing)
          /\ \/ /\ ExitsGone(legs) = {}
                /\ Return(next, <<>>, NotDone)
             \/ /\ ExitsGone(legs) = ExitLegs
                /\ Return(next, <<>>, Ending("completed", FALSE))
             \/ \E gone \in ExitLegs :
                  /\ ExitsGone(legs) = {gone}
                  /\ IF legs[Twin(gone)].seenOpen
                     THEN Return(next, <<Cancel(Twin(gone))>>, Ending("completed", FALSE))
                     ELSE Return(next, <<>>, NotDone)

\* The advances that await the open orders.
BracketReads ==
  /\ Known # {}
  /\ BracketIn("entry_fill") \/ BracketIn("monitor")
  /\ ~SubmitWasRejected

BracketAdvance == BracketRoundedToZero \/ BracketEntry \/ BracketSubmitRejected
                  \/ BracketEntryFill \/ BracketExits \/ BracketMonitor
=============================================================================
