-------------------------------- MODULE Dca ---------------------------------
(***************************************************************************)
(* DCA: the same purchase a number of times.  A purchase is one unit.      *)
(***************************************************************************)
EXTENDS Sizes

CONSTANT Occurrences

ASSUME DcaAssumption == Occurrences \in Nat \ {0}

\* quoted: sized in quote currency, and so a limit order; capped: maxPrice is not null;
\* sized: the quantity does not round to zero.
DcaState ==
  [quoted : BOOLEAN, capped : BOOLEAN, sized : BOOLEAN, occurrencesDone : 0 .. Occurrences]

DcaInit ==
  \E quoted, capped, sized \in BOOLEAN :
    state = [quoted |-> quoted, capped |-> capped, sized |-> sized, occurrencesDone |-> 0]

DcaIsDone  == state.occurrencesDone = Occurrences
NeedsPrice == state.quoted \/ state.capped
DcaReads   == Called("dca") /\ ~DcaIsDone /\ NeedsPrice

DcaDone ==
  /\ Called("dca")
  /\ DcaIsDone
  /\ Return(state, <<>>, Ending("completed", FALSE))
  /\ ReadsNothing

\* No price, or one past the ceiling: the occurrence is not consumed.
DcaSkip ==
  /\ DcaReads
  /\ Return(state, <<>>, NotDone)
  /\ ReadsNothing

DcaRoundsToZero ==
  /\ Called("dca")
  /\ ~DcaIsDone
  /\ ~state.quoted /\ ~state.sized
  /\ Return(state, <<>>, Ending("failed", TRUE))
  /\ ReadsNothing

DcaBuy ==
  /\ Called("dca")
  /\ ~DcaIsDone
  /\ state.quoted \/ state.sized
  /\ LET next == [state EXCEPT !.occurrencesDone = @ + 1]
     IN \E l \in FreshLeg :
          Return(next,
                 <<Submit(l, IF state.quoted THEN Limit("buy", 1, 1) ELSE Market("buy", 1))>>,
                 IF next.occurrencesDone = Occurrences THEN Ending("completed", FALSE)
                 ELSE NotDone)
  /\ ReadsNothing

DcaAdvance == DcaDone \/ DcaSkip \/ DcaRoundsToZero \/ DcaBuy
=============================================================================
