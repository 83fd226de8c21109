------------------------------- MODULE Ladder -------------------------------
(***************************************************************************)
(* The ladder: limit orders over a price range, sized and named once and   *)
(* placed a few at a time.  A level's number stands for its price; sizes   *)
(* count the venue's increments.                                           *)
(***************************************************************************)
EXTENDS StrategyHost, SequencesExt

CONSTANTS
  LadderTotal, Rungs,
  RungsPerAdvance  \* RUNGS_PER_ADVANCE, 3 in the code

ASSUME LadderAssumption ==
  /\ LadderTotal \in Nat \ {0}
  /\ Rungs \in Nat /\ Rungs >= 2 /\ Rungs <= Cardinality(Legs)
  /\ RungsPerAdvance \in Nat \ {0}

Distributions == {"even", "front", "back"}

RungWeight(i, distribution) ==
  CASE distribution = "even"  -> 1
    [] distribution = "front" -> Rungs + 1 - i
    [] distribution = "back"  -> i

Weight(n, distribution) ==
  SumFunctionOnSet([i \in 1 .. Rungs |-> RungWeight(i, distribution)], 1 .. n)

\* A rung is what the share of the rungs so far, rounded down, adds to the rungs before.
BuildRungs(distribution) ==
  LET upTo(i) == (LadderTotal * Weight(i, distribution)) \div Weight(Rungs, distribution)
  IN [i \in 1 .. Rungs |-> upTo(i) - upTo(i - 1)]

\* batch: lastBatch is not null.
LadderState ==
  [distribution : Distributions, ids : [1 .. Rungs -> Legs], placed : 0 .. Rungs,
   batch : BOOLEAN]

\* init refuses a ladder one of whose rungs is empty.
LadderInit ==
  \E distribution \in Distributions :
    /\ \A i \in 1 .. Rungs : BuildRungs(distribution)[i] > 0
    /\ state = [distribution |-> distribution, ids |-> SubSeq(SetToSeq(Legs), 1, Rungs),
                placed |-> 0, batch |-> FALSE]

\* Wrong: a refused rung is not noticed.
RungErrorIgnored == FALSE

RungWasRejected == state.batch /\ row.lastError

LadderRejected ==
  /\ Called("ladder")
  /\ RungWasRejected
  /\ Return([state EXCEPT !.batch = FALSE], <<>>, Ending("failed", TRUE))
  /\ ReadsNothing

\* One advance after the last batch.
LadderPlaced ==
  /\ Called("ladder")
  /\ ~RungWasRejected
  /\ state.placed = Rungs
  /\ Return([state EXCEPT !.batch = FALSE], <<>>, Ending("completed", FALSE))
  /\ ReadsNothing

Rung(i) == Submit(state.ids[i], Limit("buy", BuildRungs(state.distribution)[i], i))

LadderPlace ==
  /\ Called("ladder")
  /\ ~RungWasRejected
  /\ state.placed < Rungs
  /\ LET to == IF state.placed + RungsPerAdvance < Rungs THEN state.placed + RungsPerAdvance
               ELSE Rungs
     IN Return([state EXCEPT !.placed = to, !.batch = TRUE],
               [i \in 1 .. to - state.placed |-> Rung(state.placed + i)], NotDone)
  /\ ReadsNothing

LadderAdvance == LadderRejected \/ LadderPlaced \/ LadderPlace
=============================================================================
