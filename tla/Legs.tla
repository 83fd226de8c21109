-------------------------------- MODULE Legs --------------------------------
(***************************************************************************)
(* What a job has learnt of one of its orders from the open orders         *)
(* Robinhood lists.  Five strategies have the same three helpers, over     *)
(* records that have at least these two fields.                            *)
(***************************************************************************)
EXTENDS Naturals

\* A leg that was never seen open is taken for closed after this many readings.
ABSENCE_GRACE_CHECKS == 2

\* The order id is learnt with the first sighting, so it is known when seenOpen is.
LegRecord == [seenOpen : BOOLEAN, missedChecks : 0 .. ABSENCE_GRACE_CHECKS]

NewLeg == [seenOpen |-> FALSE, missedChecks |-> 0]

\* Wrong: a missed reading is not counted.
Uncounted(n) == n

\* missedChecks is compared with numbers up to the grace only, and capped there.
OneMore(n) == IF n < ABSENCE_GRACE_CHECKS THEN n + 1 ELSE n

Observe(leg, isOpen) ==
  IF isOpen THEN [leg EXCEPT !.seenOpen = TRUE, !.missedChecks = 0]
            ELSE [leg EXCEPT !.missedChecks = OneMore(@)]

\* Wrong: the grace is not waited for.
NoGrace(leg, grace) == leg.missedChecks > 0

IsResolved(leg, grace) ==
  IF leg.seenOpen THEN leg.missedChecks > 0 ELSE leg.missedChecks >= grace
=============================================================================
