---------------------------- MODULE SliceLedger ----------------------------
(***************************************************************************)
(* What the engine promises of a job, whatever crashes: its slices are     *)
(* released in order while the job is open, an order is only ever sent for *)
(* a slice that has been released, and at most one order is sent for it.   *)
(*                                                                         *)
(* This is the promise of the crash-safety protocol without its machinery: *)
(* no intents, no processes, no restart.  An order is named by the id it   *)
(* was sent under, <<job, slice, mint>>.                                   *)
(***************************************************************************)
EXTENDS Naturals

CONSTANTS Jobs, MaxSlices, Mints

VARIABLES
  open,      \* the jobs that have not ended
  released,  \* how many slices each job has released
  sent       \* the ids of the orders sent to Robinhood

ledger == <<open, released, sent>>

Init ==
  /\ open = Jobs
  /\ released = [j \in Jobs |-> 0]
  /\ sent = {}

Release(j) ==
  /\ j \in open
  /\ \E n \in released[j] .. MaxSlices : released' = [released EXCEPT ![j] = n]
  /\ UNCHANGED <<open, sent>>

Send(j, s, m) ==
  /\ s <= released[j]
  /\ \A other \in Mints : <<j, s, other>> \notin sent
  /\ sent' = sent \union {<<j, s, m>>}
  /\ UNCHANGED <<open, released>>

End(j) ==
  /\ j \in open
  /\ open' = open \ {j}
  /\ UNCHANGED <<released, sent>>

Next ==
  \E j \in Jobs :
    \/ Release(j)
    \/ End(j)
    \/ \E s \in 1 .. MaxSlices, m \in Mints : Send(j, s, m)

Spec == Init /\ [][Next]_ledger
=============================================================================
