------------------------------ MODULE JobModel ------------------------------
(***************************************************************************)
(* The job and order-intent life cycles of src/engine/job.ts.              *)
(*                                                                         *)
(* A row that does not exist yet has the status "none", which no code ever *)
(* writes: createJob and reserveIntent are what replace it.                *)
(***************************************************************************)

JobStatus == {"pending", "running", "paused", "completed", "cancelled", "failed"}

TerminalStatuses == {"completed", "cancelled", "failed"}

IsTerminal(status) == status \in TerminalStatuses

\* The statuses a job may move to from each status.
Transitions ==
  [ pending   |-> {"running", "cancelled", "failed"},
    running   |-> {"running", "paused", "completed", "cancelled", "failed"},
    paused    |-> {"running", "cancelled", "failed"},
    completed |-> {},
    cancelled |-> {},
    failed    |-> {} ]

\* Wrong: a status may be set whatever it was.
EveryUpdateIsLegal(from, to) == TRUE

\* updateJob skips assertTransition when the status does not change, which is
\* what lets it write last_error to a row that is already terminal.
UpdateIsLegal(from, to) == to = from \/ to \in Transitions[from]

IntentStatus == {"pending", "submitted", "failed", "abandoned"}
=============================================================================
