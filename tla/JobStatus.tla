------------------------------ MODULE JobStatus ------------------------------
(***************************************************************************)
(* What an executor promises of the status of one job (the doc of          *)
(* status_script and cancel_script, src/exec/script.rs), for one who reads *)
(* it in one instant.                                                      *)
(***************************************************************************)

VARIABLES
  status,   \* what a look at the job answers
  marked    \* whether a cancel has marked the job

Statuses == {"running", "exited", "cancelled", "lost"}

Init == status = "running" /\ marked = FALSE

\* The job ends by itself; one that a cancel is stopping is never lost.
Ends ==
  /\ status = "running"
  /\ status' \in IF marked THEN {"exited"} ELSE {"exited", "lost"}
  /\ UNCHANGED marked

\* From then on a job that was lost counts as cancelled, and one that just left
\* its exit code runs as long as its group does.
CancelMarks ==
  /\ ~marked /\ marked' = TRUE
  /\ \/ status = "lost" /\ status' = "cancelled"
     \/ status = "exited" /\ status' = "running"
     \/ status # "lost" /\ UNCHANGED status

\* A cancel wins over every other end, for good.
Cancelled ==
  /\ marked /\ status # "cancelled"
  /\ status' = "cancelled"
  /\ UNCHANGED marked

Next == Ends \/ CancelMarks \/ Cancelled

Spec == Init /\ [][Next]_<<status, marked>>

=============================================================================
