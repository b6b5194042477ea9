------------------------------ MODULE PodGuard ------------------------------
(***************************************************************************)
(* The pod, its watchdog and the client that follows its job.              *)
(*                                                                         *)
(* The client (src/runpod/flow.rs and the Job of src/cli/runpod_train.rs)  *)
(* hands the cost cap to the watchdog, starts the job, renews the lease    *)
(* while metrics arrive, fires its own deadline and cost cap guards, and,  *)
(* once the job's results are back, marks them retrieved and deletes the   *)
(* pod.  It may stop at any point (Ctrl-C, a crash, a lost network), stay  *)
(* silent for as long as it likes, and attach again later.                 *)
(***************************************************************************)
EXTENDS Watchdog

CONSTANTS
  HasCap,           \* max_cost_usd is set
  LEASE_RENEW,      \* how often the lease is renewed
  STALL,            \* how long a job without a metric counts as progressing
  DEADLINE_MARGIN   \* how long after DEADLINE the client's own guard waits

ASSUME GuardAssumption ==
  /\ HasCap \in BOOLEAN
  /\ LEASE_RENEW \in Nat /\ STALL \in Nat /\ DEADLINE_MARGIN \in Nat

VARIABLES
  at,           \* where the client's command is
  recorded,     \* run.json names the job: the run can be attached to
  tick,         \* where Lease::tick is
  t,            \* the `now` the last tick began with, or None
  renewed,      \* Lease.renewed
  last_metric,  \* Lease.last_metric
  capped,       \* Lease.capped
  collected     \* every file the pod has was downloaded and verified here

leaseVars == <<tick, t, renewed, last_metric, capped>>
cvars == <<at, recorded, leaseVars, collected>>
vars == <<wvars, cvars>>

GuardTypeOK ==
  /\ at \in {"starting", "spawned", "releasing", "following", "collecting",
             "ended", "marked", "deadline", "cost", "awaiting", "away"}
  /\ recorded \in BOOLEAN
  /\ tick \in {"idle", "renew", "touched", "cap", "guard"}
  /\ t \in Time /\ renewed \in Time /\ last_metric \in Time
  /\ capped \in BOOLEAN /\ collected \in BOOLEAN
  /\ tick # "idle" => at = "following" /\ t # None

Init ==
  /\ WInit
  /\ at = "starting" /\ recorded = FALSE /\ collected = FALSE
  /\ tick = "idle" /\ t = None /\ renewed = None /\ last_metric = None
  /\ capped = FALSE

-----------------------------------------------------------------------------
(* Starting the job. *)

\* The command is over: nothing of its lease is left.
Leave(where) ==
  /\ at' = where
  /\ tick' = "idle" /\ t' = None /\ renewed' = None /\ last_metric' = None
  /\ capped' = FALSE

\* Lease::new.
Follow ==
  /\ at' = "following"
  /\ tick' = "idle" /\ t' = None /\ renewed' = None /\ last_metric' = now
  /\ capped' = FALSE

\* PodRecord::cost_cap is Some: SnapshotAt and CapAt; a kept pod has none.
Capped == HasCap /\ ~keep

\* arm_cost_cap, write_cost_cap: the two files, in this order.
ArmSnapshotAt ==
  /\ at = "starting" /\ Capped /\ snapshot_at = None
  /\ WriteSnapshotAt
  /\ UNCHANGED cvars

ArmCostCapAt ==
  /\ at = "starting" /\ Capped /\ cost_cap_at = None
  /\ WriteCostCapAt
  /\ UNCHANGED cvars

\* Mutant: one of the two files is enough.
Armed_Half == Capped => snapshot_at # None

Armed == Capped => cost_cap_at # None

\* launch_job: the job is spawned on the pod once the cap is armed.
Spawn ==
  /\ at = "starting" /\ Armed
  /\ StartJob
  /\ at' = "spawned"
  /\ UNCHANGED <<recorded, leaseVars, collected>>

\* record_started: run.json names the job, which is then followed.
Recorded ==
  /\ at = "spawned"
  /\ recorded' = TRUE
  /\ Follow
  /\ UNCHANGED <<wvars, collected>>

\* record_started could not save: the job is cancelled, best effort, since
\* nothing could find it again, and its pod released.
NotRecorded ==
  /\ at = "spawned"
  /\ EndJob \/ UNCHANGED wvars
  /\ at' = "releasing"
  /\ UNCHANGED <<recorded, leaseVars, collected>>

\* Before the job exists, a failure or Ctrl-C releases the pod.
AbandonStart ==
  /\ at = "starting"
  /\ at' = "releasing"
  /\ UNCHANGED <<wvars, recorded, leaseVars, collected>>

-----------------------------------------------------------------------------
(* Following it: hold_lease, beside the watch. *)

\* Mutant: a kept pod has a deadline like any other.
until_deadline_Kept == TRUE

\* flow.rs until_deadline is Some: a kept pod has no deadline, and no lease.
until_deadline == ~keep

\* Lease::saw, between two ticks.
Metric ==
  /\ at = "following" /\ tick = "idle" /\ job = "running"
  /\ until_deadline
  /\ last_metric' = now
  /\ UNCHANGED <<wvars, at, recorded, tick, t, renewed, capped, collected>>

renewal_due ==
  /\ now - last_metric < STALL
  /\ renewed = None \/ now - renewed >= LEASE_RENEW

\* Lease::tick begins.
TickBegins ==
  /\ at = "following" /\ tick = "idle" /\ t < now /\ until_deadline
  /\ t' = now
  /\ tick' = IF renewal_due THEN "renew" ELSE "cap"
  /\ UNCHANGED <<wvars, at, recorded, renewed, last_metric, capped, collected>>

\* Lease::renew: the file is touched, then the answer comes back, or not.
RenewTouches ==
  /\ at = "following" /\ tick = "renew"
  /\ TouchLease
  /\ tick' = "touched"
  /\ UNCHANGED <<at, recorded, t, renewed, last_metric, capped, collected>>

RenewAnswered ==
  /\ at = "following" /\ tick = "touched"
  /\ renewed' = t
  /\ tick' = "cap"
  /\ UNCHANGED <<wvars, at, recorded, t, last_metric, capped, collected>>

\* Mutant: a failed renewal counts as one.
RenewFails_Counted ==
  /\ at = "following" /\ tick \in {"renew", "touched"}
  /\ renewed' = t
  /\ tick' = "cap"
  /\ UNCHANGED <<wvars, at, recorded, t, last_metric, capped, collected>>

RenewFails ==
  /\ at = "following" /\ tick \in {"renew", "touched"}
  /\ tick' = "cap"
  /\ UNCHANGED <<wvars, at, recorded, t, renewed, last_metric, capped,
                 collected>>

CapSnapshotDue == ~capped /\ Capped /\ t >= SnapshotAt

\* Lease::cap: tried again next tick when the request cannot be written.
CapAsks ==
  /\ at = "following" /\ tick = "cap" /\ CapSnapshotDue
  /\ WriteRequest
  /\ capped' = TRUE /\ tick' = "guard"
  /\ UNCHANGED <<at, recorded, t, renewed, last_metric, collected>>

CapSkipped ==
  /\ at = "following" /\ tick = "cap"
  /\ tick' = "guard"
  /\ UNCHANGED <<wvars, at, recorded, t, renewed, last_metric, capped,
                 collected>>

\* What the client believes of its lease, at the time its tick began.
held == renewed # None /\ t - renewed < LEASE_TTL

guard_fires == ~held /\ t >= DEADLINE + DEADLINE_MARGIN

past_cost_cap == Capped /\ t >= CapAt

TickEnds ==
  /\ at = "following" /\ tick = "guard"
  /\ at' = IF past_cost_cap THEN "cost"
           ELSE IF guard_fires THEN "deadline" ELSE "following"
  /\ tick' = "idle"
  /\ UNCHANGED <<wvars, recorded, t, renewed, last_metric, capped, collected>>

-----------------------------------------------------------------------------
(* Its end. *)

\* The watch ends first, whatever the tick under way: its future is dropped.
\* What the pod has was downloaded and verified.
Retrieves ==
  /\ at \in {"following", "collecting"} /\ job = "ended"
  /\ collected' = TRUE
  /\ Leave("ended")
  /\ UNCHANGED <<wvars, recorded>>

\* Mutant: the pod is ended whether its results came back or not.
Unretrieved_Ended ==
  /\ at \in {"following", "collecting"} /\ job = "ended"
  /\ Leave("ended")
  /\ UNCHANGED <<wvars, recorded, collected>>

\* end_pod of results that were not: the pod is left to its watchdog.
Unretrieved ==
  /\ at \in {"following", "collecting"} /\ job = "ended"
  /\ Leave("awaiting")
  /\ UNCHANGED <<wvars, recorded, collected>>

\* end_pod: the marker first, best effort.
Marks ==
  /\ at = "ended"
  /\ MarkRetrieved \/ UNCHANGED wvars
  /\ at' = "marked"
  /\ UNCHANGED <<recorded, leaseVars, collected>>

\* The client deletes the pod for r, or its delete fails and it gives up.
Removes(r) == ClientDelete(r) \/ UNCHANGED wvars

\* release, end_pod, deadline_reached and cost_cap_reached.
EndsPod ==
  /\ \/ at = "releasing" /\ Removes("client_requested")
     \/ at = "marked" /\ keep /\ UNCHANGED wvars
     \/ at = "marked" /\ ~keep /\ Removes("client_retrieved")
     \/ at = "deadline" /\ Removes("client_deadline")
     \/ at = "cost" /\ Removes("client_cost_cap")
  /\ Leave("away")
  /\ UNCHANGED <<recorded, collected>>

\* Ctrl-C while following, a failed download of a job that succeeded or was
\* stopped (the run stays Running), or a crash at any point.
Detach ==
  /\ at \notin {"away", "awaiting"}
  /\ Leave(IF at = "collecting" THEN "awaiting" ELSE "away")
  /\ UNCHANGED <<wvars, recorded, collected>>

\* train attach of a run still Running: a new lease; of one whose end is
\* recorded: its results are collected, with no lease.
Attach ==
  /\ recorded
  /\ \/ at = "away" /\ ~collected /\ Follow
     \/ /\ at = "awaiting" \/ (at = "away" /\ collected)
        /\ Leave("collecting")
  /\ UNCHANGED <<wvars, recorded, collected>>

\* train stop from another terminal.
StopRequested ==
  /\ recorded /\ job = "running" /\ ~request
  /\ WriteRequest
  /\ UNCHANGED cvars

-----------------------------------------------------------------------------

ClientNext ==
  /\ pod = "up" /\ now < Horizon
  /\ \/ ArmSnapshotAt \/ ArmCostCapAt \/ Spawn \/ Recorded
     \/ NotRecorded \/ AbandonStart
     \/ Metric \/ TickBegins \/ RenewTouches \/ RenewAnswered \/ RenewFails
     \/ CapAsks \/ CapSkipped \/ TickEnds
     \/ Retrieves \/ Unretrieved \/ Marks \/ EndsPod
     \/ Detach \/ Attach \/ StopRequested

PodNext ==
  /\ Dog \/ Tick \/ Restart \/ SaveSnapshot \/ EndJob
  /\ UNCHANGED cvars

Next == ClientNext \/ PodNext

Spec == Init /\ [][Next]_vars

-----------------------------------------------------------------------------
(* Properties. *)

\* flow.rs Lease::renew and guard_fires: the client never believes in a lease
\* the pod does not have.  It takes the time before the file is touched, so
\* what it believes runs out no later than what the watchdog reads.
LeaseBelief ==
  at = "following" /\ renewed # None => lease # None /\ renewed <= lease

\* docs/runpod.md, the lease: the watchdog never decides to enforce max_hours
\* while a following client holds, by its own count, a lease that is not over.
DeadlineRespectsHolder ==
  [][why' = "deadline" /\ why # "deadline"
       => ~(at = "following" /\ renewed # None /\ n - renewed < LEASE_TTL)]_vars

\* flow.rs end_pod: nothing deletes the pod as retrieved, neither the client nor
\* the watchdog that read its marker, before the results are here and verified.
RetrievedMeansCollected ==
  marker \/ why = "retrieved" \/ reason \in {"retrieved", "client_retrieved"}
    => collected

\* flow.rs arm_cost_cap: no job ever runs, or has run, on a capped pod whose
\* watchdog does not know both times of the cap.
CapArmedBeforeJob ==
  Capped /\ job # "none" => snapshot_at # None /\ cost_cap_at # None

\* flow.rs until_deadline, end_pod and cost_cap: once its job is recorded, a
\* kept pod is not the client's to delete.
ClientLeavesKept ==
  keep /\ recorded => reason \notin ClientReasons

\* docs/runpod.md, keep_pod: neither the client nor the watchdog deletes a kept
\* pod once its job is known, whatever limit is reached or process dies.
KeptIsLeft == ClientLeavesKept /\ KeptStays

=============================================================================
