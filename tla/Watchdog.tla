------------------------------ MODULE Watchdog ------------------------------
(***************************************************************************)
(* The pod's watchdog (src/runpod/watchdog.sh): a shell loop on the pod    *)
(* that reads the marker files of the run directory once per INTERVAL,     *)
(* asks the job for a snapshot before a limit takes the pod, and deletes   *)
(* the pod when one of its rules says so.                                  *)
(*                                                                         *)
(* The job and the client are the watchdog's environment here: they write  *)
(* any file they may write, in any order.  PodGuard constrains the client  *)
(* to what the code does, and implements this specification.               *)
(*                                                                         *)
(* One unit of time is one INTERVAL: a pass of the loop begins in every    *)
(* unit, and may still be going on when the next unit starts.              *)
(***************************************************************************)
EXTENDS Integers

CONSTANTS
  DEADLINE,        \* the Unix time of max_hours
  BOOT_GRACE,      \* how long a pod without a job stays
  RETRIEVE_GRACE,  \* how long an ended job waits for its retrieval
  LEASE_TTL,       \* how long a touched lease holds the deadline off
  SNAPSHOT_LEAD,   \* how long before DEADLINE the snapshot is asked for
  SNAPSHOT_WAIT,   \* how long the deadline waits for a snapshot
  SnapshotAt,      \* what the client writes in .pod/snapshot_at
  CapAt,           \* what the client writes in .pod/cost_cap_at
  Horizon,         \* bound: the client acts, and writes fail, only before it
  MaxTime          \* bound: time stops there, later than every limit

ASSUME TimesAssumption ==
  /\ DEADLINE \in Nat /\ BOOT_GRACE \in Nat /\ RETRIEVE_GRACE \in Nat
  /\ LEASE_TTL \in Nat /\ SNAPSHOT_LEAD \in Nat /\ SNAPSHOT_WAIT \in Nat
  /\ Horizon \in Nat /\ MaxTime \in Nat

\* record.rs cost_cap: the snapshot is due no later than the delete.
ASSUME CapAssumption ==
  SnapshotAt \in Nat /\ CapAt \in Nat /\ SnapshotAt <= CapAt

None == -1
Time == Nat \cup {None}

WatchdogReasons ==
  {"bootstrap_failed", "cost_cap", "deadline", "retrieved", "abandoned",
   "never_started"}
ClientReasons == {"client_deadline", "client_cost_cap", "client_retrieved",
                  "client_requested"}

VARIABLES
  keep,          \* --keep-pod: the OVERBRAINER_KEEP of the pod
  now,           \* the pod's clock
  pod,           \* what Runpod bills: "up", "stopped" (its volume) or "gone"
  reason,        \* why it went, "none" while it is up
  \* What the run directory of the pod holds.
  job,           \* "none" (no job.pid), "running", or "ended"
  request,       \* whether snapshot.request is there (for any reason)
  proof,         \* whether snapshot.json is there
  lease,         \* the mtime of .pod/lease, or None
  snapshot_at,   \* the number in .pod/snapshot_at, or None
  cost_cap_at,   \* the number in .pod/cost_cap_at, or None
  marker,        \* whether .pod/retrieved is there
  \* The watchdog's own variables.
  pc,            \* where its loop is
  n, start, started, ended_at, retrieved, requested_at,
  boot_failed,   \* OVERBRAINER_BOOT_FAILED: the bootstrap could not finish
  asked,         \* how the last request_snapshot of this pass ended
  why            \* the reason of the delete under way, or "none"

filesVars == <<job, request, proof, lease, snapshot_at, cost_cap_at, marker>>
dogVars == <<pc, n, start, started, ended_at, retrieved, requested_at,
             boot_failed, asked, why>>
wvars == <<keep, now, pod, reason, filesVars, dogVars>>

TypeOK ==
  /\ keep \in BOOLEAN
  /\ now \in Nat
  /\ pod \in {"up", "stopped", "gone"}
  /\ reason \in WatchdogReasons \cup ClientReasons \cup {"none"}
  /\ job \in {"none", "running", "ended"}
  /\ request \in BOOLEAN
  /\ proof \in BOOLEAN /\ marker \in BOOLEAN
  /\ lease \in Time /\ snapshot_at \in Time /\ cost_cap_at \in Time
  /\ pc \in {"sleep", "ask", "disk", "decide", "delete"}
  /\ n \in Time /\ start \in Nat
  /\ started \in BOOLEAN /\ retrieved \in BOOLEAN /\ boot_failed \in BOOLEAN
  /\ ended_at \in Time /\ requested_at \in Time
  /\ asked \in {"no", "yes", "failed"}
  /\ why \in WatchdogReasons \cup {"none"}

\* The watchdog starts with the container, once the bootstrap is over; its job
\* does not exist yet.
WInit ==
  /\ keep \in BOOLEAN
  /\ now = 0
  /\ pod = "up" /\ reason = "none"
  /\ job = "none" /\ request = FALSE /\ proof = FALSE /\ marker = FALSE
  /\ lease = None /\ snapshot_at = None /\ cost_cap_at = None
  /\ pc = "sleep" /\ n = None /\ start = 0
  /\ started = FALSE /\ retrieved = FALSE
  /\ ended_at = None /\ requested_at = None
  /\ boot_failed \in BOOLEAN
  /\ asked = "no" /\ why = "none"

-----------------------------------------------------------------------------
(* The watchdog's loop. *)

Reached(at) == at # None /\ n >= at

lease_fresh == lease # None /\ n - lease < LEASE_TTL

\* The job runs, as far as this pass knows.
Busy == started /\ ended_at = None

\* The top of the loop: what n, started, ended_at and retrieved become.  At
\* MaxTime the passes go on, for the units of time the model does not count.
Look ==
  /\ pod = "up" /\ pc = "sleep"
  /\ n < now \/ now = MaxTime
  /\ n' = now
  /\ started' = (started \/ job # "none")
  /\ ended_at' = IF ended_at = None /\ job = "ended" THEN now ELSE ended_at
  /\ retrieved' = (retrieved \/ marker)
  /\ asked' = "no"
  /\ pc' = "ask"
  /\ UNCHANGED <<keep, now, pod, reason, filesVars, start, requested_at,
                 boot_failed, why>>

\* A request already there is kept, and waited for from n; a write that fails
\* (none does after Horizon) leaves requested_at as it was.
request_snapshot ==
  \/ /\ request' = TRUE
     /\ requested_at' = n
     /\ asked' = "yes"
  \/ /\ ~request /\ now < Horizon
     /\ asked' = "failed"
     /\ UNCHANGED <<request, requested_at>>

CostSnapshotDue == Reached(snapshot_at)

\* Mutant: asks only while the deadline is still ahead.
DeadlineSnapshotDue_Ahead ==
  /\ ~Reached(snapshot_at)
  /\ n >= DEADLINE - SNAPSHOT_LEAD /\ n < DEADLINE
  /\ ~lease_fresh

DeadlineSnapshotDue ==
  /\ ~Reached(snapshot_at)
  /\ n >= DEADLINE - SNAPSHOT_LEAD
  /\ ~lease_fresh

\* Mutant: the request is made again on every pass.
NotAskedYet_Again == TRUE

NotAskedYet == requested_at = None

\* The snapshot before a limit: never for a kept pod, and asked for once.
Ask ==
  /\ pod = "up" /\ pc = "ask"
  /\ IF Busy /\ ~keep /\ NotAskedYet
     THEN \/ CostSnapshotDue /\ request_snapshot
          \/ DeadlineSnapshotDue /\ request_snapshot
          \/ /\ ~CostSnapshotDue /\ ~DeadlineSnapshotDue
             /\ UNCHANGED <<request, requested_at, asked>>
     ELSE UNCHANGED <<request, requested_at, asked>>
  /\ pc' = "disk"
  /\ UNCHANGED <<keep, now, pod, reason, job, proof, lease, snapshot_at,
                 cost_cap_at, marker, n, start, started, ended_at, retrieved,
                 boot_failed, why>>

\* The snapshot of a full disk, kept pod or not.  Whether disk_full holds is
\* the environment's choice.
AskDisk ==
  /\ pod = "up" /\ pc = "disk"
  /\ \/ Busy /\ ~request /\ request_snapshot
     \/ UNCHANGED <<request, requested_at, asked>>
  /\ pc' = "decide"
  /\ UNCHANGED <<keep, now, pod, reason, job, proof, lease, snapshot_at,
                 cost_cap_at, marker, n, start, started, ended_at, retrieved,
                 boot_failed, why>>

\* Mutant: a snapshot that ended the job is not waited for.
deadline_due_NoGrace ==
  ~(/\ requested_at # None /\ ended_at = None
    /\ n - requested_at < SNAPSHOT_WAIT)

\* Whether max_hours may take the pod now, past the deadline with no lease.
deadline_due ==
  IF ended_at # None /\ proof
  THEN n >= DEADLINE + RETRIEVE_GRACE
  ELSE ~(/\ requested_at # None /\ ended_at = None
         /\ n - requested_at < SNAPSHOT_WAIT)

DeadlineRule == n >= DEADLINE /\ ~lease_fresh /\ deadline_due

KeptRule == keep /\ started

\* The delete rules, in the order the loop tries them.
delete_reason ==
  IF boot_failed THEN "bootstrap_failed"
  ELSE IF KeptRule THEN "none"
  ELSE IF Reached(cost_cap_at) THEN "cost_cap"
  ELSE IF DeadlineRule THEN "deadline"
  ELSE IF retrieved THEN "retrieved"
  ELSE IF ended_at # None
       THEN IF n - ended_at >= RETRIEVE_GRACE THEN "abandoned" ELSE "none"
  ELSE IF ~started /\ n - start >= BOOT_GRACE THEN "never_started"
  ELSE "none"

Decide ==
  /\ pod = "up" /\ pc = "decide"
  /\ why' = delete_reason
  /\ pc' = IF delete_reason = "none" THEN "sleep" ELSE "delete"
  /\ UNCHANGED <<keep, now, pod, reason, filesVars, n, start, started, ended_at,
                 retrieved, requested_at, boot_failed, asked>>

\* delete_pod: DELETE, then terminate, then stop (which leaves the volume
\* billed), then runpodctl.
Deleted ==
  /\ pod = "up" /\ pc = "delete"
  /\ pod' \in {"gone", "stopped"}
  /\ reason' = why
  /\ UNCHANGED <<keep, now, filesVars, dogVars>>

\* Every way failed: the next pass tries again.
DeleteFails ==
  /\ pod = "up" /\ pc = "delete"
  /\ pc' = "sleep" /\ why' = "none"
  /\ UNCHANGED <<keep, now, pod, reason, filesVars, n, start, started, ended_at,
                 retrieved, requested_at, boot_failed, asked>>

Dog == Look \/ Ask \/ AskDisk \/ Decide \/ Deleted \/ DeleteFails

-----------------------------------------------------------------------------
(* Time, Runpod, the job and the client, as the watchdog meets them. *)

Tick ==
  /\ pod = "up" /\ now < MaxTime
  /\ n = now
  /\ now' = now + 1
  /\ UNCHANGED <<keep, pod, reason, filesVars, dogVars>>

Boot == pc' = "sleep" /\ n' = None /\ start' = now

\* Runpod restarts the container: the job dies, the files stay, the bootstrap
\* runs again and may fail, and a new watchdog starts from nothing.
Restart ==
  /\ pod = "up" /\ start < now /\ now < Horizon
  /\ job' = IF job = "running" THEN "ended" ELSE job
  /\ Boot
  /\ started' = FALSE /\ retrieved' = FALSE
  /\ ended_at' = None /\ requested_at' = None
  /\ boot_failed' \in BOOLEAN
  /\ asked' = "no" /\ why' = "none"
  /\ UNCHANGED <<keep, now, pod, reason, request, proof, lease, snapshot_at,
                 cost_cap_at, marker>>

\* The trainer plugin saved the checkpoint a request asked for.
SaveSnapshot ==
  /\ pod = "up" /\ job = "running" /\ request /\ ~proof
  /\ proof' = TRUE
  /\ UNCHANGED <<keep, now, pod, reason, job, request, lease, snapshot_at,
                 cost_cap_at, marker, dogVars>>

EndJob ==
  /\ pod = "up" /\ job = "running"
  /\ job' = "ended"
  /\ UNCHANGED <<keep, now, pod, reason, request, proof, lease, snapshot_at,
                 cost_cap_at, marker, dogVars>>

\* The client's effects on the pod, one per file or call.
StartJob ==
  /\ pod = "up" /\ job = "none" /\ ~boot_failed
  /\ job' = "running"
  /\ UNCHANGED <<keep, now, pod, reason, request, proof, lease, snapshot_at,
                 cost_cap_at, marker, dogVars>>

WriteSnapshotAt ==
  /\ pod = "up" /\ job = "none"
  /\ snapshot_at' = SnapshotAt
  /\ UNCHANGED <<keep, now, pod, reason, job, request, proof, lease,
                 cost_cap_at, marker, dogVars>>

WriteCostCapAt ==
  /\ pod = "up" /\ job = "none" /\ snapshot_at # None
  /\ cost_cap_at' = CapAt
  /\ UNCHANGED <<keep, now, pod, reason, job, request, proof, lease,
                 snapshot_at, marker, dogVars>>

TouchLease ==
  /\ pod = "up" /\ job # "none"
  /\ lease' = now
  /\ UNCHANGED <<keep, now, pod, reason, job, request, proof, snapshot_at,
                 cost_cap_at, marker, dogVars>>

WriteRequest ==
  /\ pod = "up" /\ job # "none"
  /\ request' = TRUE
  /\ UNCHANGED <<keep, now, pod, reason, job, proof, lease, snapshot_at,
                 cost_cap_at, marker, dogVars>>

MarkRetrieved ==
  /\ pod = "up" /\ job = "ended"
  /\ marker' = TRUE
  /\ UNCHANGED <<keep, now, pod, reason, job, request, proof, lease,
                 snapshot_at, cost_cap_at, dogVars>>

ClientDelete(r) ==
  /\ pod = "up"
  /\ pod' = "gone" /\ reason' = r
  /\ UNCHANGED <<keep, now, filesVars, dogVars>>

Client ==
  /\ now < Horizon
  /\ \/ StartJob \/ WriteSnapshotAt \/ WriteCostCapAt \/ TouchLease
     \/ WriteRequest \/ MarkRetrieved
     \/ \E r \in ClientReasons : ClientDelete(r)

WNext == Dog \/ Tick \/ Restart \/ SaveSnapshot \/ EndJob \/ Client

\* The loop goes on and time passes whatever the client does; one of the ways
\* to delete the pod works in the end, since the loop tries them all each pass.
WFairness ==
  /\ WF_wvars(Look) /\ WF_wvars(Ask) /\ WF_wvars(AskDisk) /\ WF_wvars(Decide)
  /\ SF_wvars(Deleted)
  /\ WF_wvars(Tick)

WSpec == WInit /\ [][WNext]_wvars
WFairSpec == WSpec /\ WFairness

-----------------------------------------------------------------------------
(* Properties. *)

Limits == {"deadline", "cost_cap"}

\* watchdog.sh, the snapshot and the delete rules of one pass: a limit never
\* takes the pod of a job seen running without the job having been asked for a
\* snapshot first, unless that very pass could not write the request.
AskedBeforeLimit ==
  pc = "delete" /\ why \in Limits /\ Busy
    => requested_at # None \/ asked = "failed"

\* watchdog.sh deadline_due: once the watchdog has asked, max_hours leaves the
\* job SNAPSHOT_WAIT to save its checkpoint, whatever the lease did and
\* whichever reason the request had.
SnapshotGetsItsWait ==
  pc = "delete" /\ why = "deadline" /\ Busy /\ requested_at # None
    => n - requested_at >= SNAPSHOT_WAIT

\* watchdog.sh, a limit and the snapshot before it: no running job loses its pod
\* to a limit without having been asked, nor to max_hours before its wait is over.
SnapshotFirst == AskedBeforeLimit /\ SnapshotGetsItsWait

\* watchdog.sh deadline_due and the abandoned rule: a snapshot that was there
\* when the job was seen ended is not deleted before its retrieve grace, or the
\* deadline's, is over, unless it was retrieved, the cost cap is spent, or a
\* restarted container could not boot.
SnapshotKept ==
  pc = "delete" /\ proof /\ ended_at # None
    => \/ why \in {"cost_cap", "retrieved", "bootstrap_failed"}
       \/ n - ended_at >= RETRIEVE_GRACE
       \/ n >= DEADLINE + RETRIEVE_GRACE

\* watchdog.sh, the started flag: a kept pod whose job the watchdog saw goes by
\* the client's hand only, as long as its container boots.
KeptStays ==
  keep /\ started /\ ~boot_failed /\ pod # "up" => reason \in ClientReasons

\* watchdog.sh, all the rules together: whatever the client, the job and the
\* restarts do, the pod does not stay billed for its GPU once nothing renews the
\* lease, unless it was kept with a job.
Released == <>(pod # "up" \/ (keep /\ started))

=============================================================================
