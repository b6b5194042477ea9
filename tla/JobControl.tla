----------------------------- MODULE JobControl -----------------------------
(***************************************************************************)
(* A job on its target, the cancels that stop it and the reads of its      *)
(* status (src/exec/script.rs): shell scripts that share the marker files  *)
(* of one directory and the liveness of one process group, and interleave  *)
(* at every command.                                                       *)
(***************************************************************************)
EXTENDS Naturals

CONSTANTS
  Cancels,  \* runs of cancel_script, from any process
  Readers   \* who runs status_script, again and again

VARIABLES
  leader,      \* the wrapper: its script, then "record", "exit", "zombie", "gone"
  child,       \* whether its group has members besides it
  container,   \* "none", "up" or "down"
  exit, cancelling, cancelled,   \* EXIT_FILE, CANCELLING_FILE, CANCEL_FILE
  pc,          \* where each cancel is
  rpc,         \* where each reader is
  alive,       \* what each reader sampled
  answer,      \* what it last printed
  \* For the properties only.
  cause,       \* what ended the wrapper's script, or the wrapper
  untouched,   \* exit was recorded while no cancel was under way
  since        \* what held when each reader sampled

job == <<leader, child, container, cause>>
files == <<exit, cancelling, cancelled, untouched>>
readers == <<rpc, alive, answer, since>>
vars == <<job, files, pc, readers>>

Steps == {"checked", "marked", "stopped", "termed", "killed", "gone"}
Facts == {"cancelling", "untouched"}

TypeOK ==
  /\ leader \in {"script", "record", "exit", "zombie", "gone"}
  /\ child \in BOOLEAN
  /\ container \in {"none", "up", "down"}
  /\ exit \in BOOLEAN /\ cancelling \in BOOLEAN /\ cancelled \in BOOLEAN
  /\ pc \in [Cancels -> Steps \cup {"idle", "ok", "failed", "dead"}]
  /\ rpc \in [Readers -> {"idle", "cancel", "cancelling", "exit", "marker",
                          "liveness", "done"}]
  /\ alive \in [Readers -> BOOLEAN]
  /\ answer \in [Readers -> {"none", "running", "exited", "cancelled", "lost"}]
  /\ cause \in {"none", "own", "stopped", "signal", "outside"}
  /\ untouched \in BOOLEAN
  /\ since \in [Readers -> SUBSET Facts]

Init ==
  /\ leader = "script" /\ child \in BOOLEAN
  /\ container \in {"none", "up"}
  /\ exit = FALSE /\ cancelling = FALSE /\ cancelled = FALSE
  /\ pc = [c \in Cancels |-> "idle"]
  /\ rpc = [r \in Readers |-> "idle"] /\ alive = [r \in Readers |-> FALSE]
  /\ answer = [r \in Readers |-> "none"]
  /\ cause = "none" /\ untouched = FALSE
  /\ since = [r \in Readers |-> {}]

\* What `kill -0` of the group says: a zombie is still a member of it.
Alive == leader # "gone" \/ child

Down == IF container = "none" THEN "none" ELSE "down"

InFlight(c) == pc[c] \in Steps

-----------------------------------------------------------------------------
(* The wrapper of job_script. *)

\* The engine's client, when there is a container, ends with it or alone.
ScriptEnds ==
  /\ leader = "script"
  /\ leader' = "record" /\ cause' = "own"
  /\ child' \in {child, FALSE}
  /\ container' \in {container, Down}
  /\ UNCHANGED <<files, pc, readers>>

Records ==
  /\ leader = "record"
  /\ exit' = TRUE
  /\ untouched' = (\A c \in Cancels : ~InFlight(c))
  /\ leader' = "exit"
  /\ UNCHANGED <<child, container, cause, cancelling, cancelled, pc, readers>>

\* A full disk: the exit code cannot be written.
RecordFails ==
  /\ leader = "record"
  /\ leader' = "exit"
  /\ UNCHANGED <<child, container, cause, files, pc, readers>>

Exits ==
  /\ leader = "exit"
  /\ leader' = "zombie"
  /\ UNCHANGED <<child, container, cause, files, pc, readers>>

Reaped ==
  /\ leader = "zombie"
  /\ leader' = "gone"
  /\ UNCHANGED <<child, container, cause, files, pc, readers>>

ChildEnds ==
  /\ child /\ child' = FALSE
  /\ UNCHANGED <<leader, container, cause, files, pc, readers>>

\* Killed from elsewhere: out of memory, a reboot.
Killed ==
  /\ leader \in {"script", "record", "exit"}
  /\ leader' = "zombie"
  /\ child' \in {child, FALSE}
  /\ container' \in {container, Down}
  /\ cause' = IF cause = "none" THEN "outside" ELSE cause
  /\ UNCHANGED <<files, pc, readers>>

-----------------------------------------------------------------------------
(* cancel_script. *)

CancelStep(c, from, to) == pc[c] = from /\ pc' = [pc EXCEPT ![c] = to]

CancelBegins(c) ==
  /\ IF exit \/ cancelled THEN CancelStep(c, "idle", "ok")
                          ELSE CancelStep(c, "idle", "checked")
  /\ UNCHANGED <<job, files, readers>>

\* Mutant: the marker is left for later.
Mark_Later(c) ==
  /\ CancelStep(c, "checked", "marked")
  /\ UNCHANGED <<job, files, readers>>

Mark(c) ==
  /\ CancelStep(c, "checked", "marked")
  /\ cancelling' = TRUE
  /\ UNCHANGED <<job, exit, cancelled, untouched, readers>>

\* The engine's answer is not looked at: a stop may do nothing.
StopContainer(c) ==
  /\ CancelStep(c, "marked", "stopped")
  /\ \/ UNCHANGED job
     \/ /\ container = "up" /\ container' = "down"
        /\ leader' = IF leader = "script" THEN "record" ELSE leader
        /\ cause' = IF leader = "script" THEN "stopped" ELSE cause
        /\ UNCHANGED child
  /\ UNCHANGED <<files, readers>>

\* group_signal TERM or KILL: the wrapper dies of either; the others may trap
\* the first, or be stuck in the kernel.
GroupSignal ==
  /\ leader' = IF leader \in {"script", "record", "exit"} THEN "zombie" ELSE leader
  /\ cause' = IF leader = "script" THEN "signal" ELSE cause
  /\ child' \in {child, FALSE}
  /\ UNCHANGED container

Term(c) ==
  /\ CancelStep(c, "stopped", "termed")
  /\ GroupSignal
  /\ UNCHANGED <<files, readers>>

\* After a while, or once the group is gone.
Kill(c) ==
  /\ CancelStep(c, "termed", "killed")
  /\ GroupSignal
  /\ UNCHANGED <<files, readers>>

SeesGone(c) ==
  /\ ~Alive
  /\ CancelStep(c, "killed", "gone")
  /\ UNCHANGED <<job, files, readers>>

\* The group outlives the wait: exit 1, CANCELLING_FILE stays.
Outlived(c) ==
  /\ Alive
  /\ CancelStep(c, "killed", "failed")
  /\ UNCHANGED <<job, files, readers>>

MarkCancelled(c) ==
  /\ CancelStep(c, "gone", "ok")
  /\ cancelled' = TRUE
  /\ UNCHANGED <<job, exit, cancelling, untouched, readers>>

\* The script is killed with its connection or its machine.
CancelDies(c) ==
  /\ InFlight(c)
  /\ pc' = [pc EXCEPT ![c] = "dead"]
  /\ UNCHANGED <<job, files, readers>>

-----------------------------------------------------------------------------
(* status_script: the group's liveness first, then one test at a time. *)

Says(r, word) ==
  /\ rpc' = [rpc EXCEPT ![r] = "done"]
  /\ answer' = [answer EXCEPT ![r] = word]
  /\ UNCHANGED <<job, files, pc, alive, since>>

Goes(r, to) ==
  /\ rpc' = [rpc EXCEPT ![r] = to]
  /\ UNCHANGED <<job, files, pc, alive, answer, since>>

Sample(r) ==
  /\ rpc[r] \in {"idle", "done"}
  /\ rpc' = [rpc EXCEPT ![r] = "cancel"]
  /\ alive' = [alive EXCEPT ![r] = Alive]
  /\ answer' = [answer EXCEPT ![r] = "none"]
  /\ since' = [since EXCEPT ![r] =
       {f \in Facts : IF f = "cancelling" THEN cancelling ELSE untouched}]
  /\ UNCHANGED <<job, files, pc>>

TestsCancel(r) ==
  /\ rpc[r] = "cancel"
  /\ IF cancelled THEN Says(r, "cancelled") ELSE Goes(r, "cancelling")

\* Mutant: the marker wins over the exit code, whatever the group.
TestsCancelling_Alone(r) ==
  /\ rpc[r] = "cancelling"
  /\ IF cancelling THEN Says(r, IF alive[r] THEN "running" ELSE "cancelled")
                   ELSE Goes(r, "exit")

TestsCancelling(r) ==
  /\ rpc[r] = "cancelling"
  /\ IF cancelling /\ alive[r] THEN Says(r, "running") ELSE Goes(r, "exit")

TestsExit(r) ==
  /\ rpc[r] = "exit"
  /\ IF exit THEN Says(r, "exited") ELSE Goes(r, "marker")

TestsMarker(r) ==
  /\ rpc[r] = "marker"
  /\ IF cancelling THEN Says(r, "cancelled") ELSE Goes(r, "liveness")

\* Mutant: the liveness is looked at last.
TestsLiveness_Now(r) ==
  /\ rpc[r] = "liveness"
  /\ Says(r, IF Alive THEN "running" ELSE "lost")

TestsLiveness(r) ==
  /\ rpc[r] = "liveness"
  /\ Says(r, IF alive[r] THEN "running" ELSE "lost")

-----------------------------------------------------------------------------

JobNext ==
  ScriptEnds \/ Records \/ RecordFails \/ Exits \/ Reaped \/ ChildEnds \/ Killed

CancelNext(c) ==
  \/ CancelBegins(c) \/ Mark(c) \/ StopContainer(c) \/ Term(c) \/ Kill(c)
  \/ SeesGone(c) \/ Outlived(c) \/ MarkCancelled(c) \/ CancelDies(c)

ReadNext(r) ==
  \/ Sample(r) \/ TestsCancel(r) \/ TestsCancelling(r) \/ TestsExit(r)
  \/ TestsMarker(r) \/ TestsLiveness(r)

Next ==
  \/ JobNext
  \/ \E c \in Cancels : CancelNext(c)
  \/ \E r \in Readers : ReadNext(r)

Spec == Init /\ [][Next]_vars

-----------------------------------------------------------------------------
(* Properties. *)

\* script.rs status_script, the sample before the markers: `lost` is only
\* printed of a group that is gone, that left no exit code, and that no cancel
\* stopped, however a cancel and the end of the job race the read.
LostIsLost ==
  \A r \in Readers : answer[r] = "lost" =>
    ~Alive /\ ~exit /\ cause \in {"own", "outside"}

\* script.rs cancel_script and status_script: for a read begun once a cancel had
\* marked the job, `cancelled` means that the whole group is gone.
CancelledMeansGone ==
  \A r \in Readers :
    answer[r] = "cancelled" /\ "cancelling" \in since[r] => ~Alive

\* script.rs status_script: what a read says of a job that is gone is true,
\* whatever cancels, ends and other reads its shell commands interleave with.
ReadsAreTrue == LostIsLost /\ CancelledMeansGone

\* script.rs, EXIT_FILE ahead of an abandoned CANCELLING_FILE: a job that
\* recorded its exit code while no cancel was under way keeps it. No cancel marks
\* it later, and no read begun since calls it cancelled or lost.
FinishedKeepsItsResult ==
  /\ untouched => ~cancelled
  /\ \A r \in Readers :
       "untouched" \in since[r] => answer[r] \in {"none", "exited", "running"}

\* What a look in one instant answers.
StatusNow ==
  IF cancelled THEN "cancelled"
  ELSE IF cancelling /\ Alive THEN "running"
  ELSE IF exit THEN "exited"
  ELSE IF cancelling THEN "cancelled"
  ELSE IF Alive THEN "running" ELSE "lost"

\* The job's status, read in one instant, is the one an executor promises.
Abstract == INSTANCE JobStatus WITH
  status <- StatusNow,
  marked <- cancelling
ImplementsStatus == Abstract!Spec

=============================================================================
