------------------------------ MODULE RunFlow ------------------------------
(***************************************************************************)
(* The record of one run: how the commands of overbrainer start its job,   *)
(* follow it, stop it with a snapshot, cancel it and bring its results     *)
(* back (src/runs/train.rs, src/runs/snapshot.rs, src/cli/train.rs).       *)
(*                                                                         *)
(* One process at a time holds the project and runs a command: its flow    *)
(* (pc), and beside it the fallback of a stop (fb). It may die anywhere.   *)
(* Every call to the target may fail; the target itself goes on.           *)
(***************************************************************************)
EXTENDS Naturals

CONSTANTS
  MAX_FAILURES   \* failed looks at the job in a row that are retried

ASSUME FailuresAssumption == MAX_FAILURES \in Nat

Ended == {"Succeeded", "Failed", "Cancelled", "Stopped"}
States == Ended \cup {"none", "Preparing", "Running"}

VARIABLES
  run,      \* run.json: its state, whether it names the job, whether its
            \* message notes missing artifacts, whether it holds a snapshot
  job,      \* the job: "none", "running", "exited", "lost" or "cancelled"
  exit,     \* its exit code: "none", "ok" or "bad"
  marked,   \* whether a cancel marked it
  script,   \* a cancel script on the target: "none", "running", "failed"
  request,  \* snapshot.request
  proof,    \* snapshot.json: "none", "saved" or "invalid"
  onPod,    \* whether the target is a pod, whose results attach collects again
  metrics,  \* whether this job writes metrics
  left,     \* whether it leaves what it must: its output, its checkpoint
  here,     \* what is in the local run directory, verified but for the log
  pc,       \* the flow of the process that holds the project
  out,      \* the outcome it works on: a state, a note, a snapshot
  failures, \* failures in a row
  fb,       \* the fallback of a stop
  proven,   \* what it read of the proof
  \* For the properties only.
  before,   \* the job when the last `train cancel` began, or "none"
  late,     \* the job left its exit code while a cancel script ran
  erred     \* a call of the fallback failed

nature == <<onPod, metrics, left>>
target == <<job, exit, marked, script, request, proof, nature, late>>
fallback == <<fb, proven, erred>>
vars == <<run, target, here, pc, out, failures, fallback, before>>

Record == [state : States, known : BOOLEAN, note : BOOLEAN, snap : BOOLEAN]
Outcome == [state : Ended, note : BOOLEAN, snap : BOOLEAN]

Flow == {"idle", "launch", "spawned", "undo", "undoing", "stopping", "follow",
         "drain", "outcome", "retrieve", "checkpoint", "save", "cancel",
         "cancelling", "readback", "copies", "collect", "collect2", "renote"}
Fallback == {"off", "watching", "proof", "check", "check2", "tocancel",
             "cancelling", "end", "late", "over"}

TypeOK ==
  /\ run \in Record /\ out \in Outcome
  /\ job \in {"none", "running", "exited", "lost", "cancelled"}
  /\ exit \in {"none", "ok", "bad"} /\ marked \in BOOLEAN
  /\ script \in {"none", "running", "failed"}
  /\ request \in BOOLEAN /\ proof \in {"none", "saved", "invalid"}
  /\ onPod \in BOOLEAN /\ metrics \in BOOLEAN /\ left \in BOOLEAN
  /\ here \in SUBSET {"log", "artifacts", "checkpoint"}
  /\ pc \in Flow /\ fb \in Fallback
  /\ failures \in 0 .. MAX_FAILURES
  /\ proven \in BOOLEAN /\ late \in BOOLEAN /\ erred \in BOOLEAN
  /\ before \in {"none", "running", "exited", "lost", "cancelled"}

Init ==
  /\ run = [state |-> "none", known |-> FALSE, note |-> FALSE, snap |-> FALSE]
  /\ out = [state |-> "Failed", note |-> FALSE, snap |-> FALSE]
  /\ job = "none" /\ exit = "none" /\ marked = FALSE /\ script = "none"
  /\ request = FALSE /\ proof = "none"
  /\ onPod \in BOOLEAN /\ metrics \in BOOLEAN /\ left \in BOOLEAN
  /\ here = {} /\ pc = "idle" /\ failures = 0
  /\ fb = "off" /\ proven = FALSE
  /\ before = "none" /\ late = FALSE /\ erred = FALSE

-----------------------------------------------------------------------------
(* The target: the job, its plugin, and a cancel script once it is there.  *)

\* A job that a cancel marked is never lost: its end counts as the cancel's.
JobEnds ==
  /\ job = "running"
  /\ \/ /\ exit' \in {"ok", "bad"} /\ job' = "exited"
        /\ late' = (script = "running")
     \/ /\ job' = IF marked THEN "cancelled" ELSE "lost"
        /\ UNCHANGED <<exit, late>>
  /\ UNCHANGED <<marked, script, request, proof, nature>>

\* The plugin saves the checkpoint, then writes its proof.
PluginProves ==
  /\ job = "running" /\ request /\ proof = "none"
  /\ proof' \in {"saved", "invalid"}
  /\ UNCHANGED <<job, exit, marked, script, request, nature, late>>

\* The end of cancel_script, or its failure: the group is still there.
ScriptEnds ==
  /\ script = "running"
  /\ \/ script' = "none" /\ job' = "cancelled"
     \/ script' = "failed" /\ UNCHANGED job
  /\ UNCHANGED <<exit, marked, request, proof, nature, late>>

TargetAlone ==
  UNCHANGED <<run, here, pc, out, failures, fallback, before>>

TargetNext ==
  \/ JobEnds /\ TargetAlone
  \/ PluginProves /\ TargetAlone
  \/ ScriptEnds /\ TargetAlone

\* Mutant: the marker is not written.
CallsCancel_Unmarked ==
  IF exit # "none" \/ job = "cancelled"
  THEN UNCHANGED target
  ELSE /\ script' = "running"
       /\ UNCHANGED <<job, exit, marked, request, proof, nature, late>>

\* executor.cancel begins: cancel_script leaves alone a job that left an exit
\* code or was cancelled, and marks any other, lost ones included.
CallsCancel ==
  IF exit # "none" \/ job = "cancelled"
  THEN UNCHANGED target
  ELSE /\ marked' = TRUE /\ script' = "running"
       /\ job' = IF job = "lost" THEN "cancelled" ELSE job
       /\ UNCHANGED <<exit, request, proof, nature, late>>

\* executor.status: the exit code stands for a job that ended by itself.
Status == IF job = "exited" THEN exit ELSE job

Finished == job # "running"

-----------------------------------------------------------------------------
(* The flow: shared steps. *)

\* A command ends, whatever it answers; its fallback is dropped with it.
Ends ==
  /\ pc' = "idle" /\ failures' = 0
  /\ fb' = "off" /\ proven' = FALSE /\ erred' = FALSE
  /\ out' = [state |-> "Failed", note |-> FALSE, snap |-> FALSE]

Goes(from, to) ==
  /\ pc = from /\ pc' = to
  /\ UNCHANGED <<failures, fallback>>

\* A command starts; nothing else is under way.
Starts(to) ==
  /\ pc = "idle" /\ pc' = to
  /\ UNCHANGED <<target, here, out, failures, fb, proven, erred>>

Follows(fallen) ==
  /\ pc' = "follow" /\ fb' = fallen
  /\ UNCHANGED <<failures, proven, erred, out>>

\* An answer is lost, the target does not answer, a file cannot be written.
Fails(from) ==
  /\ pc = from
  /\ Ends
  /\ UNCHANGED <<run, target, here, before>>

\* The process is killed anywhere; so is the follow by Ctrl-C.
Crash ==
  /\ pc # "idle"
  /\ Ends
  /\ UNCHANGED <<run, target, here, before>>

-----------------------------------------------------------------------------
(* create, start. *)

Create ==
  /\ run.state = "none"
  /\ Starts("launch")
  /\ run' = [run EXCEPT !.state = "Preparing"]
  /\ UNCHANGED before

\* The failure is saved when it can be. The job may have started all the same,
\* its answer lost.
LaunchFails ==
  /\ pc = "launch"
  /\ job' \in {"none", "running"}
  /\ run' \in {run, [run EXCEPT !.state = "Failed"]}
  /\ Ends
  /\ UNCHANGED <<exit, marked, script, request, proof, nature, late,
                 here, before>>

Spawned ==
  /\ Goes("launch", "spawned")
  /\ job' = "running"
  /\ UNCHANGED <<run, exit, marked, script, request, proof, nature, late,
                 here, out, before>>

RecordStarted ==
  /\ pc = "spawned"
  /\ run' = [run EXCEPT !.state = "Running", !.known = TRUE]
  /\ Follows("watching")
  /\ UNCHANGED <<target, here, before>>

\* Nothing could find the job again: it is cancelled, on a best effort basis.
RecordStartedFails ==
  /\ Goes("spawned", "undo")
  /\ UNCHANGED <<run, target, here, out, before>>

Undo ==
  /\ Goes("undo", "undoing")
  /\ CallsCancel
  /\ UNCHANGED <<run, here, out, before>>

Undone == Fails("undoing")

-----------------------------------------------------------------------------
(* attach, stop. *)

Attach ==
  /\ run.known /\ run.state = "Running"
  /\ pc = "idle" /\ Follows("watching")
  /\ UNCHANGED <<run, target, here, before>>

\* watch of a run that ended: from the local files. Only a pod is asked again,
\* unless it is kept with its results.
AttachEnded ==
  /\ run.known /\ run.state \in Ended /\ ~onPod
  /\ pc = "idle"
  /\ UNCHANGED vars

AttachPod ==
  /\ run.known /\ run.state \in Ended /\ onPod
  /\ \/ Starts("collect")
     \/ ~run.note /\ Starts("idle")
  /\ UNCHANGED <<run, before>>

Stop ==
  /\ run.known /\ run.state = "Running"
  /\ Starts("stopping")
  /\ UNCHANGED <<run, before>>

Requests ==
  /\ request' = TRUE
  /\ UNCHANGED <<job, exit, marked, script, proof, nature, late>>

StopRequests ==
  /\ pc = "stopping"
  /\ Requests
  /\ Follows("proof")
  /\ UNCHANGED <<run, here, before>>

\* `train stop` while another process holds the project only asks.
StopElsewhere ==
  /\ pc # "idle" /\ run.known /\ run.state = "Running"
  /\ Requests
  /\ UNCHANGED <<run, here, pc, out, failures, fallback, before>>

-----------------------------------------------------------------------------
(* follow: look until the job ends, then drain its metrics, on one budget of
   failures that only a look gives back. *)

Retry ==
  /\ pc \in {"follow", "drain"}
  /\ \/ /\ failures < MAX_FAILURES
        /\ failures' = failures + 1
        /\ UNCHANGED <<run, target, here, pc, out, fallback, before>>
     \/ failures = MAX_FAILURES /\ Fails(pc)

\* The final state of a run whose job ended so.
Final ==
  CASE Status = "ok" /\ metrics -> "Succeeded"
    [] Status = "cancelled"     -> "Cancelled"
    [] OTHER                    -> "Failed"

Poll ==
  /\ pc = "follow"
  /\ failures' = 0
  /\ IF Finished
     THEN /\ pc' = "drain"
          /\ out' = [state |-> Final, note |-> FALSE, snap |-> FALSE]
     ELSE UNCHANGED <<pc, out>>
  /\ UNCHANGED <<run, target, here, fallback, before>>

Drain ==
  /\ Goes("drain", "outcome")
  /\ UNCHANGED <<run, target, here, out, before>>

\* Mutant: a job cancelled after its proof stays cancelled.
ReadProof_Succeeded ==
  /\ Goes("outcome", "retrieve")
  /\ out' = CASE out.state = "Succeeded" /\ proof = "saved" ->
                   [out EXCEPT !.state = "Stopped", !.snap = TRUE]
              [] out.state = "Succeeded" /\ proof = "invalid" ->
                   [out EXCEPT !.state = "Failed"]
              [] OTHER -> out
  /\ UNCHANGED <<run, target, here, before>>

\* A proof makes a success or a cancel a stop; one that cannot be read fails a
\* success.
ReadProof ==
  /\ Goes("outcome", "retrieve")
  /\ out' = CASE out.state \in {"Succeeded", "Cancelled"} /\ proof = "saved" ->
                   [out EXCEPT !.state = "Stopped", !.snap = TRUE]
              [] out.state = "Succeeded" /\ proof = "invalid" ->
                   [out EXCEPT !.state = "Failed"]
              [] OTHER -> out
  /\ UNCHANGED <<run, target, here, before>>

ReadProofFails == out.state \in {"Succeeded", "Cancelled"} /\ Fails("outcome")

\* A pass of retrieve: the manifest, the download, then the check. A pass that
\* fails may have brought the log.
Retrieves(pass) ==
  here' = here \cup (IF pass = 1 THEN {"log", "artifacts"} ELSE {"checkpoint"})
RetrievesBadly(pass) ==
  here' \in {here, here \cup (IF pass = 1 THEN {"log"} ELSE {})}

NoOutput == [state |-> "Failed", note |-> FALSE, snap |-> FALSE]

Retrieve ==
  /\ Goes("retrieve", IF out.snap THEN "checkpoint" ELSE "save")
  /\ Retrieves(1)
  /\ out' = IF out.state = "Succeeded" /\ ~left THEN NoOutput ELSE out
  /\ UNCHANGED <<run, target, before>>

RetrieveCheckpoint ==
  /\ Goes("checkpoint", "save")
  /\ Retrieves(2)
  /\ out' = IF left THEN out ELSE NoOutput
  /\ UNCHANGED <<run, target, before>>

\* Results worth a retry leave the run running; others are recorded without.
RetrieveFails ==
  \E pass \in {1, 2} :
    /\ RetrievesBadly(pass)
    /\ IF out.state \in {"Succeeded", "Stopped"}
       THEN /\ pc = IF pass = 1 THEN "retrieve" ELSE "checkpoint"
            /\ Ends
       ELSE /\ pass = 1 /\ Goes("retrieve", "save")
            /\ out' = [out EXCEPT !.note = TRUE]
    /\ UNCHANGED <<run, target, before>>

Save ==
  /\ pc = "save"
  /\ run' = [state |-> out.state, known |-> TRUE, note |-> out.note,
             snap |-> out.snap]
  /\ Ends
  /\ UNCHANGED <<target, here, before>>

SaveFails == Fails("save")

-----------------------------------------------------------------------------
(* The fallback of a stop, beside the flow. *)

Beside(from, to) ==
  /\ fb = from /\ fb' = to
  /\ UNCHANGED <<run, here, pc, out, failures, before>>

\* Mutant: a follow never looks whether a snapshot was asked.
SeesRequest_Unasked ==
  /\ Beside("watching", "proof")
  /\ UNCHANGED <<target, proven, erred>>

SeesRequest ==
  /\ request
  /\ Beside("watching", "proof")
  /\ UNCHANGED <<target, proven, erred>>

ProofTimer ==
  /\ Beside("proof", "check")
  /\ UNCHANGED <<target, proven, erred>>

LateProof ==
  /\ Beside("check", "check2")
  /\ proven' = (proof # "none")
  /\ UNCHANGED <<target, erred>>

\* Mutant: a job that wrote its proof is left alone.
LateCheck_Proven ==
  /\ Beside("check2", IF Finished \/ proven THEN "over" ELSE "tocancel")
  /\ UNCHANGED <<target, proven, erred>>

LateCheck ==
  /\ Beside("check2", IF Finished THEN "over"
                      ELSE IF proven THEN "end" ELSE "tocancel")
  /\ UNCHANGED <<target, proven, erred>>

EndTimer ==
  /\ Beside("end", "late")
  /\ UNCHANGED <<target, proven, erred>>

LateStop ==
  /\ Beside("late", IF Finished THEN "over" ELSE "tocancel")
  /\ UNCHANGED <<target, proven, erred>>

LateCancel ==
  /\ Beside("tocancel", "cancelling")
  /\ CallsCancel
  /\ UNCHANGED <<proven, erred>>

LateCancelled ==
  /\ script = "none"
  /\ Beside("cancelling", "over")
  /\ UNCHANGED <<target, proven, erred>>

\* Any call of the fallback fails: that is logged, and it is not tried again.
LateFails ==
  \E from \in {"check", "check2", "late", "tocancel", "cancelling"} :
    /\ Beside(from, "over")
    /\ erred' = TRUE
    /\ UNCHANGED <<target, proven>>

-----------------------------------------------------------------------------
(* cancel, collect. *)

Cancel ==
  /\ run.known /\ run.state # "Cancelled"
  /\ Starts("cancel")
  /\ before' = job
  /\ UNCHANGED run

CancelCalls ==
  /\ Goes("cancel", "cancelling")
  /\ CallsCancel
  /\ UNCHANGED <<run, here, out, before>>

CancelAnswers ==
  /\ script = "none"
  /\ Goes("cancelling", "readback")
  /\ UNCHANGED <<run, target, here, out, before>>

\* Mutant: the status is not read back.
ReadBack_Unread ==
  /\ Goes("readback", "copies")
  /\ run' = [run EXCEPT !.state = "Cancelled", !.note = FALSE]
  /\ UNCHANGED <<target, here, out, before>>

ReadBack ==
  /\ pc = "readback"
  /\ IF Status = "cancelled"
     THEN /\ Goes("readback", "copies")
          /\ run' = [run EXCEPT !.state = "Cancelled", !.note = FALSE]
          /\ UNCHANGED out
     ELSE Ends /\ UNCHANGED run
  /\ UNCHANGED <<target, here, before>>

Copies ==
  /\ pc = "copies"
  /\ Retrieves(1)
  /\ Ends
  /\ UNCHANGED <<run, target, before>>

\* The note is saved when it can be.
CopiesFail ==
  /\ pc = "copies"
  /\ RetrievesBadly(1)
  /\ run' \in {run, [run EXCEPT !.note = TRUE]}
  /\ Ends
  /\ UNCHANGED <<target, before>>

CancelFails ==
  \E from \in {"stopping", "cancel", "cancelling", "readback"} : Fails(from)

Collect ==
  /\ Goes("collect", IF run.state = "Stopped" /\ run.snap THEN "collect2"
                     ELSE "renote")
  /\ Retrieves(1)
  /\ UNCHANGED <<run, target, out, before>>

CollectCheckpoint ==
  /\ Goes("collect2", "renote")
  /\ Retrieves(2)
  /\ UNCHANGED <<run, target, out, before>>

CollectFails ==
  \E pass \in {1, 2} :
    /\ pc = IF pass = 1 THEN "collect" ELSE "collect2"
    /\ RetrievesBadly(pass)
    /\ Ends
    /\ UNCHANGED <<run, target, before>>

\* The note goes with a save of its own.
Renote ==
  /\ pc = "renote"
  /\ run' = [run EXCEPT !.note = FALSE]
  /\ Ends
  /\ UNCHANGED <<target, here, before>>

RenoteFails == run.note /\ Fails("renote")

-----------------------------------------------------------------------------

StartNext ==
  \/ Create \/ LaunchFails \/ Spawned \/ RecordStarted \/ RecordStartedFails
  \/ Undo \/ Undone

FollowNext ==
  \/ Retry \/ Poll \/ Drain \/ ReadProof \/ ReadProofFails \/ Retrieve
  \/ RetrieveCheckpoint \/ RetrieveFails \/ Save \/ SaveFails

FallbackNext ==
  \/ SeesRequest \/ ProofTimer \/ LateProof \/ LateCheck \/ EndTimer
  \/ LateStop \/ LateCancel \/ LateCancelled \/ LateFails

CancelNext ==
  \/ Cancel \/ CancelCalls \/ CancelAnswers \/ ReadBack \/ Copies \/ CopiesFail
  \/ CancelFails

CollectNext ==
  \/ Attach \/ AttachEnded \/ AttachPod \/ Collect \/ CollectCheckpoint
  \/ CollectFails \/ Renote \/ RenoteFails

StopNext == Stop \/ StopRequests \/ StopElsewhere

Next ==
  \/ TargetNext \/ StartNext \/ FollowNext \/ FallbackNext \/ CancelNext
  \/ CollectNext \/ StopNext \/ Crash

Spec == Init /\ [][Next]_vars

\* A process goes on until it ends; its timers fire and its calls answer or
\* fail; a cancel script takes at most a minute. The job owes nothing.
RunFairness ==
  /\ WF_vars(FollowNext)
  /\ WF_vars(FallbackNext)
  /\ WF_vars(ScriptEnds /\ TargetAlone)

FairSpec == Spec /\ RunFairness

-----------------------------------------------------------------------------
(* Properties. *)

\* train.rs outcome, watch: what run.json says happened, happened, whatever died,
\* failed or was asked on the way.
RecordIsTrue ==
  /\ run.state = "Succeeded" => exit = "ok" /\ metrics /\ left /\ proof = "none"
  /\ run.state = "Stopped" => proof = "saved" /\ left /\ job # "running"
  /\ run.state = "Cancelled" => job = "cancelled"
  /\ run.state = "Failed" /\ run.known => job # "running"

\* train.rs watch, retrieve: a result recorded without a note is in the local run
\* directory, and a stopped run's checkpoint with it. (`train cancel` saves its
\* state before it copies.)
NothingMissing ==
  run.known =>
    /\ run.state \in {"Succeeded", "Stopped"} => ~run.note
    /\ run.state \in Ended /\ ~run.note
         /\ (run.state = "Cancelled" => before = "none") =>
         {"log", "artifacts"} \subseteq here
    /\ run.state = "Stopped" => run.snap /\ "checkpoint" \in here

\* train.rs watch: a run whose snapshot was saved is not recorded cancelled,
\* though its job was, unless the user cancelled it.
SavedIsStopped ==
  run.state = "Cancelled" /\ proof = "saved" => before # "none"

\* train.rs: run.json and the local run directory say together what became of
\* the job, its results and its snapshot.
RecordHolds == RecordIsTrue /\ NothingMissing /\ SavedIsStopped

\* snapshot.rs with_request_watch: a recorded job asked for no snapshot is never
\* cancelled by a process that only follows it.
OnlyAskedIsCancelled ==
  marked /\ run.known => request \/ before # "none"

\* train.rs cancel: an ended run only becomes cancelled, by `train cancel`, and
\* not when its job had left an exit code before any cancel.
ResultStays ==
  [][run.state \in Ended /\ run'.state # run.state =>
       /\ run'.state = "Cancelled" /\ before # "none"
       /\ exit = "none" \/ late]_vars

\* train.rs follow: a follow of a job that ended always ends.
FollowEnds == (pc = "follow" /\ Finished) ~> (pc = "idle")

\* snapshot.rs with_stop_fallback: once a stop waits for its snapshot, the job
\* ends, unless the process dies or a call of the fallback fails.
StopEnds ==
  (fb = "proof") ~> (Finished \/ erred \/ pc = "idle")

\* train.rs follow and its fallback: neither the follow nor a stop waits for ever.
FlowsEnd == FollowEnds /\ StopEnds

\* The job as its executor reads it follows the executor's promise.
Target == INSTANCE JobStatus WITH
  status <- IF job = "none" THEN "running" ELSE job
FollowsStatus == Target!Spec

=============================================================================
