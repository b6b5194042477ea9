----------------------------- MODULE Provision -----------------------------
(***************************************************************************)
(* How `train` gets a pod for a run and deletes it                         *)
(* (src/runpod/provision.rs, start_pod and end_pod of src/runpod/flow.rs). *)
(*                                                                         *)
(* A walk over the GPU types sends create calls, each recorded in pod.json *)
(* before it is sent.  A call may be refused, may create a pod, or may get *)
(* no clear answer: its pod may then never exist, be there, or show later. *)
(* Any call and any save may fail, and the process may die anywhere.       *)
(***************************************************************************)
EXTENDS PodRecord

VARIABLES
  pods,         \* what Runpod has of each attempt: "none", "coming" (asked for,
                \* not shown yet), "up", "gone"
  secret,       \* the account has the secret that holds the run's host key
  run,          \* the state of run.json
  disk,         \* pod.json, or NoRecord
  mem,          \* the copy of the process that holds the project
  pc,           \* where that process is; "over" when there is none
  then,         \* what follows the remove or the note under way
  saved,        \* every save of the remove under way worked
  tried,        \* how many GPU types the walk took
  ambiguous,    \* unclear answers for this GPU type
  interrupted,  \* Ctrl-C was pressed
  \* For the properties only.
  had,          \* pods the process was told are the run's
  named,        \* pods that pod.json ever named
  trains        \* the pod on which the job started, or NoPod

walk == <<tried, ambiguous, interrupted>>
history == <<had, named, trains>>
pvars == <<pods, secret, run, disk, mem, pc, then, saved, walk, history>>

Walking == {"start", "key", "type", "create", "send", "answer", "look1",
            "look2", "created", "reach"}
Flow == Walking \cup
  {"sweep", "ready", "job", "working", "after", "fail", "forget", "sweepall",
   "note", "remove", "delete", "deleted", "keys", "drop", "exit", "over"}

\* What pod rm does after the remove of the recorded pod is in Orphans.
Continuations == {"none", "created", "ready", "fail", "type", "after",
                  "release", "end", "exit", "rm"}

PTypeOK ==
  /\ pods \in [Attempts -> {"none", "coming", "up", "gone"}]
  /\ secret \in BOOLEAN
  /\ run \in {"Preparing", "Running", "Succeeded", "Failed"}
  /\ disk \in Records \cup {NoRecord} /\ mem \in Records \cup {NoRecord}
  /\ then \in Continuations /\ saved \in BOOLEAN
  /\ tried \in 0 .. TYPES /\ ambiguous \in 0 .. MAX_AMBIGUOUS
  /\ interrupted \in BOOLEAN
  /\ had \subseteq Attempts /\ named \subseteq Attempts
  /\ trains \in Attempts \cup {NoPod}

PInit ==
  /\ pods = [a \in Attempts |-> "none"] /\ secret = FALSE
  /\ run = "Preparing" /\ disk = NoRecord /\ mem = NoRecord
  /\ pc = "start" /\ then = "none" /\ saved = TRUE
  /\ tried = 0 /\ ambiguous = 0 /\ interrupted = FALSE
  /\ had = {} /\ named = {} /\ trains = NoPod

Up == {a \in Attempts : pods[a] = "up"}

-----------------------------------------------------------------------------
(* The pods, on their own: one that was asked for shows; one that is there *)
(* is deleted by its watchdog, or dies.                                    *)

PodShows ==
  \E a \in Attempts :
    /\ pods[a] = "coming" /\ pods' = [pods EXCEPT ![a] = "up"]

PodDies ==
  \E a \in Up : pods' = [pods EXCEPT ![a] = "gone"]

-----------------------------------------------------------------------------
(* Saves and ends. *)

\* pod.json becomes r.
Writes(r) == disk' = r /\ named' = named \cup Named(r)

\* record.save of the new copy r: then `ok`, or `bad` and pod.json as it was.
Saves(r, ok, bad) ==
  /\ mem' = r
  /\ \/ Writes(r) /\ pc' = ok
     \/ UNCHANGED <<disk, named>> /\ pc' = bad

\* Nothing is left of a process.
Ends ==
  /\ pc' = "over" /\ mem' = NoRecord /\ then' = "none" /\ saved' = TRUE
  /\ tried' = 0 /\ ambiguous' = 0 /\ interrupted' = FALSE

account == <<pods, secret, run>>

\* A delete that cannot be confirmed may have worked.
Unconfirmed(ids, left) ==
  [a \in Attempts |-> IF a \in ids \ left THEN "gone" ELSE pods[a]]

-----------------------------------------------------------------------------
(* The start: the first pod.json, the host key, the walk. *)

\* provision_run: the record exists before the first create call.
SavesRecord ==
  /\ pc = "start" /\ Saves(NewRecord, "key", "fail")
  /\ UNCHANGED <<account, then, saved, walk, had, trains>>

\* store_host_key, and the reads before it.  No walk yet, so no after_failure.
StoresKey ==
  /\ pc = "key"
  /\ \/ pc' = "type" /\ secret' = TRUE
     \/ pc' = "fail" /\ secret' \in BOOLEAN
  /\ UNCHANGED <<pods, run, disk, mem, then, saved, walk, history>>

\* Order::next: a type is tried once.  The list may be shorter than TYPES.
TakesType ==
  /\ pc = "type" /\ tried < TYPES
  /\ tried' = tried + 1 /\ ambiguous' = 0 /\ pc' = "create"
  /\ UNCHANGED <<account, disk, mem, then, saved, interrupted, history>>

WalkEnds ==
  /\ pc = "type" /\ tried > 0 /\ pc' = "after"
  /\ UNCHANGED <<account, disk, mem, then, saved, walk, history>>

\* Mutant: the call is sent though its attempt could not be saved.
BeginsCall_Unsaved ==
  /\ pc = "create" /\ mem.attempts < MAX_CALLS
  /\ IF interrupted
     THEN pc' = "after" /\ UNCHANGED <<disk, mem, named>>
     ELSE Saves(BeginAttempt(mem), "send", "send")
  /\ UNCHANGED <<account, then, saved, walk, had, trains>>

BeginsCall ==
  /\ pc = "create" /\ mem.attempts < MAX_CALLS
  /\ IF interrupted
     THEN pc' = "after" /\ UNCHANGED <<disk, mem, named>>
     ELSE Saves(BeginAttempt(mem), "send", "after")
  /\ UNCHANGED <<account, then, saved, walk, had, trains>>

\* The call reaches Runpod, or is lost.
Sends ==
  /\ pc = "send" /\ pc' = "answer"
  /\ \E got \in {"none", "coming", "up"} :
       pods' = [pods EXCEPT ![mem.attempts] = got]
  /\ UNCHANGED <<secret, run, disk, mem, then, saved, walk, history>>

\* Ok(pod): the answer tells of the pod, which may be gone already.
AnswersPod ==
  /\ pc = "answer" /\ pods[mem.attempts] \in {"up", "gone"}
  /\ pc' = "created"
  /\ UNCHANGED <<account, disk, mem, then, saved, walk, history>>

\* No capacity or a 403, so the next type; any other refusal ends the walk.
AnswersNo ==
  /\ pc = "answer" /\ pods[mem.attempts] = "none"
  /\ \E ok \in {"type", "after"} : Saves(mem, ok, "after")
  /\ UNCHANGED <<account, then, saved, walk, had, trains>>

AnswersUnclear ==
  /\ pc = "answer" /\ Saves(EndUnclear(mem), "look1", "after")
  /\ UNCHANGED <<account, then, saved, walk, had, trains>>

-----------------------------------------------------------------------------
(* Pods nobody wanted: the duplicates of unclear calls. *)

\* Every pod of ids is asked to be deleted; those not confirmed are noted.
Sweeps(ids, done, noted) ==
  \E lost \in SUBSET ids, left \in SUBSET ids :
    /\ left \subseteq lost
    /\ pods' = Unconfirmed(ids, left)
    /\ mem' = NoteStrays(mem, lost)
    /\ IF lost = {} THEN pc' = done /\ UNCHANGED then
       ELSE pc' = "note" /\ then' = noted

\* note_strays, best effort.
NotesStrays ==
  /\ pc = "note" /\ Saves(mem, then, then) /\ then' = "none"
  /\ UNCHANGED <<account, saved, walk, had, trains>>

\* reconcile: two looks, 5 s and 15 s after the answer.
Finds(look) ==
  /\ pc = look /\ mem.attempts \in Up
  /\ Sweeps(Up \ {mem.attempts}, "created", "created")
  /\ UNCHANGED <<secret, run, disk, saved, walk, history>>

FindsNone(look, next) ==
  /\ pc = look /\ mem.attempts \notin Up
  /\ pc' = IF interrupted THEN "after" ELSE next
  /\ ambiguous' = IF next # "look2" /\ ~interrupted THEN ambiguous + 1
                  ELSE ambiguous
  /\ UNCHANGED <<account, disk, mem, then, saved, tried, interrupted, history>>

\* The walk: the same type again, until MAX_AMBIGUOUS calls had no answer.
NextTry == IF ambiguous + 1 >= MAX_AMBIGUOUS THEN "type" ELSE "create"

LookFails ==
  /\ pc \in {"look1", "look2"} /\ pc' = "after"
  /\ UNCHANGED <<account, disk, mem, then, saved, walk, history>>

Reconciles ==
  \/ Finds("look1") \/ Finds("look2")
  \/ FindsNone("look1", "look2") \/ FindsNone("look2", NextTry)
  \/ LookFails

-----------------------------------------------------------------------------
(* remove: the delete is sent even when pod.json cannot be saved first; it *)
(* worked only if Runpod confirmed it and every save did.                  *)

Removes(next, ok) == pc' = "remove" /\ then' = next /\ saved' = ok

\* What the caller does of a remove that worked, or did not.
Worked ==
  CASE then = "type" -> "forget"    \* not_ready: forget_pod
    [] then = "release" -> "keys"
    [] then = "end" -> "sweepall"
    [] then = "rm" -> "removed"
    [] OTHER -> "after"

\* Mutant: not_ready goes on although the pod may still be there.
Failed_GoesOn ==
  CASE then = "type" -> "forget"
    [] then \in {"release", "end"} -> "exit"
    [] then = "rm" -> "unremoved"
    [] OTHER -> "after"

Failed ==
  CASE then \in {"release", "end"} -> "exit"
    [] then = "rm" -> "unremoved"
    [] OTHER -> "after"

SavesDeleting ==
  /\ pc = "remove" /\ pc' = "delete"
  /\ mem' = InState(mem, "Deleting")
  /\ \/ Writes(mem') /\ UNCHANGED saved
     \/ saved' = FALSE /\ UNCHANGED <<disk, named>>
  /\ UNCHANGED <<account, then, walk, had, trains>>

\* Mutant: the delete is not confirmed.
Deletes_Unconfirmed ==
  /\ pc = "delete" /\ pc' = "deleted"
  /\ mem' = InState(mem, "Deleted")
  /\ \E left \in SUBSET ({mem.pod} \cap Up) :
       pods' = Unconfirmed({mem.pod}, left)
  /\ UNCHANGED <<secret, run, disk, then, saved, walk, history>>

\* delete_confirmed, then what the copy says of it.
Deletes ==
  /\ pc = "delete"
  /\ \/ /\ pods' = Unconfirmed({mem.pod}, {})
        /\ mem' = InState(mem, "Deleted") /\ pc' = "deleted"
        /\ UNCHANGED <<then, saved>>
     \/ /\ \E left \in SUBSET ({mem.pod} \cap Up) :
             pods' = Unconfirmed({mem.pod}, left)
        /\ pc' = Failed /\ then' = "none" /\ saved' = TRUE /\ UNCHANGED mem
  /\ UNCHANGED <<secret, run, disk, walk, history>>

SavesDeleted ==
  /\ pc = "deleted"
  /\ Saves(mem, IF saved THEN Worked ELSE Failed, Failed)
  /\ then' = "none" /\ saved' = TRUE
  /\ UNCHANGED <<account, walk, had, trains>>

Forgets ==
  /\ pc = "forget" /\ Saves(ForgetPod(mem), "type", "after")
  /\ UNCHANGED <<account, then, saved, walk, had, trains>>

-----------------------------------------------------------------------------
(* settle: the run has a pod; it becomes ready, or is deleted. *)

\* Nothing else knows a pod whose creation cannot be saved: it is deleted.
RecordsPod ==
  /\ pc = "created" /\ mem' = Created(mem)
  /\ had' = had \cup {mem.attempts}
  /\ \/ Writes(mem') /\ pc' = "reach" /\ UNCHANGED <<then, saved>>
     \/ Removes("after", FALSE) /\ UNCHANGED <<disk, named>>
  /\ UNCHANGED <<account, walk, trains>>

\* SSH answers and the watchdog says ready.
BecomesReady ==
  /\ pc = "reach" /\ mem.pod \in Up
  /\ mem' = InState(mem, "Ready")
  /\ \/ Writes(mem') /\ pc' = "sweep" /\ UNCHANGED <<then, saved>>
     \/ Removes("after", TRUE) /\ UNCHANGED <<disk, named>>
  /\ UNCHANGED <<account, walk, had, trains>>

\* not_ready: in time or not at all; the next type, once it is gone.
NotReady ==
  /\ pc = "reach"
  /\ \/ Writes(mem) /\ Removes("type", TRUE)
     \/ Removes("type", FALSE) /\ UNCHANGED <<disk, named>>
  /\ UNCHANGED <<account, mem, walk, had, trains>>

\* refuse, local_ssh (with a save), abandon (without): no other type.
GivesUp ==
  /\ pc = "reach" /\ Removes("after", TRUE)
  /\ Writes(mem) \/ UNCHANGED <<disk, named>>
  /\ UNCHANGED <<account, mem, walk, had, trains>>

\* The sweep of a ready pod: the other pods of the run.
SweepsOthers ==
  /\ pc = "sweep"
  /\ \/ Sweeps(Up \ {mem.pod}, "ready", "ready")
     \/ pc' = "ready" /\ UNCHANGED <<pods, mem, then>>
  /\ UNCHANGED <<secret, run, disk, saved, walk, history>>

\* after_failure.
AfterFailure ==
  /\ pc = "after"
  /\ \/ mem.unclear # {} /\ Sweeps(Up, "fail", "fail")
     \/ pc' = "fail" /\ UNCHANGED <<pods, mem, then>>
  /\ UNCHANGED <<secret, run, disk, saved, walk, history>>

\* start_pod: the run is saved Failed, best effort; then its keys.
FailsRun ==
  /\ pc = "fail" /\ pc' = "keys" /\ run' \in {run, "Failed"}
  /\ UNCHANGED <<pods, secret, disk, mem, then, saved, walk, history>>

-----------------------------------------------------------------------------
(* The end of the pod. *)

\* The job is spawned and run.json saved Running; then job_started.
StartsJob ==
  /\ pc = "ready" /\ pc' = "job" /\ run' = "Running" /\ trains' = mem.pod
  /\ UNCHANGED <<pods, secret, disk, mem, then, saved, walk, had, named>>

JobStarted ==
  /\ pc = "job" /\ Saves(InState(mem, "Running"), "working", "working")
  /\ UNCHANGED <<account, then, saved, walk, had, trains>>

\* release: no job runs; deadline_reached, cost_cap_reached: it ran too long.
\* Then forget_keys, and the run is failed, best effort.
Releases ==
  /\ pc \in {"ready", "working"} /\ Removes("release", TRUE) /\ run' \in {run, "Failed"}
  /\ UNCHANGED <<pods, secret, disk, mem, walk, history>>

\* end_pod, once the results are here: remove, then sweep_then_forget.
EndsPod ==
  /\ pc = "working" /\ Removes("end", TRUE) /\ run' = "Succeeded"
  /\ UNCHANGED <<pods, secret, disk, mem, walk, history>>

SweepsThenForgets ==
  /\ pc = "sweepall"
  /\ \/ Sweeps(Up, "keys", "exit")
     \/ pc' = "exit" /\ UNCHANGED <<pods, mem, then>>
  /\ UNCHANGED <<secret, run, disk, saved, walk, history>>

-----------------------------------------------------------------------------
(* forget_keys: looks at pod.json, then deletes the secret. *)

LooksForPods ==
  /\ pc = "keys"
  /\ pc' = IF NoPodLeft(disk) THEN "drop" ELSE "exit"
  /\ UNCHANGED <<account, disk, mem, then, saved, walk, history>>

\* drop_host_key, best effort.
DropsKey ==
  /\ pc = "drop" /\ secret' \in {secret, FALSE} /\ pc' = "exit"
  /\ UNCHANGED <<pods, run, disk, mem, then, saved, walk, history>>

Interrupt ==
  /\ pc \in Walking /\ ~interrupted /\ interrupted' = TRUE
  /\ UNCHANGED <<account, disk, mem, pc, then, saved, tried, ambiguous, history>>

\* The process is killed, or is at its end.
Exits ==
  /\ pc # "over" /\ Ends /\ UNCHANGED <<account, disk, history>>

StartNext ==
  \/ SavesRecord \/ StoresKey \/ TakesType \/ WalkEnds \/ BeginsCall
  \/ Sends \/ AnswersPod \/ AnswersNo \/ AnswersUnclear
  \/ Reconciles \/ RecordsPod \/ BecomesReady \/ NotReady \/ GivesUp
  \/ SweepsOthers \/ AfterFailure \/ FailsRun

RemoveNext == SavesDeleting \/ Deletes \/ SavesDeleted \/ Forgets

EndNext ==
  \/ StartsJob \/ JobStarted \/ Releases \/ EndsPod \/ SweepsThenForgets
  \/ NotesStrays \/ LooksForPods \/ DropsKey

=============================================================================
