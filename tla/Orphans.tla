------------------------------ MODULE Orphans ------------------------------
(***************************************************************************)
(* The pods of a run over its life: the command that holds the project     *)
(* (its `train`, then any `pod rm` or later `train`), and `pod ls`, which  *)
(* takes no lock, reads pod.json beside it and corrects it                 *)
(* (src/runpod/orphans.rs, src/cli/mod.rs:199).                            *)
(***************************************************************************)
EXTENDS Provision

VARIABLES
  keeps,    \* pod rm keeps the training pod
  removed,  \* it deleted a pod
  failed,   \* a step of it failed
  asked,    \* the pods it tried: not tried again by their marker
  todo,     \* the pods it has left to delete
  owed,     \* (properties) the pods that were up when it began
  ls,       \* where pod ls is
  lsPod,    \* the pod it found gone
  lsCopy,   \* the pod.json it read again
  stale     \* (properties) it replaced a pod.json newer than its copy

rm == <<keeps, removed, failed, asked, todo, owed>>
lsvars == <<ls, lsPod, lsCopy, stale>>
vars == <<pvars, rm, lsvars>>

RmFlow == {"removed", "unremoved", "strays", "stray", "list", "marked",
           "sweeping"}
Free == pc = "over"
InProgress == run \in {"Preparing", "Running"}

TypeOK ==
  /\ PTypeOK /\ pc \in Flow \cup RmFlow
  /\ keeps \in BOOLEAN /\ removed \in BOOLEAN /\ failed \in BOOLEAN
  /\ asked \subseteq Attempts /\ todo \subseteq Attempts
  /\ owed \subseteq Attempts
  /\ ls \in {"off", "pod", "stray", "gone", "dropped", "keys", "drop"}
  /\ lsPod \in Attempts \cup {NoPod} /\ lsCopy \in Records \cup {NoRecord}
  /\ stale \in BOOLEAN

RmIdle ==
  [keeps |-> FALSE, removed |-> FALSE, failed |-> FALSE, asked |-> {},
   todo |-> {}, owed |-> {}]

Init ==
  /\ PInit
  /\ keeps = FALSE /\ removed = FALSE /\ failed = FALSE
  /\ asked = {} /\ todo = {} /\ owed = {}
  /\ ls = "off" /\ lsPod = NoPod /\ lsCopy = NoRecord /\ stale = FALSE

-----------------------------------------------------------------------------
(* pod rm *)

\* Mutant: the training pod it keeps is not set aside.
RmStarts_Unasked ==
  \E force \in BOOLEAN :
    LET keep == InProgress /\ ~force
        training == Training(disk)
    IN /\ Free
       /\ ~force => ~Starting(run, disk)
       /\ keep => training # NoPod
       /\ mem' = disk /\ keeps' = keep
       /\ IF ~keep /\ training # NoPod THEN Removes("rm", TRUE)
          ELSE pc' = "strays" /\ UNCHANGED <<then, saved>>
       /\ asked' = {} /\ owed' = Up
       /\ UNCHANGED <<account, disk, walk, history, removed, failed, todo>>

\* remove_checked: refused while the run starts, and for a run in progress
\* whose pod is not recorded, unless forced.
RmStarts ==
  \E force \in BOOLEAN :
    LET keep == InProgress /\ ~force
        training == Training(disk)
    IN /\ Free
       /\ ~force => ~Starting(run, disk)
       /\ keep => training # NoPod
       /\ mem' = disk /\ keeps' = keep
       /\ IF ~keep /\ training # NoPod THEN Removes("rm", TRUE)
          ELSE pc' = "strays" /\ UNCHANGED <<then, saved>>
       /\ asked' = {training} \ {NoPod} /\ owed' = Up
       /\ UNCHANGED <<account, disk, walk, history, removed, failed, todo>>

\* remove_recorded is over; its failure is kept for the end.
RmRecorded ==
  /\ pc \in {"removed", "unremoved"} /\ pc' = "strays"
  /\ IF pc = "removed" THEN removed' = TRUE /\ UNCHANGED failed
     ELSE failed' = TRUE /\ UNCHANGED removed
  /\ UNCHANGED <<account, disk, mem, then, saved, walk, history,
                 keeps, asked, todo, owed>>

\* remove_strays: pod.json is read again.
RmReadsStrays ==
  /\ pc = "strays" /\ pc' = "stray"
  /\ todo' = IF disk = NoRecord THEN {} ELSE disk.strays
  /\ UNCHANGED <<account, disk, mem, then, saved, walk, history,
                 keeps, removed, failed, asked, owed>>

\* edit_record, a save that may fail; nothing without a pod.json.
Edits(r) ==
  \/ Writes(r) /\ UNCHANGED failed
  \/ UNCHANGED <<disk, named>> /\ failed' = TRUE

\* remove_stray, one after the other: dropped from pod.json once gone.
RmStray ==
  /\ pc = "stray"
  /\ \E a \in todo :
       /\ todo' = todo \ {a} /\ asked' = asked \cup {a}
       /\ \/ /\ pods' = Unconfirmed({a}, {}) /\ removed' = TRUE
             /\ Edits(DropStray(disk, a))
          \/ /\ \E left \in SUBSET ({a} \cap Up) :
                  pods' = Unconfirmed({a}, left)
             /\ failed' = TRUE /\ UNCHANGED <<removed, disk, named>>
  /\ UNCHANGED <<secret, run, mem, pc, then, saved, walk, had, trains,
                 keeps, owed>>

\* Mutant: a list that fails counts as an empty one.
RmLists_Quiet ==
  /\ pc = "stray" /\ todo = {} /\ pc' = "marked"
  /\ \/ todo' = Up \ asked /\ UNCHANGED failed
     \/ todo' = {} /\ UNCHANGED failed
  /\ UNCHANGED <<account, disk, mem, then, saved, walk, history,
                 keeps, removed, asked, owed>>

\* remove_marked: the account's pods with the run's marker.
RmLists ==
  /\ pc = "stray" /\ todo = {} /\ pc' = "marked"
  /\ \/ todo' = Up \ asked /\ UNCHANGED failed
     \/ todo' = {} /\ failed' = TRUE
  /\ UNCHANGED <<account, disk, mem, then, saved, walk, history,
                 keeps, removed, asked, owed>>

RmMarked ==
  /\ pc = "marked"
  /\ \E a \in todo :
       /\ todo' = todo \ {a}
       /\ \/ /\ pods' = Unconfirmed({a}, {}) /\ removed' = TRUE
             /\ UNCHANGED <<failed, disk, named>>
          \/ /\ \E left \in SUBSET ({a} \cap Up) :
                  pods' = Unconfirmed({a}, left)
             /\ IF disk = NoRecord THEN UNCHANGED <<disk, named>>
                ELSE \/ Writes(NoteStrays(disk, {a}))
                     \/ UNCHANGED <<disk, named>>
             /\ failed' = TRUE /\ UNCHANGED removed
  /\ UNCHANGED <<secret, run, mem, pc, then, saved, walk, had, trains,
                 keeps, asked, owed>>

\* The run is failed if it was in progress and a pod of it was deleted; the
\* keys go only if nothing failed and nothing was kept.
RmEnds ==
  /\ pc = "marked" /\ todo = {}
  /\ \E bad \in BOOLEAN :
       /\ IF InProgress /\ ~keeps /\ removed
          THEN run' = IF bad THEN run ELSE "Failed"
          ELSE bad = FALSE /\ UNCHANGED run
       /\ pc' = IF failed \/ bad \/ keeps THEN "exit" ELSE "keys"
  /\ UNCHANGED <<pods, secret, disk, mem, then, saved, walk, history, rm>>

\* sweep_host_keys of a later train: no pod of the run in one list of the
\* account, and the run has ended.
ListsKeys ==
  /\ Free /\ secret /\ Up = {} /\ pc' = "sweeping"
  /\ UNCHANGED <<account, disk, mem, then, saved, walk, history, rm>>

SweepsKey ==
  /\ pc = "sweeping" /\ pc' = "exit"
  /\ secret' \in IF InProgress THEN {secret} ELSE {secret, FALSE}
  /\ UNCHANGED <<pods, run, disk, mem, then, saved, walk, history, rm>>

RmNext ==
  \/ RmStarts \/ RmRecorded \/ RmReadsStrays \/ RmStray \/ RmLists
  \/ RmMarked \/ RmEnds \/ ListsKeys \/ SweepsKey
-----------------------------------------------------------------------------
(* pod ls *)

LsOver == ls' = "off" /\ lsPod' = NoPod /\ lsCopy' = NoRecord

\* look_up_all: 404s in a row and one list without the pod, so it is gone.
LsFinds ==
  /\ ls = "off"
  /\ \E a \in Named(disk) :
       /\ pods[a] = "gone" /\ lsPod' = a
       /\ ls' = IF a = Training(disk) THEN "pod" ELSE "stray"
  /\ UNCHANGED <<pvars, rm, lsCopy, stale>>

\* record_gone, forget_stray: pod.json is read again.
LsReads ==
  /\ ls \in {"pod", "stray"}
  /\ IF ls = "pod" /\ Training(disk) # lsPod THEN LsOver
     ELSE /\ ls' = IF ls = "pod" THEN "gone" ELSE "dropped"
          /\ lsCopy' = disk /\ UNCHANGED lsPod
  /\ UNCHANGED <<pvars, rm, stale>>

\* The corrected copy replaces pod.json, whatever it holds by now.
LsSaves ==
  /\ \/ /\ ls = "gone" /\ Writes(InState(lsCopy, "Deleted"))
        /\ ls' = "keys" /\ UNCHANGED lsPod /\ lsCopy' = NoRecord
     \/ /\ ls = "dropped" /\ Writes(DropStray(lsCopy, lsPod)) /\ LsOver
  /\ stale' = (stale \/ disk # lsCopy)
  /\ UNCHANGED <<account, mem, pc, then, saved, walk, had, trains, rm>>

LsFails ==
  /\ ls \in {"gone", "dropped"} /\ LsOver
  /\ UNCHANGED <<pvars, rm, stale>>

\* forget_keys, whatever the run is doing.
LsLooksForPods ==
  /\ ls = "keys"
  /\ IF NoPodLeft(disk) THEN ls' = "drop" /\ UNCHANGED <<lsPod, lsCopy>>
     ELSE LsOver
  /\ UNCHANGED <<pvars, rm, stale>>

LsDropsKey ==
  /\ ls = "drop" /\ secret' \in {secret, FALSE} /\ LsOver
  /\ UNCHANGED <<pods, run, disk, mem, pc, then, saved, walk, history, rm,
                 stale>>

LsNext ==
  LsFinds \/ LsReads \/ LsSaves \/ LsFails \/ LsLooksForPods \/ LsDropsKey

-----------------------------------------------------------------------------
(* The whole system. *)

\* A step of train, or of what pod rm shares with it.
TrainNext ==
  /\ StartNext \/ RemoveNext \/ EndNext \/ Interrupt
  /\ UNCHANGED <<rm, lsvars>>

PodNext ==
  /\ PodShows \/ PodDies
  /\ UNCHANGED <<secret, run, disk, mem, pc, then, saved, walk, history, rm,
                 lsvars>>

ExitNext ==
  /\ Exits /\ UNCHANGED lsvars
  /\ keeps' = FALSE /\ removed' = FALSE /\ failed' = FALSE
  /\ asked' = {} /\ todo' = {} /\ owed' = {}

Next ==
  \/ TrainNext \/ PodNext \/ ExitNext
  \/ RmNext /\ UNCHANGED lsvars
  \/ LsNext

Spec == Init /\ [][Next]_vars

-----------------------------------------------------------------------------
(* Properties *)

\* A pod that may bill is the pod of an attempt that pod.json already shows
\* (provision.rs:600: the attempt is saved, then the call is sent).
RecordedBeforeCall ==
  \A a \in Attempts :
    pods[a] \in {"coming", "up"} /\ ~stale =>
      disk # NoRecord /\ a <= disk.attempts

\* No create call is sent while a pod the walk was given may still bill: the
\* delete of a pod that is not ready is confirmed, or the walk ends
\* (provision.rs:745).
NoSecondPod ==
  pc \in {"send", "answer"} => had \cap Up = {}

\* pod.json says deleted only of a pod that is gone, whoever wrote it.
DeletedIsGone ==
  disk # NoRecord /\ disk.state = "Deleted" /\ disk.pod # NoPod =>
    disk.pod \notin Up

\* A pod that pod.json ever named, as the run's pod or as a stray, is named
\* by it as long as it is up, over any failed call, save or crash.
StaysNamed ==
  ~stale => named \cap Up \subseteq Named(disk)

\* The command that holds the project deletes the secret only when every pod
\* that pod.json ever named is gone.
KeysStay ==
  [][secret /\ ~secret' /\ pc' # pc /\ ~stale => named \cap Up = {}]_vars

\* A pod rm that reports no failure leaves none of the pods that were up when
\* it began, recorded or not.
RmComplete ==
  pc \in {"keys", "drop"} => owed \cap Up = {}

\* No step of a pod rm without --force deletes the pod that a run in progress
\* trains on (orphans.rs:606), unless a pod ls put an older pod.json back.
RmKeepsTraining ==
  [][keeps /\ (pc' # pc \/ todo' # todo) /\ ~stale /\ trains \in Up =>
       trains \in Up']_vars

\* How many create calls pod.json shows.
Calls == IF disk = NoRecord THEN 0 ELSE disk.attempts

\* What Runpod has and pod.json says, over every step of every process, is what
\* PodAccount promises: the pods asked for, the pods named, the secret.
Account == INSTANCE PodAccount WITH
  calls <- Calls,
  known <- Named(disk),
  told <- had,
  key <- secret,
  cleared <- (ls = "drop"),
  lapsed <- stale
ImplementsAccount == Account!Spec

\* Refuted: the secret stays while a pod of the run may exist, and every pod
\* needs it to boot (docs/runpod.md:128): it is there at each create call.
KeyForEveryCall == pc = "answer" => secret
=============================================================================
