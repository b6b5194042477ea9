# overbrainer: a formal model

overbrainer builds fine-tuning datasets with LLMs, trains on them (locally, over
SSH, or on a Runpod pod it creates), follows the job, and brings its results back.
What can go wrong in it is mostly a matter of order: several machines write marker
files and delete pods on their own clocks, any of them may stop or lose the network
at any point, and a GPU pod nobody deletes costs money while one deleted too early
loses a training run. The specifications here model those parts, are checked by TLC
on small instances, and the central ones are proved with TLAPS.

## 1. Inventory

Sizes are lines of code without tests.

| Part | Where | State it keeps | Operations | What makes it correct |
|---|---|---|---|---|
| Pod watchdog | `runpod/watchdog.sh` (333) | shell variables (`started`, `ended_at`, `requested_at`, ...), lost on a restart | one pass of the loop per interval: look, ask for a snapshot, delete | never deletes before what the job and its snapshot were promised; always deletes in the end |
| Pod bootstrap | `runpod/bootstrap.sh` (158) | `.pod/` files | host key, claim, packages; reruns on every container start | the watchdog starts whatever happens |
| Client's pod guard | `runpod/flow.rs` (1161), `cli/runpod_train.rs` (1156) | the lease and the cost cap of one followed job, `pod.json` | arm the cap, start, follow, renew, fire its guards, mark retrieved, end the pod, detach, attach, cancel | agrees with the watchdog; ends a pod as retrieved only when it is |
| Provisioning | `runpod/provision.rs` (1314), `target`, `status`, `keys`, `secret` | `pod.json`: attempts, state, strays | walk the GPU types, create, reconcile an ambiguous create, wait until ready, remove | every pod that may exist is in `pod.json` before it can bill |
| Orphans | `runpod/orphans.rs` (815), `record.rs` (526) | `pod.json` of every run | classify what the account holds, sweep, remove | never deletes a pod another run or project owns |
| Job control | `exec/script.rs` (183), `exec/mod.rs`, `exec/local.rs`, `exec/ssh/` | marker files of a job: pid, exit code, cancelling, cancelled | wrap a job, read its status, cancel it, claim a directory, tail a file | a status tells the truth whatever it races |
| Run flow | `runs/train.rs` (1022), `runs/snapshot.rs` (344), `runs/mod.rs`, `cli/train.rs` | `run.json`: state, message, snapshot | create, start, watch, stop, stop fallback, retrieve, collect, cancel | the recorded state is what happened; nothing marked retrieved is missing |
| Metrics plugin | `train/overbrainer_metrics.py` (196) | snapshot reason | log metrics, save the requested checkpoint, prove it | the proof follows the checkpoint |
| Trainer back end | `train/` | none | render configuration, size, phases | pure |
| Dataset pipeline | `pipeline/` (1338), `dedup/` | the stage's requests in flight, the deduplicator and its lock | subtopics, questions, answers, each with several requests at once, resumed from what the files hold | an interrupted stage resumes without loss or duplicate, and stops at the configured counts |
| Dataset files | `dataset/` (2029) | four JSONL files, IDs computed from their texts | append, end or cut a torn line, rewrite by renames, the edits and deletions of the terminal interface | readable, one record an ID, nothing refers to a record that is gone |
| Split | `pipeline/split.rs` (429) | `train.jsonl`, `eval.jsonl` | share eval over topics and subtopics, write both files | every usable example once; eval as large as asked, in proportion |
| Export, compare | `export/`, `compare/`, `cli/compare.rs` | the GGUF and `export.json` of a run, `compare.json`, `verdicts.jsonl`, the report | export, deliver, set up and run a compare, judge, judge again | the child served is the one recorded; no question it trained on; no verdict asked for twice; a report only of a whole compare |
| Terminal interface | `tui/` (37362) | the application: tasks, what is confirmed and pending, auto mode, whether it quits | the same operations, from keys, messages of tasks and signals | one writer, no start cut before its job is known, a confirmed cancel never lost, a quit that ends |
| Project lock | `project_lock.rs` (343) | a lock file under `flock` | take, refuse with the holder | one writer |
| Configuration | `config/` (4600) | `overbrainer.toml` | load, validate, edit, reload | a reload never mixes two versions |
| Hub, LLM clients, secrets | `hub/`, `llm/`, `secrets/` | little | HTTP calls with retries, external commands | retry budget |

How they interact: the command line or the terminal interface takes the project lock
and runs one operation on one run. The operation writes `run.json` and `pod.json`
locally and reaches the target through an executor (`exec/`), which runs shell
scripts there and moves files. On the target, the job's wrapper, the trainer plugin,
concurrent cancels and, on a pod, the watchdog share one directory of small files:
`job.pid`, `exit_code`, `cancelling`, `cancelled`, `snapshot.request`,
`snapshot.json`, `.pod/lease`, `.pod/snapshot_at`, `.pod/cost_cap_at`,
`.pod/retrieved`. These files are the whole protocol: there is no other message.

What is hard: the client can die between any two calls; a call may have happened
though its answer was lost; the watchdog's pass uses times and files it read a while
ago; the container may be restarted by Runpod over the files of its first life; a
`train stop` from another terminal writes beside the process that follows the run;
and the limits (deadline, cost cap, graces) fall at any point of all that. On the local
side a stage has many paid requests in flight when it is interrupted, a file may end in
half a line, a change of the dataset is several renames, and the terminal interface runs
all of it at once from one loop whose messages may come late or not at all.

## 2. Modules

| Module | Models | Specifies |
|---|---|---|
| `Watchdog` | `watchdog.sh`, one action per step of a pass, with the job, the client, Runpod and the clock as its environment | `WSpec`, `WFairSpec` |
| `PodGuard` | the client's side, action by action, beside the watchdog of `Watchdog`, which it EXTENDS | `Spec` |
| `JobStatus` | what an executor promises of a job's status, read in one instant | `Spec` |
| `JobControl` | `exec/script.rs`: the job and its wrapper, any number of cancels, any number of status readers, one action per test of a file or of the process group | `Spec`, which implements `JobStatus` |
| `RunFlow` | `runs/train.rs`, `runs/snapshot.rs`, `cli/train.rs`: the record of one run over every command, the target behind it | `Spec`, `FairSpec`; its target implements `JobStatus` |
| `PodRecord` | `record.rs`: what `pod.json` says of a run's pods, and how each answer changes it | operators only |
| `Provision` | `provision.rs`, `target.rs`, and the start and end of a pod in `flow.rs`: the walk over the GPU types, readiness, the remove, the sweeps, the run's secret | actions, composed in `Orphans` |
| `Orphans` | `orphans.rs`: `pod rm`, `pod ls` and the key sweep of a later `train`, over the pods of `Provision`, which it EXTENDS | `Spec`, which implements `PodAccount` |
| `PodAccount` | what is promised of a run's pods, by what Runpod has and `pod.json` says | `Spec` |
| `Dataset` | `dataset/` and `pipeline/`: the four files, every edit, the three stages with their requests in flight | `Spec` |
| `Split` | `pipeline/split.rs`: the shares, the two files, written one after the other | `SplitSpec` |
| `Compare` | `export/`, `cli/compare.rs`, `compare/`: exports, one compare, its judge, over the split of `Split`, which it EXTENDS | `Spec` |
| `Tui` | `tui/app.rs`, `event_loop.rs`, `tasks.rs`, `follow.rs` and the screens that start something: the control of the interface | `Spec` |
| `MCDataset`, `MCCompare`, `MCTui` | the finite instances: constants that are functions, symmetry, and two bounds on what happens together | `MCSpec` of the last two |
| `Watchdog_proofs`, `PodGuard_proofs`, `JobControl_proofs`, `RunFlow_proofs`, `Orphans_proofs`, `Dataset_proofs`, `Compare_proofs`, `Tui_proofs` | the theorems (those of `Split` are in `Compare_proofs`) | |

### Watchdog

A unit of time is one `INTERVAL`. A pass is `Look` (the top of the loop: what
`n`, `started`, `ended_at` and `retrieved` become), `Ask` and `AskDisk` (the two
snapshot rules), `Decide` (the delete rules, in order, as `delete_reason`), then
`Deleted` or `DeleteFails`. The files may change between any two of them, as they may
between two lines of the shell; `n` is the time the pass began. `Tick` waits only for
a pass to begin in every unit of time. `Restart` is Runpod restarting the container:
the shell variables start over, the files stay, a running job dies, and the bootstrap
may fail this time. `request_snapshot` may fail to write. `Deleted` leaves the pod
`gone` or, when only `stop` worked, `stopped`.

The client is any sequence of the effects the code can have on the pod (`Client`),
with only the order the files force. So the properties of `Watchdog` hold whatever the
client does.

### PodGuard

The variables of `Watchdog`, and the client's: where its command is (`at`), whether
`run.json` names the job (`recorded`), its lease (`renewed`, `last_metric`, `capped`),
and the progress of a tick of `hold_lease` (`tick`, `t`). A tick is cut where the code
awaits: it takes its time, touches the lease, gets an answer or none, writes the
request of the cost cap, then looks at its two guards. The watch of the job may end
first at any of these points (the tick's future is dropped). `Detach` is Ctrl-C or a
crash at any point; `Attach` a later process, with a lease of its own that knows
nothing of the first.

Each of these actions contains a client action of `Watchdog` or leaves its variables
alone, so what is checked and proved of `WSpec` holds of `Spec` too, by construction
(`RunsTheWatchdog`, a lemma of the proofs).

### JobStatus and JobControl

`JobStatus` is the abstract job: a status (running, exited, cancelled, lost) and
whether a cancel has marked it. It runs until it ends; a marked job is never lost; a
cancel wins over every other end, for good.

`JobControl` is the shell that has to keep this promise with files: the wrapper runs
the job's script and writes the exit code; `cancel_script` tests, writes the marker
`cancelling`, stops the container, signals the group twice, looks whether it is gone,
and writes `cancelled`; `status_script` samples the group, then tests the files one
after the other, in the order of the source, over states that move under it. A reader
is any process that asks, again and again, and a cancel may die at any step. A group
that outlives its signals leaves the cancel failed and its marker behind. One
assumption: the marker can be written; what the container engine answers is ignored,
as it is in the code.

`ImplementsStatus` maps the files to the status a reader that took no time would say.

### RunFlow

One run, from `create` to whatever its commands make of it. `run` is `run.json`
(state, whether it names the job, its note of missing artifacts, its snapshot), `here`
the local run directory, `pc` the step of the process that holds the project, `fb` the
fallback of a stop, which the code runs beside the flow with `select`, and the rest is
the target: the job and its exit code, its marker, one cancel script, the request and
the proof of the snapshot. An action is a call to the target or a save of the record,
with what the code does until the next one. `Fails(from)` is any failure that ends the
command there; `Crash` kills it anywhere. A retry is bounded by the code's own budget
(`MAX_FAILURES`), which only a successful look gives back. `StopElsewhere` is the one
command that needs no lock.

Init chooses what the code cannot decide: whether the target is a pod (an ended run is
collected again only there), whether the job writes metrics and whether it leaves what
it must. Not modelled: the claim of the run ID, a run resumed from another, a job of a
version without snapshots, a pod that is gone, a second download breaking files that
were verified. The job of `RunFlow` is one step per event where `JobControl` has one
per shell command; both implement `JobStatus`, which is what lets one stand for the
other.

### PodRecord, Provision, Orphans and PodAccount

The pods of one run, from the first create call to the last delete. An attempt is one
create call, and the pod it makes, if any, has the attempt's number. Runpod has of each
attempt nothing (`none`), a pod that a list does not show yet (`coming`), one that
bills (`up`), or one that is `gone`: an unclear answer leaves open which. `disk` is
`pod.json`; `mem` is the copy of the process that holds the project (`pc` is where it
is). They differ because a save may fail and then leaves the old file (`write_atomic`).

An action is one call to Runpod or one save, with what the code decides from it. The
walk saves an attempt, sends the call, and takes its answer; after an unclear one it
looks twice, sweeps the duplicates, and tries the same type up to `MAX_AMBIGUOUS`
times. A pod that is there becomes ready or is removed. `remove` is three actions
(save, delete, save), and what follows it (`then`) depends on the caller and on whether
every save of it worked (`saved`); an unconfirmed delete may have worked all the same.
Ctrl-C only sets `interrupted`, which the walk looks at between its calls. `Exits` is
the end of a process, and a kill at any step.

`pod rm` takes the project lock, so it is another flow of the same `pc`: the recorded
pod, the strays, the pods with the run's marker, then the run's state and its keys,
each going on after the failure of the one before. `pod ls` takes no lock: it is an
actor of its own, and its correction of `pod.json` is a read and a save between which
the other process may save too. `stale` records that it then put an older file back;
the properties that this would break say `~stale`. `had`, `named`, `trains` and `owed`
are history too, and no action's guard reads them.

`PodAccount` is what one sees who knows neither the processes nor their copies: a pod is
asked for once `pod.json` shows its call and while none the walk was given bills;
`pod.json` gains calls and pods that showed, and loses only pods that are gone; the host
key is stored before the first pod and deleted when `pod.json` names none that is up, or
by a `pod ls` that saw an empty `pod.json` before. A `pod.json` put back by `pod ls`
lifts what is said of `pod.json` (`lapsed`), not the rule that no second pod is asked
for. `ImplementsAccount` maps `disk`, `had`, `secret`, `stale` and one step of `pod ls`
to it; a save, a delete and a death are all one action there (`Works`).

Not modelled: the choice and order of GPU types and prices, how a pod is probed for
readiness, a `pod.json` written by another version, the pods of other runs and other
checkouts of the project (a marker keeps them apart, by construction here), a `pod rm`
that cannot read a file of the project, a 404 of
Runpod for a pod that exists (the code asks several times), keeping a pod and waiting
for its results (`PodGuard` has both). An edit of `pod.json` by the process that holds
the lock is one step.

### Dataset

The four files of one topic: what each holds, counted by ID (`subtopics`, `questions`,
`answers`, and the keys in `rejected`), how the last line of each ends (`tail`: ended,
a whole line without its newline, or a part of a line), and which have become unreadable
(`broken`). A name or a text is a constant: an ID is a hash of normalized text, so two
spellings of one text are one value, and an edit that keeps the ID changes nothing here.

`stage` is what the process that holds the lock does. An edit is planned in one step
from what it read (`plan`: the writes left, in the order of `dataset/edit.rs`, and the
contents they write) and saved by one step per rename or append; `SaveStops` is a crash
or an error between two of them, and a crash inside an append may leave any tail. The
questions stage has one fill per subtopic (`fills`): a request in flight, its reply,
the topic's deduplicator taken (`lock`), the batch admitted and written while it is
held (`Admit` is the deduplication and the append, both under the lock). The answers stage has one request per question (`asks`), a fatal answer that
stops the others, and those that had finished, which it still saves. `StageStops` is an
interrupt or a crash anywhere. `gone` (what the user deleted) and `loose` (a change was
left half done, or a stage was forced) are history.

Not modelled: similarity other than equality (a deduplicator may drop a question as
near another: a choice), several topics at once (they share the files and nothing
else), the retries within one list of subtopics (one choice of what the list brings).

### Split and Compare

`Split` is one step per file: `train.jsonl` and `eval.jsonl` are replaced one after the
other, so a split may stop between them (`cut`). The shares are computed as the code
computes them: eval over topics by largest remainder, then over the subtopics of each,
then the first examples in the order of a hash. `hash` and `hash_id` stand for the whole
sort key, which ends in the name or the ID itself, so that no two share one
(`ExampleAssumption`). A ratio is a fraction here and a float in the code. `Train` copies `train.jsonl` into a run.

`Compare` EXTENDS `Split` and follows a run from there: a delivery renames the GGUF and
then records it (`parted` between the two), the target keeps the file of an earlier
export, the compare fixes its questions and its GGUF in `setup.json` (`asked`, `sha`),
serves what the target has if its checksum is the recorded one, and collects what the
job answered. The judge reads `verdicts.jsonl` (`Todo`), has up to `pool` requests in
flight and appends each verdict. A cut append leaves a part of a line or a whole one
without its newline; the next append joins it, and the file no longer reads (`broken`).

Not modelled: the job on the target as a job (`JobControl` and `RunFlow` are that: its
status, its markers, its pod), the choice of a quantize type (one), several compares.

### Tui

The control of `tui/`, and none of its views. One loop handles keys, messages of tasks,
ends of tasks, and signals; what a handler changes and what it hands the loop to do is
one action. `slot` and `tasks` are what the app believes to run, `flow` what does run:
each task's flow is a sequence of steps of its own beside the loop, with its token
(`cut`) and its abandon flag. `told` is a message out and not yet handled. Quitting
(`leaving`) detaches the followers at once or once their job started (`detach`), a
cancel or a stop of a run another task follows waits for that task (`cancel_after`,
`stop_after`), auto mode goes from a stage to its training (`auto`), and a run may wait
for the choices of its start dialog to be saved (`start_after_save`). When the terminal
fails, what was to be spawned is settled first (`settle`), then the tasks are waited for
(`wait`).

The list of runs is read from the disk, and `run.json` is there before the start's
message tells the app which run its task is on. So a key may take up a run (attach,
cancel, stop) whose start the app cannot find: two flows then work on it. `early`, which
no action reads, records the runs this happened to. What one flow per run gives is stated
of the others, and `never_two_follow` shows what becomes of these. A cancel may wait for
a start on a pod for the same reason, and is dropped if the user abandons the start.

A dialog and its confirmation are one action with the guards of the confirmation. A
task's id is free again once nothing refers to it. The flow of a task is a summary of
`RunFlow` and `Provision` (create, pod, launch, watch, end), with what its token does
at each. Not modelled: snapshots and lists, the wizard, the configuration's reload,
browsing, and the first key of a two-key confirmation.

## 3. Runs

| Run | Shows | Bounds |
|---|---|---|
| `watchdog` | what a job and its snapshot are owed before a delete (`SnapshotFirst`, `SnapshotKept`), and `Released` under fairness | deadline 4, graces 2 and 3, cap 5/6, time to 9, client and restarts to 5 |
| `pod_guard` | lease belief, cost cap, retrieval and keeping over both machines, of a pod to keep or not | deadline 1, lease 2, cap 2/3, time to 5, client to 4 |
| `job_control` | what a status says under every race with the job and two cancels (`ReadsAreTrue`), and the refinement of `JobStatus` | two cancels, one reader |
| `run_flow` | that `run.json` tells what happened and its results are here (`RecordHolds`), that a follow and a stop end, and the refinement of `JobStatus` | one retry |
| `orphans` | that no pod is lost, doubled or wrongly forgotten over `train`, `pod rm` and `pod ls`, any of which may fail or die at any step, and the refinement of `PodAccount` | two create calls, two GPU types, two unclear answers of a type |
| `dataset` | that the files stay usable (`FilesHold`), nothing is paid for or generated twice, and every stage ends, over edits, stages, failures and cuts | two names, three texts, two requests and two fills at a time, one edit, one cut; names and texts symmetric |
| `compare` | that a split is whole and its eval set as large and as spread as asked; questions held out, the recorded child served, no verdict paid for twice, whole reports | split: six examples in three topics, three ratios, two changes; compared: three of the examples, one change, a target of each kind, two exports, two questions |
| `tui` | one writer, one flow on a run not taken up early, no start cut, no confirmed cancel lost but by an abandon, nothing new while leaving, and that a quit and a cancel end | one run, two tasks at once, a compare, auto mode with one stage before its training |
| `key_for_every_call`, `verdicts_resume`, `detached_once_started`, `never_two_follow` | statements of the docs or the code's comments that the code does not keep | as `orphans`, `compare` and `tui`; the last one without a compare and without `EarlyAlone` |

`Horizon` and `MaxTime` of the two pod modules are bounds of the model: the client
acts, containers restart and writes fail before `Horizon`; the clock stops at
`MaxTime`, past every limit, while passes go on. The other constants keep the order of
the real ones (the lead before the deadline, the lease shorter than the waits) and are
small so that every limit falls before, at and after every other event.

Two cancels are enough for one to leave behind what another finds; readers only read,
so one stands for all. One retry reaches both sides of the budget. `RunFlow` needs no
bound: a run has finitely many states. `MAX_CALLS` of `Orphans` is not the program's
either. Two calls give a walk that tries the same type again and one that goes to the
next, a duplicate and a stray beside the run's pod; a third would be to the second what
the second is to the first.

`MaxEdits` and `MaxStops` of `Dataset` are bounds of the model. Two names are enough
for a rename onto the other and for two fills to race; three texts for a batch that
brings one new and one known text while a third is still missing. With one edit and one
cut, any stage or edit may be the one that was cut and any later one the one that finds
it; the proofs do not need these bounds. `MaxChanges` of `Split` lets the two files be
of two datasets, with an example that became unusable in between. `Bound` of
`MCCompare` keeps the datasets that are exported to the three examples of `Small`, and
splits the others with one target, which a split does not read. Two exports of
`Compare` give the target an older file; two questions are one judged before a cut and
one after. The instance of `Tui` lets a run be taken over (the two tasks are the one that
follows it and another), while a stage, an edit, a save or a compare has a slot of its
own; a third task would do beside the two what one of them does. `EarlyAlone` of `MCTui`
leaves out what the rest of the interface does once a run was taken up early, for which
the properties promise little: the two flows then go on with the keys about runs, alone.
No step that fairness asks for needs what it takes away, so the fairness stays that of
`Tui`, and the proofs of the safety properties do without it.

Deadlock is not checked where the system stops: a pod goes, the model's time ends, a
run or the terminal interface has an end, a compare has nothing left to judge. It is
checked in `dataset`: a stage that hung would be found.

Fairness. `WFairness`: the loop's steps and the clock are weakly fair, since the shell
loop has nothing to wait for except calls bounded by `curl --max-time`; the delete is
strongly fair, since each pass tries four ways again. Nothing is assumed of the client.
`Released` then says the pod stops billing its GPU unless it was kept with a job.
`RunFairness`: a process that was not killed goes on (its timers fire, its calls answer
or fail), and a cancel script ends, as its waits are bounded. A job owes nothing: it
may run for ever, which is why a stop needs its fallback (`FlowsEnd`). `Fairness` of
`Tui`: the loop handles the messages and ends that arrived (it waits for nothing but
them, keys, signals and a tick), the end of the loop goes on, and a flow advances up to
the watch of its job, or to its end once it was told to stop (`Advances`). Neither the
end of a job nor, unless it is told to stop, of a stage, a push or a compare is
assumed, and no key is: `GoesOn` says that a quit and a cancel depend on none of them.

`JobControl`, `Orphans`, `Split` and `Compare` assume nothing. Nor does `Dataset`: that
a stage ends (`StageEnds`) is stated as a number that each of its steps brings down,
and that some step is possible until the end. The steps that bring it down are answers
of the network, whose timeouts are the client's.

## 4. Proofs

Every theorem is for all values of the constants, under the named assumptions of the
modules. Those of `Orphans` are for any number of GPU types and create calls, those of
`Dataset` for any finite sets of names and texts, any concurrency and any number of
edits and cuts.

`Watchdog_proofs` proves `WSpec => []WInv` and, from it, the type, `SnapshotFirst`,
`SnapshotKept` and `KeptStays`, from `TimesAssumption` and `CapAssumption`. The
properties speak of a pass at its delete; what makes them inductive is what the pass
knew on the way: `PassInv` (times read are in the past, `why` is set exactly at the
delete), `FilesInv` (what the flags say of the files), `AskedInv` (past the snapshot
rule, a limit that may delete was asked for, or the request failed in this pass; it uses
that the cap's snapshot is due no later than the cap) and `KeptInv`.

`PodGuard_proofs` proves `Spec => []GInv`, beside the watchdog's own invariant, with
`LeaseInv` (a renewal between its touch and its answer: the file is already as fresh
as what the client will believe), `ResultsInv` (where the client can be once results
are here, and what a marker implies) and `KeptClientInv`. `GDeadlineRespectsHolder`
combines the watchdog's rule with the client's belief: the lease read by the watchdog
is no older than what the client believes. `GKeptIsLeft` joins `KeptStays` of the
watchdog with what the client does to a kept pod.

`JobControl_proofs` proves the type, `ReadsAreTrue`, `FinishedKeepsItsResult` and the
refinement for any number of cancels and readers, with no assumption on them. Its
invariant says what ended the job (`CauseInv`), where each cancel is over the files
(`CancelInv`), and what each reader has learned by its step (`Learned`, `Answered`):
facts that later steps can only make truer, which one lemma (`Onward`) carries over
every step of every other actor.

`RunFlow_proofs` proves `Spec => []IInv` and from it `RecordHolds`,
`OnlyAskedIsCancelled`, the action property `ResultStays` and the refinement
`FollowsStatus`, for any retry budget. The properties of the record are not inductive:
the record is written from an outcome decided several calls earlier. `OutInv` says what
that outcome owes the target and the local directory at each step before the save,
`RunInv` ties the step to the record (a follow only of a running run, a cancel only of a
recorded job), `TargetInv` the files of the job to one another, and `FallbackInv` says
that the fallback acts only on a request.

Of `FlowsEnd` the prover cannot do the fairness; what is left is proved. `RFollowAdvances`:
once the job has ended, each step of the follow brings `FollowLeft` down (the steps to
go, and in each the retries left), and no other step raises it or restarts the job.
`RStopAdvances`: the same of the fallback. `RStopDelivers`: a fallback that is over left
a job that ended, or met a failed call, which rests on what a cancel that was called
leaves behind (`CallInv`). Each place of the two has a step without a guard, or waits for
the cancel script, whose end is the third fairness.

`Orphans_proofs` proves everything the run `orphans` checks. There are three copies of
a run's pods: what Runpod has, what `pod.json` says, and what the process at work
remembers. `FlowInv` says which step belongs to which flow and what it works on;
`CopiesInv` what each copy implies of the others (a pod recorded deleted is gone, a
pod the process believes in was asked for); `WalkInv` and `Tries` where the walk is in
its attempts, so that it makes a new pod only once the last one is gone or named;
`HadInv` that no pod the run had bills while the walk is between two
of them; `DiskInv` that the file
is behind the memory in the ways a failed save explains, unless a `pod ls` put an older
file back (`stale`); `RmInv` what a `pod rm` has behind it at each of its steps, so that
it cannot report gone what it did not see gone; and `JobInv` that a pod with a job in
it is the run's recorded one. `StaysNamed` needs all of them. There is one lemma a step,
or a group of steps that differ in nothing the invariant sees.

The refinement of `PodAccount` (`OImplements`) comes from the same invariant, in two
lemmas. `SpecialAllowed` has the steps the account has an action of its own for: what
the host key and `pod ls` do, a call that is sent (`DiskInv`: its number is the one on
disk) and a pod that shows. Every other step is `Works` (`WorksAllowed`), from what no
step may do: take back a name (`NamedGrows`) or a call (`CopyCounts`, `CallsGrow`: the
copy saved shows at least what `pod.json` does), or change a pod but by a delete
(`PodSteps`). `KeyFirst`, the one fact added, says that no call was sent before the key.

`Dataset_proofs` proves the type, then that no file becomes unreadable (`TailInv`: a
tail is not ended only where the next append looks first), that IDs stay unique
(`UniqueInv`, over the contents an edit has planned but not yet written, and
`DedupInv`: while a fill holds the lock the deduplicator knows every text on disk, so two
fills cannot admit the same), that a deleted question is in `rejected` before it leaves
its file (`RecordInv`), and that nothing refers to a missing record (`WholeInv`, which
speaks of every prefix of the writes left). Together: `FilesStaySound`,
`NothingAskedTwice`, `QuestionsAreNew`, `DeletedStaysDeleted`, `FinishedIsKept`.
`CountInv` counts: while a fill runs, what it believes to have accepted is what its
subtopic holds on disk, so a batch cut to what is missing fits (`TargetsHold`, and with
`QuestionsAreNew` all of `StageAdds`). That a stage ends has two halves. `StagesAdvance`
proves that each step brings `FillRank` or the rank of the requests down, also where a
batch that brought something resets the stalls. `StagesNeverHang` proves that a guard is
open until the end (`CanGoOn`), from `LeftInv` (an edit being saved has a write left, a
stage that stops has only what finished to join) and from `DedupInv` (a deduplicator
that is taken is held by a fill that is embedding). `CanGoOn` names the guards, since
ENABLED is beyond the prover; `StageEnds` checks the ENABLED form in the run `dataset`.

`Compare_proofs` proves `SplitIsWhole`, `HeldOut`, `ServedAsRecorded`, `JudgedOnce` and
`ReportIsWhole`. `SplitInv` relates the two files while the second is still to be
written, `ExportInv` says the file and its record agree outside a delivery, `AnswersInv`
and `JudgeInv` what a judge run may ask, `ReportInv` that what was reported stays
answered. They hold whatever the shares are, as long as eval is a part of the usable
examples.

How large and how fair eval is (`EvalIsFair`) is proved in the same module for any finite
set of examples, from `ExampleAssumption`. The sums of `allocate` are folds, which the
code takes in one order and the model in any. `SumIsArea` says that such a sum is the
number of points under the graph of the function (by a least set where it would not be,
`SetInduction`), after which sums add, scale and compare. `FirstOfOrder` says that of a
strict order exactly k have less than k before them, which counts what `pick` takes and
which groups get one more. `LeftFits` says that what the integer parts leave over is no
more than the number of groups with a remainder, `LuckyCount` that only such groups get
it; so `QuotaOfOne` keeps each quota within its group and within one of its share, and
`QuotasAddUp` makes them add up. `LevelIsFair` is one level, `TopicGives` the subtopics
of a topic, `StratifyIsFair` both levels, and `SplitInv` that eval is what `stratify`
gave as long as no change or cut came after.

`Tui_proofs` proves the type, `OneAtATime`, `StartNeverCut`, `Accounted`, `CancelKept`
and `NothingNew`, for any number of runs, tasks and stages. The invariant ties what the
app believes to run to what does (`TaskInv`): a task followed has a flow of its kind, a
run the app knows is its flow's, a watch begins after the flow told of it. `LockInv` says
that the lock of `App::lock` is held by one task, from which follows that auto mode or a
save may start a run without asking for the lock again. `RunInv` says that a run not
taken up early has one flow, even an ended one not yet handled, and `NoteInv` keeps the
exit notes from such runs that were taken up again; of a run taken up early only what one
flow alone makes true is left (its record exists). The two action properties go over
every action with the invariant as their only fact about the past; in `CancelKept` the
abandon of a start is the one step of the user that drops a cancel.

Two properties of `Orphans` are proved and not in its run, whose refinement implies them:
`RecordedBeforeCall` (`Asks`) and `KeysStay` (`DropsKey`).

Only model-checked: what must eventually happen (`Released`, `FlowsEnd`, `GoesOn`),
since liveness under fairness is beyond the prover (for `FlowsEnd`, the fairness only),
and the ENABLED in `StageEnds`, whose
parts are `StagesAdvance` and `StagesNeverHang`.

## 5. Findings

Each is a run TLC must find violated, with the sentence quoted in `PROJECT.json`.

- `key_for_every_call`: `pod ls` forgets the keys of a run whose recorded pod is gone,
  also while its `train` is walking on to the next GPU type (`flow.rs` `mark_gone`),
  against `docs/runpod.md:128`.
- `verdicts_resume`: after a verdict cut in the middle of its line the next one is
  appended to that line, and no `--rejudge` can read the file any more
  (`compare/types.rs` `append_verdict`), against `cli/compare.rs:572`.
- `detached_once_started`: once the terminal failed, the messages of tasks are handled
  only when some task ends, so a run still starting is followed to its end instead of
  detached (`event_loop.rs` `wait_tasks`), against `event_loop.rs:315`.
- `never_two_follow`: a run listed before its start's message is handled has no task for
  `task_of` (`training.rs:493`), so a stop, a cancel or an attach picked then runs beside
  the start, against `follow.rs:521`.

Met on the way, visible in the models, without a run of their own:

Pods. The client's own deadline guard does not know of the snapshot the watchdog is
waiting for (`flow.rs` `guard_fires`, `docs/runpod.md:162`). A restarted container whose
bootstrap fails deletes a kept pod (`docs/runpod.md:200`). Results not retrieved go with
the deadline when no snapshot ended the job (`docs/runpod.md:192`). A failed start
forgets the run's keys although the list of its pods failed, or a stray could not be
saved, where the end of a pod keeps them (`AfterFailure` beside `SweepsThenForgets`).

Jobs and runs. `status_script` tests the marker twice; one that appears between the two
tests makes it print cancelled while the group is alive (`script.rs:62`). A cancel that
gives up leaves its marker, and a second one that finds the job gone reports it cancelled
(`script.rs:46`, `script.rs:150`). A cancelled container's job may outlive the cancel
(`docs/training.md:80`). `train cancel` of a stopped run whose job the fallback had
cancelled records it cancelled (`docs/training.md:80`), and so does one of a lost job
(`train.rs:953`). `train attach` of an ended run looks for its missing results on a pod
only (`docs/training.md:135`). A stop whose fallback met one failed call leaves the job
running (`docs/training.md:66`). `Outcome::retrieved` (`train.rs:114`) is true of an
ended run whose results were never looked for.

Compares. A compare asks the questions of `eval.jsonl` as it is now, which a split made
since the training may have drawn from what the run trained on (`docs/compare.md:3`,
`cli/compare.rs:83`). `--rejudge` while the job of a local compare is still answering
stores an error for each question it has not answered yet, and a later `--rejudge` keeps
it (`docs/compare.md:44`). A crash of an export between the rename of the GGUF and
`export.json` leaves a recorded checksum that no file has.

Terminal interface. A cancel confirmed while its run starts is dropped when the start is
abandoned, as `abandon` and its test (`app.rs:5349`) want it, where `follow.rs:6` says
that only a signal drops one (`CancelKept` names both). A stop waiting for a detach is forgotten when a quit is called off,
where a cancel is kept (`follow.rs` `keep_following`). A resume that was confirmed when
the loop ended is started nevertheless, unlike a start (`event_loop.rs` `apply_late`).
When draining the messages fails, `finished` (`event_loop.rs:262`) drops the task's own
end with them; this one is not modelled.

## 6. Not modelled, and the plan

Out of scope: rendering, wording and parsing of files, HTTP and SSH transports,
encryption, and floats (sizing, prices); what they decide is a choice in the models. Most
of `tui/` is of this kind: views, lists, forms and their validation, which hold no state
that outlives the screen. So is the configuration's validation (`config/validate.rs`,
one rule after the other over one value) and the model card (`hub/card.rs`, text).

Two hazards have no property. A job launched over SSH whose answer is lost runs on
unknown to the record (`exec/ssh/mod.rs:92`): nothing in the code looks for it, so
there is nothing to state. A pod whose record could not be saved while its delete failed
(`provision.rs:704`) keeps only its marker; `RmComplete` says that `pod rm` finds it
there.

Left, in order:

1. The configuration's reload and the wizard beside the tasks of `Tui`, and the
   retries of the LLM clients (their budget, and what a fatal answer stops).
2. The claim of a run's ID and of a job's directory (`claim_script`), and a run resumed
   from another, in `RunFlow`.
3. The order of the GPU walk (`target.rs`, `catalog.rs`) as a pure function against a
   reference definition.
4. For the proofs: what remains of `GoesOn` without fairness, as for `StageEnds` and
   `FlowsEnd`: a number each step of the code brings down, and a guard open until the
   end.
