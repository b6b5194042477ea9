-------------------------------- MODULE Tui --------------------------------
(***************************************************************************)
(* The control of the terminal interface (src/tui): the work a user can    *)
(* start from it, the lock that keeps two pieces of work off the dataset,  *)
(* the training tasks and how one is detached so that another (a cancel, a *)
(* stop) can take the run over, quitting, signals, and the end of the      *)
(* event loop.                                                             *)
(*                                                                         *)
(* The app's state is a set of variables; a handler of app.rs, follow.rs,  *)
(* auto.rs or project_edit.rs is an action.  What a handler hands back to  *)
(* the loop (its effects: a task to spawn, a token to cancel) is applied   *)
(* in the same step: the loop is one thread and does nothing in between.   *)
(* The exception is the one that matters: when the drawing fails, or the   *)
(* handler ended the app, the tasks to spawn are left to settle (at        *)
(* "asked").  The flows of the tasks (cli::train and the others) run       *)
(* beside the loop, one step at a time.                                    *)
(*                                                                         *)
(* A dialog and the key that confirms it are one action: what the dialog   *)
(* asked may have changed when it is confirmed, so the action has the      *)
(* guards of the confirmation, and the ones of the question only where     *)
(* nothing can change them while the dialog is open (any signal closes     *)
(* it).  Task ids are never reused by the code; here an id is free again   *)
(* once nothing refers to it, which bounds how much runs at once and not   *)
(* how much runs in all.                                                   *)
(*                                                                         *)
(* The list of runs is read from the disk, where a run is recorded before  *)
(* its start tells the app its name: a key may so take up a run that the   *)
(* app does not know it is starting.  The history variable early, which no *)
(* action reads, holds the runs this happened to.                          *)
(***************************************************************************)
EXTENDS Naturals, FiniteSets

CONSTANTS
    Runs,     \* the runs of runs/, also the ones a start may still create
    Ids,      \* the task ids: how many tasks run at once
    Others,   \* which of a push and a compare the user may start
    STAGES,   \* the stages of auto mode before its training
    None      \* no run

ASSUME IdsAssumption == Ids \subseteq Nat \ {0} /\ IsFiniteSet(Ids)
ASSUME StagesAssumption == STAGES \in Nat \ {0}
ASSUME OthersAssumption == Others \subseteq {"push", "compare"}
ASSUME NoneAssumption == None \notin Runs

VARIABLES
    phase,     \* the loop runs, has ended, waits for its tasks, or all is over
    leaving,   \* App::leaving
    slot,      \* the task of each kind the app runs one of, or 0
    tasks,     \* Training::tasks
    editing,   \* App::editing: an edit is open in the editor, or being saved
    start_after_save,  \* App::start_after_save
    auto,      \* the link auto mode is at: a stage, its training, or 0
    auto_task, \* Chain::train_task
    notes,     \* the exit notes about runs left running, or not cancelled
    flow,      \* the flow of each task, with its token and abandon flag
    record,    \* the state of each run's record
    early      \* the runs taken up before their start told the app of them

appVars == <<leaving, slot, tasks, editing, start_after_save, auto, auto_task,
             notes>>
vars == <<phase, leaving, slot, tasks, editing, start_after_save, auto,
          auto_task, notes, flow, record>>
allVars == <<vars, early>>

Slots == {"pipeline", "edit", "save", "push", "compare"}
Jobs == {"start", "attach", "cancel", "stop"}

Follow == [job : Jobs \cup {"none"}, runpod : BOOLEAN, run : Runs \cup {None},
           watching : BOOLEAN, cancel_after : BOOLEAN, stop_after : BOOLEAN,
           detach : {"no", "on_start", "done"}]

Flow == [work : Slots \cup Jobs, runpod : BOOLEAN, resume : BOOLEAN,
         run : Runs \cup {None},
         at : {"none", "asked", "begin", "made", "launch", "watch", "over"},
         told : BOOLEAN, cut : BOOLEAN, abandon : BOOLEAN,
         result : {"ok", "left", "failed"}]

NewFollow(job, runpod, run) ==
    [job |-> job, runpod |-> runpod, run |-> run, watching |-> FALSE,
     cancel_after |-> FALSE, stop_after |-> FALSE, detach |-> "no"]

NoFollow == NewFollow("none", FALSE, None)

NoFlow ==
    [work |-> "edit", runpod |-> FALSE, resume |-> FALSE, run |-> None,
     at |-> "none", told |-> FALSE, cut |-> FALSE, abandon |-> FALSE,
     result |-> "ok"]

\* A task just handed to the loop: spawned at once while the loop runs, left
\* to settle when this step ended the loop.  Only then does it matter
\* whether a start resumes a run.
Spawned(work, run, runpod, resume) ==
    [NoFlow EXCEPT !.work = work, !.run = run, !.runpod = runpod,
                   !.resume = resume /\ phase' = "settle",
                   !.at = IF phase' = "settle" THEN "asked" ELSE "begin"]

Following == {i \in Ids : tasks[i].job # "none"}
Alive(i) == flow[i].at \notin {"none", "asked"}

Free == {i \in Ids : /\ flow[i].at = "none"
                     /\ i \notin Following
                     /\ \A k \in Slots : slot[k] # i}
NewId == CHOOSE i \in Free : TRUE

----------------------------------------------------------------------------
(* What the app knows of its tasks. *)

\* A start whose job has not started yet, as the app sees it.
Starting(f) == f.job = "start" /\ ~f.watching

Cancelling(f) == f.job = "cancel" \/ f.cancel_after
Stopping(f) == ~Cancelling(f) /\ (f.job = "stop" \/ f.stop_after)
Abandons(f) == /\ ~Cancelling(f)
               /\ ~Stopping(f)
               /\ Starting(f)
               /\ f.runpod

\* The tasks known to be on run r: the app takes the first, where there are two.
TaskOf(r) == {i \in Following : tasks[i].run = r}

\* The dataset cannot be changed: a stage, an edit or a training start runs.
\* Mutant: a start no longer holds the data lock
Lock_Starts ==
    \/ slot["pipeline"] # 0
    \/ slot["edit"] # 0
    \/ editing
    \/ start_after_save # "none"
Lock ==
    \/ slot["pipeline"] # 0
    \/ slot["edit"] # 0
    \/ editing
    \/ start_after_save # "none"
    \/ \E i \in Following : Starting(tasks[i])

\* New work (a stage, an edit, a run, a push, a compare) is refused.
\* Mutant: new work is taken while a quit waits
Refused_Leaving == Lock
Refused == Lock \/ leaving # "none"

\* The editor has the terminal: no key is read, nothing is drawn.
Suspended == editing /\ slot["edit"] = 0

\* Nothing the end of the app waits for runs.
Idle ==
    /\ \A k \in Slots : slot[k] = 0
    /\ Following = {}

\* After a handler the loop draws (which may fail, unless the editor has the
\* terminal), then ends if the app did: once it leaves and is idle, which
\* sets App::exit.
Drawn ==
    phase' \in CASE phase # "loop" -> {phase}
                  [] phase = "loop" /\ leaving' # "none" /\ Idle' -> {"settle"}
                  [] OTHER -> IF Suspended /\ Suspended' THEN {"loop"}
                                                         ELSE {"loop", "settle"}

\* A key of the user: read while the loop runs and the editor is closed.
Key == phase = "loop" /\ ~Suspended

----------------------------------------------------------------------------
(* Detaching, cancelling and abandoning training tasks. *)

\* What asking task i to detach leaves: at once when its watch began, else
\* once its job's first status arrives.
Detached(f) ==
    [f EXCEPT !.detach = IF f.watching \/ f.detach = "done" THEN "done"
                                                           ELSE "on_start"]

\* Whether its token is cancelled now.
\* Mutant: a start is cut too
CutNow_Starts(f) == f.detach # "done"
CutNow(f) == f.watching /\ f.detach # "done"

\* The flows once the tokens of the tasks S are cancelled, and the abandon
\* flags of A set: they say nothing to a flow that ended.
Cut(S, A) ==
    [i \in Ids |-> IF flow[i].at = "over" THEN flow[i]
                   ELSE [flow[i] EXCEPT !.cut = @ \/ i \in S \cup A,
                                        !.abandon = @ \/ i \in A]]

\* What quitting detaches: every task but the cancels.
Followers == {i \in Following : tasks[i].job # "cancel"}

\* App::leave on the tasks t, for a quit: followers detach.
DetachAll ==
    [i \in Ids |-> IF i \in Followers THEN Detached(tasks[i]) ELSE tasks[i]]

\* App::leave for a signal: followers are abandoned at once.
AbandonAll ==
    [i \in Ids |-> IF i \in Followers
                   THEN [tasks[i] EXCEPT !.detach = "done"] ELSE tasks[i]]

Stopped(kinds) == {slot[k] : k \in kinds} \ {0}

\* Leaving for why: a signal is never turned back into a plain quit.
Leave(why) ==
    /\ leaving' = IF leaving = "signal" THEN leaving ELSE why
    /\ tasks' = IF leaving' = "signal" THEN AbandonAll ELSE DetachAll
    /\ UNCHANGED <<slot, editing, start_after_save, auto, auto_task>>

\* The tokens and flags Leave sets.
LeaveCuts ==
    IF leaving' = "signal"
    THEN Cut(Stopped({"pipeline", "push"}), Stopped({"compare"}) \cup Followers)
    ELSE Cut(Stopped({"pipeline", "push"})
                 \cup {i \in Followers : CutNow(tasks[i])},
             Stopped({"compare"}))

\* The notes left once run r is taken up again.
Forgotten(N, r) == {n \in N : n[1] # r}

\* Starting a training task doing job on run r, which no task is known to be on:
\* taken up early, if one is on it.
Train(job, r) ==
    /\ Free # {}
    /\ tasks' = [tasks EXCEPT ![NewId] = NewFollow(job, FALSE, r)]
    /\ notes' = Forgotten(notes, r)
    /\ UNCHANGED <<leaving, slot, editing, start_after_save, auto,
                   auto_task, record>>
    /\ early' = early \cup ({r} \cap {flow[i].run : i \in Ids})
    /\ Drawn
    /\ flow' = [flow EXCEPT ![NewId] = Spawned(job, r, FALSE, FALSE)]

\* A run is listed once it is recorded, which is before its start's message.
Listed(r) == record[r] # "absent"

\* `a`: follows a run again.
AttachSelected(r) ==
    /\ Key
    /\ leaving = "none"
    /\ Listed(r)
    /\ TaskOf(r) = {}
    /\ Train("attach", r)

\* Detaching task i, once f says what is to follow.
DetachTask(i, f) ==
    /\ tasks' = [tasks EXCEPT ![i] = Detached(f)]
    /\ UNCHANGED <<leaving, slot, editing, start_after_save, auto,
                   auto_task, notes, record, early>>
    /\ Drawn
    /\ flow' = Cut(IF CutNow(f) THEN {i} ELSE {}, {})

\* `c`, confirmed: a task following the run is detached first, and the cancel
\* starts once it ended.  The task may be of a start the dialog did not know.
CancelRun(r) ==
    /\ Key
    /\ leaving # "signal"
    /\ Listed(r)
    /\ \/ TaskOf(r) = {} /\ Train("cancel", r)
       \/ \E i \in TaskOf(r) :
              /\ ~Cancelling(tasks[i])
              /\ DetachTask(i, [tasks[i] EXCEPT !.cancel_after = TRUE])

\* `s`, confirmed, on a run that was running when asked: the same for a stop
\* with a snapshot.
StopRun(r) ==
    /\ Key
    /\ leaving = "none"
    /\ Listed(r)
    /\ record[r] \in {"running", "over"}
    /\ \/ TaskOf(r) = {} /\ Train("stop", r)
       \/ \E i \in TaskOf(r) :
              /\ ~Cancelling(tasks[i]) /\ ~Stopping(tasks[i])
              /\ DetachTask(i, [tasks[i] EXCEPT !.stop_after = TRUE])

\* Abandons the starts S, confirmed after `c` on one of them, or while quitting
\* (all that still start): their pods are deleted, and a cancel asked for
\* meanwhile is dropped.
Abandon(S) ==
    /\ Key
    /\ S # {}
    /\ \/ /\ leaving # "signal"
          /\ \E r \in Runs : \E i \in TaskOf(r) : /\ S = {i}
                                                /\ Abandons(tasks[i])
                                                /\ tasks[i].detach # "done"
       \/ leaving = "quit" /\ S = {i \in Following : /\ tasks[i].runpod
                                                      /\ Starting(tasks[i])
                                                      /\ tasks[i].detach # "done"}
    /\ tasks' = [i \in Ids |->
                    IF i \in S THEN [tasks[i] EXCEPT !.detach = "done",
                                                     !.cancel_after = FALSE]
                               ELSE tasks[i]]
    /\ UNCHANGED <<leaving, slot, editing, start_after_save, auto,
                   auto_task, notes, record, early>>
    /\ Drawn
    /\ flow' = Cut({}, S)

----------------------------------------------------------------------------
(* The other work a key starts. *)

\* A task of kind k starts in its slot.
InSlot(k) ==
    /\ Free # {}
    /\ slot' = [slot EXCEPT ![k] = NewId]
    /\ UNCHANGED <<leaving, tasks, auto_task, notes, record, early>>
    /\ Drawn
    /\ flow' = [flow EXCEPT ![NewId] = Spawned(k, None, FALSE, FALSE)]

\* A stage, from the menu or as the first link of auto mode.
RunPipeline ==
    /\ Key
    /\ ~Refused
    /\ UNCHANGED <<editing, start_after_save>>
    /\ auto' \in IF auto = 0 THEN {0, 1} ELSE {auto}
    /\ InSlot("pipeline")

\* `c` in the Pipeline view, confirmed: the chain and its stage stop.
CancelAuto ==
    /\ Key
    /\ auto \in 1 .. STAGES
    /\ auto' = 0
    /\ UNCHANGED <<leaving, slot, tasks, editing, start_after_save,
                   auto_task, notes, record, early>>
    /\ Drawn
    /\ flow' = Cut(Stopped({"pipeline"}), {})

\* `e`: opens the selected text in the editor, which gets the terminal.
EditSelected ==
    /\ Key
    /\ ~Refused
    /\ editing' = TRUE
    /\ UNCHANGED <<leaving, slot, tasks, start_after_save, auto, auto_task,
                   notes, flow, record, early>>
    /\ Drawn

\* The editor ended: its text is dropped or kept aside, or is saved by a task;
\* or the terminal cannot be taken back, which ends the loop.
EditorExit ==
    /\ phase = "loop"
    /\ Suspended
    /\ \/ /\ editing' = FALSE
          /\ UNCHANGED <<leaving, slot, tasks, start_after_save, auto,
                         auto_task, notes, flow, record, early>>
          /\ Drawn
       \/ UNCHANGED <<editing, start_after_save, auto>> /\ InSlot("edit")
       \/ phase' = "settle" /\ UNCHANGED <<appVars, flow, record, early>>

\* `d`, confirmed: a deletion, saved by a task.
Delete ==
    /\ Key
    /\ ~Refused
    /\ UNCHANGED <<editing, start_after_save, auto>>
    /\ InSlot("edit")

\* A change of the configuration is written, one at a time.
SpawnWrite ==
    /\ Key
    /\ leaving = "none"
    /\ slot["save"] = 0
    /\ UNCHANGED <<editing, start_after_save, auto>>
    /\ InSlot("save")

\* `y` in the start dialog with choices to save: the run starts after that.
ConfirmStart(how) ==
    /\ Key
    /\ ~Refused
    /\ slot["save"] = 0
    /\ start_after_save' = how
    /\ UNCHANGED <<editing, auto>>
    /\ InSlot("save")

\* `y` in the start dialog, with nothing to save: a new run, or one resuming
\* a stopped run.
StartRun(how, runpod) ==
    /\ Key
    /\ ~Refused
    /\ Free # {}
    /\ tasks' = [tasks EXCEPT ![NewId] = NewFollow("start", runpod, None)]
    /\ UNCHANGED <<leaving, slot, editing, start_after_save, auto,
                   auto_task, notes, record, early>>
    /\ Drawn
    /\ flow' = [flow EXCEPT ![NewId] =
                   Spawned("start", None, runpod, how = "resume")]

\* A push or a compare, confirmed: one of each at a time.
Confirm(k) ==
    /\ Key
    /\ ~Refused
    /\ slot[k] = 0
    /\ UNCHANGED <<editing, start_after_save, auto>>
    /\ InSlot(k)

\* The compare running is cancelled, once confirmed.
CancelCompare ==
    /\ Key
    /\ slot["compare"] # 0
    /\ UNCHANGED <<appVars, record, early>>
    /\ Drawn
    /\ flow' = Cut({}, Stopped({"compare"}))

----------------------------------------------------------------------------
(* Quitting, signals, and the end of the loop. *)

\* `q`: quits at once when nothing the app waits for runs, else once confirmed.
Quit ==
    /\ Key
    /\ leaving = "none"
    /\ \/ /\ Idle
          /\ phase' = "settle"
          /\ UNCHANGED <<leaving, slot, tasks, editing, start_after_save, auto,
                         auto_task, notes, flow, record, early>>
       \/ /\ ~Idle
          /\ Leave("quit")
          /\ UNCHANGED <<notes, record, early>>
          /\ Drawn
          /\ flow' = LeaveCuts

\* When quitting is called off, a task still to detach keeps being followed,
\* unless a cancel waits for it.
KeepFollowing(f) ==
    IF f.detach = "on_start" /\ ~f.cancel_after
    THEN [f EXCEPT !.detach = "no"] ELSE f

Stay ==
    /\ Key
    /\ leaving = "quit"
    /\ leaving' = "none"
    /\ tasks' = [i \in Ids |-> KeepFollowing(tasks[i])]
    /\ UNCHANGED <<slot, editing, start_after_save, auto, auto_task, notes,
                   flow, record, early>>
    /\ Drawn

\* A signal from outside, also while the editor has the terminal or the tasks
\* are waited for.
OnSignal ==
    /\ phase \in {"loop", "wait"}
    /\ Leave("signal")
    /\ UNCHANGED <<notes, record, early>>
    /\ Drawn
    /\ flow' = LeaveCuts

----------------------------------------------------------------------------
(* The messages and the ends of tasks. *)

\* Mutant: only a quit's detach happens then, a cancel's does not.
DueAt_Quitting(i) ==
    /\ flow[i].told /\ ~tasks[i].watching /\ tasks[i].detach = "on_start"
    /\ leaving # "none"

\* Its first job status is to be handled, and a detach waits for it.
DueAt(i) == flow[i].told /\ ~tasks[i].watching /\ tasks[i].detach = "on_start"

\* Task i as its messages so far leave it: its run, once created, and its
\* watch, from its job's first status on, which a pending detach waited for.
Heard(i) ==
    [tasks[i] EXCEPT
        !.run = IF flow[i].run # None THEN flow[i].run ELSE @,
        !.watching = @ \/ flow[i].told,
        !.detach = IF DueAt(i) THEN "done" ELSE @]

\* One message, or several, of a task followed.
OnMessage(i) ==
    /\ phase = "loop"
    /\ i \in Following
    /\ Heard(i) # tasks[i]
    /\ tasks' = [tasks EXCEPT ![i] = Heard(i)]
    /\ UNCHANGED <<leaving, slot, editing, start_after_save, auto,
                   auto_task, notes, record, early>>
    /\ Drawn
    /\ flow' = Cut(IF DueAt(i) THEN {i} ELSE {}, {})

\* Every message sent so far is handled before the end of a task.
Drained ==
    [i \in Ids |-> IF i \in Following THEN Heard(i) ELSE tasks[i]]
DrainCuts == {i \in Following : DueAt(i)}

\* The terminal fails; or its input is gone, which quits once every message
\* sent so far is handled.
TerminalGone ==
    /\ Key
    /\ phase' = "settle"
    /\ UNCHANGED <<leaving, slot, editing, start_after_save, auto, auto_task,
                   notes, record, early>>
    /\ \/ UNCHANGED <<tasks, flow>>
       \/ tasks' = Drained /\ flow' = Cut(DrainCuts, {})

\* The end of task i frees its id.
Gone(F, i) == [F EXCEPT ![i] = NoFlow]

\* Auto mode has a next link to start when the stage of task i ended.  Nothing
\* else holds the lock then: the stage held it.
AutoGoesOn(i) ==
    /\ auto \in 1 .. STAGES
    /\ flow[i].result = "ok"
    /\ leaving = "none"

\* A stage ended: auto mode goes on when it ended well, with the next stage,
\* then the training; a failure, or the app leaving, stops it.
PipelineEnded(i) ==
    /\ slot["pipeline"] = i
    /\ tasks' \in IF AutoGoesOn(i) /\ auto = STAGES
                  THEN {[Drained EXCEPT ![i] = NewFollow("start", rp, None)] :
                            rp \in BOOLEAN} \cup {Drained}
                  ELSE {Drained}
    /\ slot' = [slot EXCEPT !["pipeline"] =
                   IF AutoGoesOn(i) /\ auto < STAGES THEN i ELSE 0]
    /\ auto' = CASE AutoGoesOn(i) /\ auto < STAGES -> auto + 1
                 [] AutoGoesOn(i) /\ tasks'[i].job = "start" -> STAGES + 1
                 [] auto \in 1 .. STAGES -> 0
                 [] OTHER -> auto
    /\ auto_task' = IF auto' = STAGES + 1 /\ auto # auto' THEN i ELSE auto_task
    /\ leaving' = leaving
    /\ UNCHANGED <<editing, start_after_save, notes, record, early>>
    /\ Drawn
    /\ flow' = [Gone(Cut(DrainCuts, {}), i) EXCEPT ![i] =
                   IF slot'["pipeline"] = i
                   THEN Spawned("pipeline", None, FALSE, FALSE)
                   ELSE IF tasks'[i].job = "start"
                   THEN Spawned("start", None, tasks'[i].runpod, FALSE)
                   ELSE @]

\* An edit was saved or refused.
EditEnded(i) ==
    /\ slot["edit"] = i
    /\ slot' = [slot EXCEPT !["edit"] = 0]
    /\ editing' = FALSE
    /\ tasks' = Drained
    /\ leaving' = leaving
    /\ UNCHANGED <<start_after_save, auto, auto_task, notes, record, early>>
    /\ Drawn
    /\ flow' = Gone(Cut(DrainCuts, {}), i)

\* The save of task i ended well and a run waits for it.
StartsAfter(i) ==
    /\ start_after_save # "none"
    /\ flow[i].result = "ok"
    /\ leaving = "none"

\* The configuration was saved or refused; the run whose choices it saved
\* starts then, unless the app leaves.
ConfigSaved(i) ==
    /\ slot["save"] = i
    /\ slot' = [slot EXCEPT !["save"] = 0]
    /\ start_after_save' = "none"
    /\ tasks' = IF StartsAfter(i)
                THEN [Drained EXCEPT ![i] = NewFollow("start", TRUE, None)]
                ELSE Drained
    /\ leaving' = leaving
    /\ UNCHANGED <<editing, auto, auto_task, notes, record, early>>
    /\ Drawn
    /\ flow' = [Gone(Cut(DrainCuts, {}), i) EXCEPT ![i] =
                   IF StartsAfter(i)
                   THEN Spawned("start", None, TRUE, start_after_save = "resume")
                   ELSE @]

\* A push or a compare ended.
OtherEnded(k, i) ==
    /\ slot[k] = i
    /\ slot' = [slot EXCEPT ![k] = 0]
    /\ tasks' = Drained
    /\ leaving' = leaving
    /\ UNCHANGED <<editing, start_after_save, auto, auto_task, notes, record, early>>
    /\ Drawn
    /\ flow' = Gone(Cut(DrainCuts, {}), i)

\* What follows a training task that ended as f: the cancel that waited for it,
\* unless a signal came; a stop only when the app stays.
\* Mutant: a quit drops the cancel too
NextJob_Quit(f) ==
    CASE f.run = None -> "none"
      [] f.run # None /\ f.cancel_after /\ leaving = "none" -> "cancel"
      [] f.run # None /\ ~f.cancel_after /\ f.stop_after /\ leaving = "none" -> "stop"
      [] OTHER -> "none"
NextJob(f) ==
    CASE f.run = None -> "none"
      [] f.run # None /\ f.cancel_after /\ leaving # "signal" -> "cancel"
      [] f.run # None /\ ~f.cancel_after /\ f.stop_after /\ leaving = "none" -> "stop"
      [] OTHER -> "none"

\* The exit notes about the run of f, ended with result while leaving.
EndNotes(f, result) ==
    {n \in {<<f.run, "left">>, <<f.run, "not_cancelled">>} :
        /\ leaving # "none"
        /\ f.run # None
        /\ NextJob(f) # "cancel"
        /\ \/ n[2] = result
           \/ n[2] = "not_cancelled" /\ f.cancel_after}

\* Training task i ended; auto mode ends with its training.
Trained(i) ==
    /\ i \in Following
    /\ \E f \in {Heard(i)} :
          /\ tasks' = [Drained EXCEPT ![i] =
                          IF NextJob(f) = "none" THEN NoFollow
                          ELSE NewFollow(NextJob(f), FALSE, f.run)]
          /\ notes' = IF NextJob(f) = "none"
                      THEN notes \cup EndNotes(f, flow[i].result)
                      ELSE Forgotten(notes \cup EndNotes(f, flow[i].result), f.run)
          /\ leaving' = leaving
          /\ auto' = IF auto = STAGES + 1 /\ auto_task = i THEN 0 ELSE auto
          /\ auto_task' = IF auto_task = i THEN 0 ELSE auto_task
          /\ UNCHANGED <<slot, editing, start_after_save, record, early>>
          /\ Drawn
          /\ flow' = [Gone(Cut(DrainCuts, {}), i) EXCEPT ![i] =
                         IF NextJob(f) = "none" THEN @
                         ELSE Spawned(NextJob(f), f.run, FALSE, FALSE)]

\* The end of task i reaches the app, while the loop runs or its end waits.
Done(i) ==
    /\ phase \in {"loop", "wait"}
    /\ flow[i].at = "over"
    /\ \/ PipelineEnded(i)
       \/ EditEnded(i)
       \/ ConfigSaved(i)
       \/ \E k \in {"push", "compare"} : OtherEnded(k, i)
       \/ Trained(i)

\* What the loop left to start once it ended: a training task, an edit and a
\* save still run; the rest is dropped, and a new run too.
\* Mutant: a cancel left to start is dropped as a stage is
StartsLate_Few(i) == flow[i].work \in {"edit", "save"}
StartsLate(i) ==
    \/ flow[i].work \in {"edit", "save", "attach", "cancel", "stop"}
    \/ flow[i].work = "start" /\ flow[i].resume

Asked == {i \in Ids : flow[i].at = "asked"}
Dropped == {i \in Asked : ~StartsLate(i)}

\* Settle: what was left starts or is dropped; then, if a task runs, the app
\* leaves as on a confirmed quit and its tasks are waited for.
Settle ==
    /\ phase = "settle"
    /\ LET late == {i \in Asked : StartsLate(i)}
           kept == [i \in Ids |-> IF i \in Dropped /\ flow[i].work = "start"
                                  THEN NoFollow ELSE tasks[i]]
           runs == {i \in Ids : Alive(i) \/ i \in late}
           goes == runs # {}
           quits == leaving # "signal"
           F == {i \in Followers : kept[i].job # "none"}
       IN
       /\ phase' = IF goes THEN "wait" ELSE "ended"
       /\ leaving' = IF goes /\ quits THEN "quit" ELSE leaving
       /\ tasks' = [i \in Ids |->
                      IF ~goes \/ i \notin F THEN kept[i]
                      ELSE IF quits THEN Detached(tasks[i])
                      ELSE [tasks[i] EXCEPT !.detach = "done"]]
       /\ UNCHANGED <<slot, editing, start_after_save, auto, auto_task,
                      notes, record, early>>
       /\ flow' = [i \in Ids |->
             IF i \in Dropped THEN NoFlow
             ELSE [flow[i] EXCEPT
                     !.at = IF i \in late THEN "begin" ELSE @,
                     !.cut = @ \/ /\ goes
                                  /\ \/ i \in Stopped({"pipeline", "push", "compare"})
                                     \/ i \in F /\ (CutNow(tasks[i]) \/ ~quits),
                     !.abandon = @ \/ /\ goes
                                      /\ \/ i \in Stopped({"compare"})
                                         \/ i \in F /\ ~quits]]

\* Nothing runs any more: the program ends.
Ended ==
    /\ phase = "wait"
    /\ \A i \in Ids : ~Alive(i)
    /\ phase' = "ended"
    /\ UNCHANGED <<appVars, flow, record, early>>

----------------------------------------------------------------------------
(* The flows of the tasks, which run beside the loop. *)

To(i, at, result) ==
    flow' = [flow EXCEPT ![i].at = at, ![i].result = result,
                         ![i].cut = @ /\ at # "over",
                         ![i].abandon = @ /\ at # "over"]

\* What the end of a flow on run r leaves when it is not its job's end.
LeftAs(r) == IF r # None /\ record[r] = "running" THEN "left" ELSE "failed"

World == UNCHANGED <<phase, appVars, early>>

\* A stage, an edit, a save, a push or a compare ends, well or not (only the
\* end of a stage or of a save makes a difference).
WorkEnds(i) ==
    /\ flow[i].at = "begin"
    /\ flow[i].work \in Slots
    /\ \E result \in {"ok", "failed"} :
          /\ result = "ok" \/ flow[i].work \in {"pipeline", "save"}
          /\ To(i, "over", result)
    /\ World /\ UNCHANGED record

\* A start creates its run; until then an interruption stops it without one.
Create(i) ==
    /\ flow[i].at = "begin"
    /\ flow[i].work = "start"
    /\ \E r \in Runs :
          /\ record[r] = "absent"
          /\ record' = [record EXCEPT ![r] = "preparing"]
          /\ flow' = [flow EXCEPT ![i].at = "made", ![i].run = r]
    /\ World

\* The pod of a Runpod run is ready: an interruption seen by then deletes it and
\* fails the run.  Elsewhere the job is sent at once.
Provisioned(i) ==
    /\ flow[i].at = "made"
    /\ \/ /\ flow[i].runpod /\ flow[i].cut
          /\ record' = [record EXCEPT ![flow[i].run] = "over"]
          /\ To(i, "over", "failed")
       \/ /\ ~(flow[i].runpod /\ flow[i].cut)
          /\ record' = record
          /\ To(i, "launch", "ok")
    /\ World

\* The job started and its run is recorded so; an interruption that came
\* meanwhile detaches it at once.
Launched(i) ==
    /\ flow[i].at = "launch"
    /\ record' = [record EXCEPT ![flow[i].run] = "running"]
    /\ IF flow[i].cut THEN To(i, "over", "left") ELSE To(i, "watch", "ok")
    /\ World

\* A start fails before its job started.
StartFails(i) ==
    /\ flow[i].work = "start"
    /\ flow[i].at \in {"begin", "made", "launch"}
    /\ record' = [r \in Runs |-> IF r = flow[i].run THEN "over" ELSE record[r]]
    /\ To(i, "over", "failed")
    /\ World

\* An attach or a stop reaches the run, or fails (there is no job yet, as in a
\* run taken up early), or collects a run that ended.
Reached(i) ==
    /\ flow[i].at = "begin"
    /\ flow[i].work \in {"attach", "stop"}
    /\ IF record[flow[i].run] = "running"
       THEN To(i, "watch", "ok") \/ To(i, "over", "left")
       ELSE To(i, "over", IF record[flow[i].run] = "over" THEN "ok" ELSE "failed")
    /\ World /\ UNCHANGED record

\* The first status of the job followed is published.
JobStatus(i) ==
    /\ flow[i].at = "watch"
    /\ ~flow[i].told
    /\ flow' = [flow EXCEPT ![i].told = TRUE]
    /\ World /\ UNCHANGED record

\* The watch stops without its job's end: interrupted, or unable to go on.
WatchStops(i) ==
    /\ flow[i].at = "watch"
    /\ To(i, "over", LeftAs(flow[i].run))
    /\ World /\ UNCHANGED record

\* The job followed ends, well or not: the app only asks whether it was left.
JobEnds(i) ==
    /\ flow[i].at = "watch"
    /\ flow[i].told
    /\ record' = [record EXCEPT ![flow[i].run] = "over"]
    /\ To(i, "over", "ok")
    /\ World

\* A cancel is never interrupted: it ends the run, or fails, as it does when
\* there is no job yet.
CancelEnds(i) ==
    /\ flow[i].at = "begin"
    /\ flow[i].work = "cancel"
    /\ \/ /\ record[flow[i].run] # "preparing"
          /\ record' = [record EXCEPT ![flow[i].run] = "over"]
          /\ To(i, "over", "ok")
       \/ record' = record /\ To(i, "over", LeftAs(flow[i].run))
    /\ World

FlowStep(i) ==
    \/ WorkEnds(i) \/ Create(i) \/ Provisioned(i) \/ Launched(i)
    \/ StartFails(i) \/ Reached(i) \/ JobStatus(i) \/ WatchStops(i)
    \/ JobEnds(i) \/ CancelEnds(i)

----------------------------------------------------------------------------
Init ==
    /\ phase = "loop"
    /\ leaving = "none"
    /\ slot = [k \in Slots |-> 0]
    /\ tasks = [i \in Ids |-> NoFollow]
    /\ editing = FALSE
    /\ start_after_save = "none"
    /\ auto = 0
    /\ auto_task = 0
    /\ notes = {}
    /\ flow = [i \in Ids |-> NoFlow]
    /\ record \in [Runs -> {"absent", "running", "over"}]
    /\ early = {}

UserStep ==
    \/ \E r \in Runs : AttachSelected(r) \/ CancelRun(r) \/ StopRun(r)
    \/ \E S \in SUBSET Ids : Abandon(S)
    \/ RunPipeline \/ CancelAuto \/ EditSelected \/ Delete \/ SpawnWrite
    \/ \E how \in {"start", "resume"} :
          ConfirmStart(how) \/ \E rp \in BOOLEAN : StartRun(how, rp)
    \/ \E k \in Others : Confirm(k)
    \/ CancelCompare
    \/ Quit \/ Stay

LoopStep ==
    \/ EditorExit \/ OnSignal \/ TerminalGone \/ Settle \/ Ended
    \/ \E i \in Ids : OnMessage(i) \/ Done(i)

Next == UserStep \/ LoopStep \/ \E i \in Ids : FlowStep(i)

\* What a flow does without waiting for the end of a job, nor, unless it is
\* told to stop, of a stage, a push or a compare.
Advances(i) ==
    \/ Create(i) \/ Provisioned(i) \/ Launched(i) \/ StartFails(i) \/ Reached(i)
    \/ JobStatus(i) \/ CancelEnds(i)
    \/ flow[i].cut /\ WatchStops(i)
    \/ (flow[i].cut \/ flow[i].work \in {"edit", "save"}) /\ WorkEnds(i)

Fairness ==
    /\ \A i \in Ids : WF_vars(OnMessage(i) \/ Done(i)) /\ WF_vars(Advances(i))
    /\ WF_vars(Settle \/ Ended)

Spec == Init /\ [][Next]_allVars

----------------------------------------------------------------------------
(* What the interface promises. *)

\* What the program keeps holds values of its kind.
StateOK ==
    /\ phase \in {"loop", "settle", "wait", "ended"}
    /\ leaving \in {"none", "quit", "signal"}
    /\ slot \in [Slots -> Ids \cup {0}]
    /\ tasks \in [Ids -> Follow]
    /\ editing \in BOOLEAN
    /\ start_after_save \in {"none", "start", "resume"}
    /\ auto \in 0 .. STAGES + 1
    /\ auto_task \in Ids \cup {0}
    /\ notes \subseteq Runs \X {"left", "not_cancelled"}
    /\ flow \in [Ids -> Flow]
    /\ record \in [Runs -> {"absent", "preparing", "running", "over"}]

\* Every variable holds a value of its kind.
TypeOK == StateOK /\ early \subseteq Runs

\* A task that reads or writes the dataset: a stage, an edit, a start until
\* its job was sent.
Writes(i) ==
    \/ flow[i].work \in {"pipeline", "edit"} /\ flow[i].at = "begin"
    \/ flow[i].work = "start" /\ flow[i].at \in {"begin", "made", "launch"}

\* At most one task works on the dataset at a time, whatever auto mode, a save
\* that starts a run, a detached stage or the end of the loop let through: the
\* lock of App::lock is held from the key to the end of the task's flow.
OneWriter == \A i, j \in Ids : Writes(i) /\ Writes(j) => i = j

\* Two flows never work on the same run at once (follow.rs:521, :727: they
\* would end the same pod twice): an attach, a cancel or a stop starts only
\* once the flow before it ended; unless the run was taken up before the app
\* knew of its start, see NeverTwoFollow.
OneFlowPerRun ==
    \A i, j \in Ids :
        /\ flow[i].at \notin {"none", "over"}
        /\ flow[j].at \notin {"none", "over"}
        /\ flow[i].run = flow[j].run
        /\ flow[i].run \notin early \cup {None}
        => i = j

\* The token of a start is not cancelled before its job started, unless it is
\* abandoned (follow.rs:4-8): a quit, a cancel or a stop asked for meanwhile
\* waits for the job, else a pod paid for would be deleted unasked.
StartNeverCut ==
    \A i \in Ids :
        /\ flow[i].work = "start"
        /\ flow[i].at \in {"asked", "begin", "made", "launch"}
        /\ flow[i].cut
        => flow[i].abandon

\* Each training task the app follows runs (a task followed and never spawned
\* would hold the lock and the end of the app for ever), and none is followed,
\* edited or saved when the program ends.
NothingForgotten ==
    /\ phase \in {"loop", "wait"} => \A i \in Following : Alive(i)
    /\ phase = "ended" => /\ Following = {}
                          /\ slot["edit"] = 0
                          /\ slot["save"] = 0

\* An exit note about a run tells the truth: the run was not taken up again
\* since, and one noted as left running is still recorded so; as long as the
\* run had one flow at a time.
NotesHold ==
    \A n \in notes : n[1] \notin early =>
        /\ TaskOf(n[1]) = {}
        /\ n[2] = "left" => record[n[1]] = "running"

\* follow.rs, app.rs lock: no two tasks ever work on one dataset or on one run.
OneAtATime == OneWriter /\ OneFlowPerRun

\* tasks.rs, follow.rs run_ended: what runs is known to the app, and what the
\* app says of a run once it ended holds.
Accounted == NothingForgotten /\ NotesHold

Pending(r) == \E i \in TaskOf(r) : tasks[i].cancel_after
CancelRuns(r) == \E i \in TaskOf(r) : tasks[i].job = "cancel"

\* The user abandons start i in this step: its flow hears of it, or has ended.
Abandoned(i) ==
    /\ Starting(tasks[i]) /\ tasks[i].runpod
    /\ tasks[i].detach # "done" /\ tasks'[i].detach = "done"
    /\ flow'[i].abandon \/ flow[i].at = "over"

\* A confirmed cancel is never lost (follow.rs:6-8): it ends as a cancel of
\* the run, also while quitting; only once a signal came, an exit note says how
\* to run it instead; and only the user drops it, by abandoning the start it
\* waits for (:1064-1066).
CancelKept ==
    [][\A r \in Runs :
          Pending(r) /\ ~Pending(r)' =>
             \/ CancelRuns(r)'
             \/ leaving = "signal" /\ <<r, "not_cancelled">> \in notes'
             \/ \E i \in TaskOf(r) : Abandoned(i)]_vars

\* Task i starts in this step.
Starts(i) == flow[i].at \in {"none", "over"} /\ flow'[i].at \in {"asked", "begin"}

\* A signal is final; once it came, or while a quit waits, nothing new starts
\* but a cancel (while quitting) and the save of an edit already typed:
\* neither the next stage of auto mode, nor the run a save was to start.
NothingNew ==
    [][/\ leaving = "signal" => leaving' = "signal"
       /\ \A i \in Ids : Starts(i) =>
             \/ leaving = "none"
             \/ leaving = "quit" /\ flow'[i].work = "cancel"
             \/ editing /\ flow'[i].work = "edit"]_vars

\* A quit that waits ends, or is called off: no task the app waits for waits
\* for the app, or for the end of a job.
QuitEnds ==
    (phase = "loop" /\ leaving # "none") ~> (phase # "loop" \/ leaving = "none")

\* A cancel that waits for a task to detach starts, without waiting for the
\* end of its job.
CancelHappens ==
    \A i \in Ids :
        (tasks[i].cancel_after /\ phase = "loop")
            ~> (~tasks[i].cancel_after \/ phase # "loop")

\* follow.rs: neither a quit nor a cancel waits for the end of a job.
GoesOn == QuitEnds /\ CancelHappens


\* event_loop.rs:315: while the tasks are waited for, "a run still starting is
\* detached once its job started": its job's first status is out, so its
\* token is cancelled, without waiting for the end of the job.
DetachedOnceStarted ==
    \A i \in Ids :
        (phase = "wait" /\ i \in Following /\ DueAt(i))
            ~> (flow[i].cut \/ flow[i].at = "none")
=============================================================================
