------------------------------ MODULE Tui_proofs ------------------------------
(***************************************************************************)
(* Proofs about the terminal interface (Tui), for any number of runs,      *)
(* tasks and stages.                                                       *)
(*                                                                         *)
(* The inductive invariant relates what the app believes to run (slot,     *)
(* tasks) to the flows that do run (flow), task by task (TaskInv); says    *)
(* that what holds the lock is one task, also while the editor has the     *)
(* terminal (LockInv), that a run has at most one flow (RunInv) and an     *)
(* exit note is about a run no flow is on (NoteInv), both of a run that    *)
(* was not taken up early, and what is left when the loop ends (PhaseInv). *)
(*                                                                         *)
(* Most steps change little of a task: Same says what such a step may, and *)
(* SameTask and SameInv that the invariant holds after it.                 *)
(***************************************************************************)
EXTENDS Tui, TLAPS

USE DEF Slots, Jobs

\* What the helpers of the app return.
LEMMA NewIdIs == Free # {} => NewId \in Free
BY DEF NewId

LEMMA FreeIs ==
  ASSUME NEW i \in Free
  PROVE  /\ i \in Ids /\ flow[i].at = "none" /\ tasks[i].job = "none"
         /\ \A k \in Slots : slot[k] # i
BY DEF Free, Following

LEMMA NewFollowIs ==
  ASSUME NEW job \in Jobs \cup {"none"}, NEW runpod \in BOOLEAN, NEW run \in Runs \cup {None}
  PROVE  NewFollow(job, runpod, run) \in Follow
BY DEF NewFollow, Follow

LEMMA NothingIs == NoFollow \in Follow /\ NoFlow \in Flow
BY NewFollowIs DEF NoFollow, NoFlow, Flow

LEMMA SpawnedIs ==
  ASSUME NEW work \in Slots \cup Jobs, NEW run \in Runs \cup {None},
         NEW runpod \in BOOLEAN, NEW resume \in BOOLEAN
  PROVE  LET f == Spawned(work, run, runpod, resume) IN
         /\ f \in Flow
         /\ f.work = work /\ f.run = run
         /\ f.at = IF phase' = "settle" THEN "asked" ELSE "begin"
         /\ ~f.told /\ ~f.cut /\ ~f.abandon /\ f.result = "ok"
BY DEF Spawned, NoFlow, Flow

LEMMA DetachedIs ==
  ASSUME NEW f \in Follow
  PROVE  LET d == Detached(f) IN
         /\ d \in Follow
         /\ d.job = f.job /\ d.runpod = f.runpod /\ d.run = f.run
         /\ d.watching = f.watching
         /\ d.cancel_after = f.cancel_after /\ d.stop_after = f.stop_after
BY DEF Detached, Follow

LEMMA HeardIs ==
  ASSUME tasks \in [Ids -> Follow], flow \in [Ids -> Flow], NEW i \in Ids
  PROVE  LET h == Heard(i) IN
         /\ h \in Follow
         /\ h.job = tasks[i].job /\ h.runpod = tasks[i].runpod
         /\ h.run = IF flow[i].run # None THEN flow[i].run ELSE tasks[i].run
         /\ h.watching <=> tasks[i].watching \/ flow[i].told
         /\ h.cancel_after = tasks[i].cancel_after
         /\ h.stop_after = tasks[i].stop_after
<1>1. tasks[i] \in Follow /\ flow[i] \in Flow
  OBVIOUS
<1> QED  BY <1>1 DEF Heard, Follow, Flow

LEMMA CutIs ==
  ASSUME flow \in [Ids -> Flow], NEW S, NEW A
  PROVE  LET F == Cut(S, A) IN
         /\ F \in [Ids -> Flow]
         /\ \A i \in Ids :
              /\ F[i].work = flow[i].work /\ F[i].runpod = flow[i].runpod
              /\ F[i].resume = flow[i].resume /\ F[i].run = flow[i].run
              /\ F[i].at = flow[i].at /\ F[i].told = flow[i].told
              /\ F[i].result = flow[i].result
              /\ F[i].cut => flow[i].cut \/ i \in S \/ F[i].abandon
              /\ flow[i].at # "over" /\ (flow[i].abandon \/ i \in A) => F[i].abandon
<1> DEFINE F == Cut(S, A)
<1>1. ASSUME NEW i \in Ids  PROVE F[i] \in Flow
  <2>1. flow[i] \in Flow
    OBVIOUS
  <2>2. CASE flow[i].at = "over"
    BY <2>1, <2>2 DEF Cut
  <2>3. CASE flow[i].at # "over"
    <3> DEFINE c == flow[i].cut \/ i \in S \cup A
               a == flow[i].abandon \/ i \in A
    <3>1. F[i] = [flow[i] EXCEPT !.cut = c, !.abandon = a]
      BY <2>3 DEF Cut
    <3>2. c \in BOOLEAN /\ a \in BOOLEAN
      OBVIOUS
    <3> HIDE DEF c, a, F
    <3> QED  BY <2>1, <3>1, <3>2 DEF Flow
  <2> QED  BY <2>2, <2>3
<1>2. ASSUME NEW i \in Ids
      PROVE  /\ F[i].work = flow[i].work /\ F[i].runpod = flow[i].runpod
             /\ F[i].resume = flow[i].resume /\ F[i].run = flow[i].run
             /\ F[i].at = flow[i].at /\ F[i].told = flow[i].told
             /\ F[i].result = flow[i].result
             /\ F[i].cut => flow[i].cut \/ i \in S \/ F[i].abandon
             /\ flow[i].at # "over" /\ (flow[i].abandon \/ i \in A) => F[i].abandon
  <2>1. flow[i] \in Flow
    OBVIOUS
  <2> QED  BY <2>1 DEF Cut, Flow
<1>3. F \in [Ids -> Flow]
  BY <1>1 DEF Cut
<1> QED  BY <1>2, <1>3

LEMMA DrawnIs ==
  ASSUME StateOK, Drawn
  PROVE  /\ phase' \in {"loop", "settle", "wait", "ended"}
         /\ phase # "loop" => phase' = phase
         /\ phase = "loop" => phase' \in {"loop", "settle"}
BY DEF Drawn, StateOK

-----------------------------------------------------------------------------
(* The type. *)

LEMMA LeavesIs ==
  ASSUME StateOK
  PROVE  DetachAll \in [Ids -> Follow] /\ AbandonAll \in [Ids -> Follow]
<1>1. \A i \in Ids : tasks[i] \in Follow
  BY DEF StateOK
<1>2. DetachAll \in [Ids -> Follow]
  BY <1>1, DetachedIs DEF DetachAll
<1>3. AbandonAll \in [Ids -> Follow]
  BY <1>1 DEF AbandonAll, Follow
<1> QED  BY <1>2, <1>3

LEMMA DrainedIs ==
  ASSUME StateOK
  PROVE  Drained \in [Ids -> Follow]
<1>1. \A i \in Ids : tasks[i] \in Follow /\ Heard(i) \in Follow
  BY HeardIs DEF StateOK
<1> QED  BY <1>1 DEF Drained

LEMMA TrainType ==
  ASSUME StateOK, NEW job \in Jobs, NEW r \in Runs, Train(job, r)
  PROVE  StateOK'
<1>1. NewId \in Ids
  BY NewIdIs, FreeIs DEF Train
<1>2. Spawned(job, r, FALSE, FALSE) \in Flow
  BY SpawnedIs
<1>3. NewFollow(job, FALSE, r) \in Follow
  BY NewFollowIs
<1>4. notes' \subseteq Runs \X {"left", "not_cancelled"}
  BY DEF Train, Forgotten, StateOK
<1>5. phase' \in {"loop", "settle", "wait", "ended"}
  BY DrawnIs DEF Train
<1> HIDE DEF Slots, Jobs
<1> QED  BY <1>1, <1>2, <1>3, <1>4, <1>5 DEF Train, StateOK

LEMMA SlotType ==
  ASSUME StateOK, NEW k \in Slots, InSlot(k),
         editing' \in BOOLEAN, start_after_save' \in {"none", "start", "resume"},
         auto' \in 0 .. STAGES + 1
  PROVE  StateOK'
<1>1. NewId \in Ids
  BY NewIdIs, FreeIs DEF InSlot
<1>2. Spawned(k, None, FALSE, FALSE) \in Flow
  BY SpawnedIs
<1>3. phase' \in {"loop", "settle", "wait", "ended"}
  BY DrawnIs DEF InSlot
<1> HIDE DEF Slots, Jobs
<1> QED  BY <1>1, <1>2, <1>3 DEF InSlot, StateOK

LEMMA CutsType ==
  ASSUME StateOK, UNCHANGED <<slot, editing, start_after_save, auto_task, notes, record, early>>,
         phase' \in {"loop", "settle", "wait", "ended"}, leaving' \in {"none", "quit", "signal"},
         auto' \in 0 .. STAGES + 1, tasks' \in [Ids -> Follow],
         NEW S, NEW A, flow' = Cut(S, A)
  PROVE  StateOK'
<1>1. flow' \in [Ids -> Flow]
  BY CutIs DEF StateOK
<1> QED  BY <1>1 DEF StateOK

LEMMA DoneType ==
  ASSUME StateOK, NEW i \in Ids, Done(i)
  PROVE  StateOK'
<1>1. Drained \in [Ids -> Follow] /\ Heard(i) \in Follow
  BY DrainedIs, HeardIs DEF StateOK
<1>2. Cut(DrainCuts, {}) \in [Ids -> Flow]
  BY CutIs DEF StateOK
<1>3. Gone(Cut(DrainCuts, {}), i) \in [Ids -> Flow]
  BY <1>2, NothingIs DEF Gone
<1>4. Drawn => phase' \in {"loop", "settle", "wait", "ended"}
  BY DrawnIs
<1>5. \A rp \in BOOLEAN : NewFollow("start", rp, None) \in Follow
  BY NewFollowIs
<1> HIDE DEF Slots, Jobs
<1>6. CASE PipelineEnded(i)
  <2>1. tasks' \in [Ids -> Follow]
    BY <1>1, <1>5, <1>6 DEF PipelineEnded
  <2>2. slot' \in [Slots -> Ids \cup {0}]
    BY <1>6 DEF PipelineEnded, StateOK
  <2>3. auto' \in 0 .. STAGES + 1
    BY <1>6, StagesAssumption DEF PipelineEnded, StateOK, AutoGoesOn
  <2>4. flow' \in [Ids -> Flow]
    <3>1. Spawned("pipeline", None, FALSE, FALSE) \in Flow
      BY SpawnedIs DEF Slots
    <3>2. tasks'[i].runpod \in BOOLEAN
      BY <2>1 DEF Follow
    <3>3. Spawned("start", None, tasks'[i].runpod, FALSE) \in Flow
      BY <3>2, SpawnedIs DEF Jobs
    <3> QED  BY <1>3, <1>6, <3>1, <3>3 DEF PipelineEnded
  <2> QED  BY <1>4, <1>6, <2>1, <2>2, <2>3, <2>4 DEF PipelineEnded, StateOK
<1>7. CASE EditEnded(i)
  BY <1>1, <1>3, <1>4, <1>7 DEF EditEnded, StateOK
<1>8. CASE ConfigSaved(i)
  <2>1. Spawned("start", None, TRUE, start_after_save = "resume") \in Flow
    BY SpawnedIs DEF Jobs
  <2> QED  BY <1>1, <1>3, <1>4, <1>5, <1>8, <2>1 DEF ConfigSaved, StateOK
<1>9. CASE \E k \in {"push", "compare"} : OtherEnded(k, i)
  BY <1>1, <1>3, <1>4, <1>9 DEF OtherEnded, StateOK
<1>10. CASE Trained(i)
  <2>1. PICK f \in {Heard(i)} :
          /\ tasks' = [Drained EXCEPT ![i] =
                          IF NextJob(f) = "none" THEN NoFollow
                          ELSE NewFollow(NextJob(f), FALSE, f.run)]
          /\ notes' = IF NextJob(f) = "none"
                      THEN notes \cup EndNotes(f, flow[i].result)
                      ELSE Forgotten(notes \cup EndNotes(f, flow[i].result), f.run)
          /\ leaving' = leaving
          /\ auto' = IF auto = STAGES + 1 /\ auto_task = i THEN 0 ELSE auto
          /\ auto_task' = IF auto_task = i THEN 0 ELSE auto_task
          /\ UNCHANGED <<slot, editing, start_after_save, record, early>>
          /\ Drawn
          /\ flow' = [Gone(Cut(DrainCuts, {}), i) EXCEPT ![i] =
                         IF NextJob(f) = "none" THEN @
                         ELSE Spawned(NextJob(f), f.run, FALSE, FALSE)]
    BY <1>10 DEF Trained
  <2>2. NextJob(f) \in {"none", "cancel", "stop"} /\ f.run \in Runs \cup {None}
    BY <1>1 DEF NextJob, Follow
  <2>3. EndNotes(f, flow[i].result) \subseteq Runs \X {"left", "not_cancelled"}
    BY <2>2 DEF EndNotes
  <2>4. tasks' \in [Ids -> Follow]
    <3>1. NextJob(f) # "none" => NewFollow(NextJob(f), FALSE, f.run) \in Follow
      BY <2>2, NewFollowIs DEF Jobs
    <3> QED  BY <1>1, <2>1, <3>1, NothingIs
  <2>5. flow' \in [Ids -> Flow]
    <3>1. NextJob(f) # "none" => Spawned(NextJob(f), f.run, FALSE, FALSE) \in Flow
      BY <2>2, SpawnedIs DEF Jobs
    <3> QED  BY <1>3, <2>1, <3>1
  <2>6. notes' \subseteq Runs \X {"left", "not_cancelled"}
    BY <2>1, <2>3 DEF Forgotten, StateOK
  <2>7. auto' \in 0 .. STAGES + 1 /\ auto_task' \in Ids \cup {0}
    BY <2>1, StagesAssumption DEF StateOK
  <2> QED  BY <1>4, <2>1, <2>4, <2>5, <2>6, <2>7 DEF StateOK
<1> QED  BY <1>6, <1>7, <1>8, <1>9, <1>10 DEF Done

LEMMA ToIs ==
  ASSUME flow \in [Ids -> Flow], NEW i \in Ids,
         NEW at \in {"watch", "launch", "over"}, NEW result \in {"ok", "left", "failed"},
         To(i, at, result)
  PROVE  /\ flow' \in [Ids -> Flow]
         /\ \A j \in Ids : j # i => flow'[j] = flow[j]
         /\ flow'[i].work = flow[i].work /\ flow'[i].runpod = flow[i].runpod
         /\ flow'[i].resume = flow[i].resume /\ flow'[i].run = flow[i].run
         /\ flow'[i].told = flow[i].told
         /\ flow'[i].at = at /\ flow'[i].result = result
         /\ at # "over" => flow'[i].cut = flow[i].cut /\ flow'[i].abandon = flow[i].abandon
<1> DEFINE c == flow[i].cut /\ at # "over"
           a == flow[i].abandon /\ at # "over"
           f == [flow[i] EXCEPT !.at = at, !.result = result, !.cut = c, !.abandon = a]
<1>1. flow[i] \in Flow /\ c \in BOOLEAN /\ a \in BOOLEAN
  OBVIOUS
<1>2. flow' = [flow EXCEPT ![i] = f]
  BY DEF To
<1>3. at # "over" => c = flow[i].cut /\ a = flow[i].abandon
  BY <1>1 DEF Flow
<1> HIDE DEF c, a
<1>4. /\ f \in Flow
      /\ f.work = flow[i].work /\ f.runpod = flow[i].runpod
      /\ f.resume = flow[i].resume /\ f.run = flow[i].run /\ f.told = flow[i].told
      /\ f.at = at /\ f.result = result /\ f.cut = c /\ f.abandon = a
  BY <1>1 DEF Flow
<1> HIDE DEF f
<1> QED  BY <1>2, <1>3, <1>4

LEMMA FlowStepType ==
  ASSUME StateOK, NEW i \in Ids, FlowStep(i)
  PROVE  StateOK'
<1>1. flow[i] \in Flow
  BY DEF StateOK
<1>2. ASSUME NEW at \in {"watch", "launch", "over"}, NEW result \in {"ok", "left", "failed"},
             To(i, at, result)
      PROVE  flow' \in [Ids -> Flow]
  BY <1>2, ToIs DEF StateOK
<1>3. LeftAs(flow[i].run) \in {"left", "failed"}
  BY DEF LeftAs
<1>4. flow' \in [Ids -> Flow]
  <2>1. CASE Create(i) \/ JobStatus(i)
    <3>1. ASSUME NEW r \in Runs
          PROVE  [flow[i] EXCEPT !.at = "made", !.run = r] \in Flow
      BY <1>1 DEF Flow
    <3>2. CASE Create(i)
      <4>1. PICK r \in Runs : flow' = [flow EXCEPT ![i] = [flow[i] EXCEPT !.at = "made", !.run = r]]
        BY <3>2 DEF Create, StateOK
      <4> QED  BY <3>1, <4>1 DEF StateOK
    <3>3. CASE JobStatus(i)
      <4>1. flow' = [flow EXCEPT ![i] = [flow[i] EXCEPT !.told = TRUE]]
        BY <3>3 DEF JobStatus, StateOK
      <4>2. [flow[i] EXCEPT !.told = TRUE] \in Flow
        BY <1>1 DEF Flow
      <4> QED  BY <4>1, <4>2 DEF StateOK
    <3> QED  BY <2>1, <3>2, <3>3
  <2>2. CASE ~(Create(i) \/ JobStatus(i))
    BY <1>2, <1>3, <2>2 DEF FlowStep, WorkEnds, Provisioned, Launched, StartFails,
       Reached, WatchStops, JobEnds, CancelEnds
  <2> QED  BY <2>1, <2>2
<1>5. record' \in [Runs -> {"absent", "preparing", "running", "over"}]
  BY DEF StateOK, FlowStep, WorkEnds, Create, Provisioned, Launched, StartFails,
     Reached, JobStatus, WatchStops, JobEnds, CancelEnds
<1>6. UNCHANGED <<phase, appVars>>
  BY DEF FlowStep, World, WorkEnds, Create, Provisioned, Launched, StartFails,
     Reached, JobStatus, WatchStops, JobEnds, CancelEnds
<1> QED  BY <1>4, <1>5, <1>6 DEF StateOK, appVars

LEMMA SettleType ==
  ASSUME StateOK, Settle
  PROVE  StateOK'
<1>1. \A i \in Ids : tasks[i] \in Follow /\ flow[i] \in Flow
  BY DEF StateOK
<1>2. \A i \in Ids : /\ Detached(tasks[i]) \in Follow
                     /\ [tasks[i] EXCEPT !.detach = "done"] \in Follow
  BY <1>1, DetachedIs DEF Follow
<1>3. tasks' \in [Ids -> Follow]
  BY <1>1, <1>2, NothingIs DEF Settle, Dropped, Asked
<1>4. flow' \in [Ids -> Flow]
  <2> SUFFICES ASSUME NEW i \in Ids  PROVE flow'[i] \in Flow
    BY DEF Settle
  <2>1. ASSUME NEW at \in {"begin", flow[i].at}, NEW c \in BOOLEAN, NEW a \in BOOLEAN
        PROVE  [flow[i] EXCEPT !.at = at, !.cut = c, !.abandon = a] \in Flow
    BY <1>1 DEF Flow
  <2>2. flow'[i] = NoFlow
        \/ \E at \in {"begin", flow[i].at}, c \in BOOLEAN, a \in BOOLEAN :
              flow'[i] = [flow[i] EXCEPT !.at = at, !.cut = c, !.abandon = a]
    <3>1. flow[i].cut \in BOOLEAN /\ flow[i].abandon \in BOOLEAN
      BY <1>1 DEF Flow
    <3> QED  BY <3>1 DEF Settle
  <2> QED  BY <2>1, <2>2, NothingIs
<1> QED  BY <1>3, <1>4 DEF Settle, StateOK

LEMMA TypeStep == StateOK /\ [Next]_allVars => StateOK'
<1> SUFFICES ASSUME StateOK, [Next]_allVars  PROVE StateOK'
  OBVIOUS
<1>a. \A i \in Ids : tasks[i] \in Follow /\ flow[i] \in Flow
  BY DEF StateOK
<1>b. Drawn => phase' \in {"loop", "settle", "wait", "ended"}
  BY DrawnIs
<1>1. CASE UserStep
  <2>1. ASSUME NEW r \in Runs, AttachSelected(r)  PROVE StateOK'
    BY <2>1, TrainType DEF AttachSelected
  <2>2. ASSUME NEW r \in Runs, CancelRun(r) \/ StopRun(r)  PROVE StateOK'
    <3>1. CASE Train("cancel", r) \/ Train("stop", r)
      BY <3>1, TrainType
    <3>2. CASE \E i \in TaskOf(r), f \in Follow : DetachTask(i, f)
      <4>1. PICK i \in TaskOf(r), f \in Follow : DetachTask(i, f)
        BY <3>2
      <4>2. tasks' \in [Ids -> Follow]
        BY <4>1, DetachedIs DEF DetachTask, StateOK
      <4> QED  BY <1>b, <4>1, <4>2, CutsType DEF DetachTask, StateOK
    <3>3. \A i \in TaskOf(r) : /\ [tasks[i] EXCEPT !.cancel_after = TRUE] \in Follow
                               /\ [tasks[i] EXCEPT !.stop_after = TRUE] \in Follow
      BY <1>a DEF TaskOf, Following, Follow
    <3> QED  BY <2>2, <3>1, <3>2, <3>3 DEF CancelRun, StopRun
  <2>3. ASSUME NEW S \in SUBSET Ids, Abandon(S)  PROVE StateOK'
    <3>1. \A i \in Ids : [tasks[i] EXCEPT !.detach = "done", !.cancel_after = FALSE] \in Follow
      BY <1>a DEF Follow
    <3>2. tasks' \in [Ids -> Follow]
      BY <1>a, <2>3, <3>1 DEF Abandon
    <3> QED  BY <1>b, <2>3, <3>2, CutsType DEF Abandon, StateOK
  <2>4. CASE RunPipeline \/ Delete \/ SpawnWrite
    BY <2>4, SlotType, StagesAssumption DEF RunPipeline, Delete, SpawnWrite, StateOK
  <2>5. CASE CancelAuto \/ CancelCompare
    BY <1>b, <2>5, CutsType, StagesAssumption DEF CancelAuto, CancelCompare, appVars, StateOK
  <2>6. CASE EditSelected
    BY <1>b, <2>6 DEF EditSelected, StateOK
  <2>7. ASSUME NEW how \in {"start", "resume"}, ConfirmStart(how)  PROVE StateOK'
    BY <2>7, SlotType DEF ConfirmStart, StateOK
  <2>8. ASSUME NEW how \in {"start", "resume"}, NEW rp \in BOOLEAN, StartRun(how, rp)  PROVE StateOK'
    <3>1. NewId \in Ids
      BY <2>8, NewIdIs, FreeIs DEF StartRun
    <3>2. Spawned("start", None, rp, how = "resume") \in Flow
      BY SpawnedIs
    <3>3. NewFollow("start", rp, None) \in Follow
      BY NewFollowIs
    <3> HIDE DEF Slots, Jobs
    <3> QED  BY <1>b, <2>8, <3>1, <3>2, <3>3 DEF StartRun, StateOK
  <2>9. ASSUME NEW k \in Others, Confirm(k)  PROVE StateOK'
    BY <2>9, SlotType, OthersAssumption DEF Confirm, StateOK
  <2>10. CASE Quit \/ Stay
    <3>1. CASE UNCHANGED <<leaving, slot, tasks, editing, start_after_save, auto,
                           auto_task, notes, flow, record, early>> /\ phase' = "settle"
      BY <3>1 DEF StateOK
    <3>2. CASE Leave("quit") /\ UNCHANGED <<notes, record, early>> /\ Drawn /\ flow' = LeaveCuts
      BY <1>b, <3>2, LeavesIs, CutsType DEF Leave, LeaveCuts, StateOK
    <3>3. CASE Stay
      <4>1. tasks' \in [Ids -> Follow]
        BY <1>a, <3>3 DEF Stay, KeepFollowing, Follow
      <4> QED  BY <1>b, <3>3, <4>1 DEF Stay, StateOK
    <3> QED  BY <2>10, <3>1, <3>2, <3>3 DEF Quit
  <2> QED  BY <1>1, <2>1, <2>2, <2>3, <2>4, <2>5, <2>6, <2>7, <2>8, <2>9, <2>10
           DEF UserStep
<1>2. CASE LoopStep
  <2>1. CASE EditorExit
    BY <1>b, <2>1, SlotType DEF EditorExit, appVars, StateOK
  <2>2. CASE OnSignal
    BY <1>b, <2>2, LeavesIs, CutsType DEF OnSignal, Leave, LeaveCuts, StateOK
  <2>3. CASE TerminalGone
    <3>1. CASE tasks' = Drained /\ flow' = Cut(DrainCuts, {})
      BY <2>3, <3>1, DrainedIs, CutsType DEF TerminalGone, StateOK
    <3>2. CASE UNCHANGED <<tasks, flow>>
      BY <2>3, <3>2 DEF TerminalGone, StateOK
    <3> QED  BY <2>3, <3>1, <3>2 DEF TerminalGone
  <2>4. CASE Settle
    BY <2>4, SettleType
  <2>5. CASE Ended
    BY <2>5 DEF Ended, appVars, StateOK
  <2>6. ASSUME NEW i \in Ids, OnMessage(i)  PROVE StateOK'
    <3>1. tasks' \in [Ids -> Follow]
      BY <2>6, HeardIs DEF OnMessage, StateOK
    <3> QED  BY <1>b, <2>6, <3>1, CutsType DEF OnMessage, StateOK
  <2>7. ASSUME NEW i \in Ids, Done(i)  PROVE StateOK'
    BY <2>7, DoneType
  <2> QED  BY <1>2, <2>1, <2>2, <2>3, <2>4, <2>5, <2>6, <2>7 DEF LoopStep
<1>3. ASSUME NEW i \in Ids, FlowStep(i)  PROVE StateOK'
  BY <1>3, FlowStepType
<1>4. CASE UNCHANGED allVars
  BY <1>4 DEF allVars, vars, StateOK
<1> QED  BY <1>1, <1>2, <1>3, <1>4 DEF Next

LEMMA InitType == Init => StateOK
<1> SUFFICES ASSUME Init  PROVE StateOK
  OBVIOUS
<1>1. slot \in [Slots -> Ids \cup {0}] /\ auto \in 0 .. STAGES + 1
  BY StagesAssumption DEF Init
<1>2. tasks \in [Ids -> Follow] /\ flow \in [Ids -> Flow]
  BY NothingIs DEF Init
<1>3. record \in [Runs -> {"absent", "preparing", "running", "over"}]
  BY DEF Init
<1> QED  BY <1>1, <1>2, <1>3 DEF Init, StateOK

\* A run is taken up early only by an attach, a cancel or a stop.
LEMMA EarlyIs ==
  ASSUME [Next]_allVars
  PROVE  early' = early \/ \E r \in Runs, job \in Jobs : Train(job, r)
<1>1. CASE UserStep
  BY <1>1 DEF UserStep, AttachSelected, CancelRun, StopRun, DetachTask, Abandon, RunPipeline,
     CancelAuto, EditSelected, Delete, SpawnWrite, ConfirmStart, StartRun, Confirm, InSlot,
     CancelCompare, Quit, Stay
<1>2. CASE LoopStep
  BY <1>2 DEF LoopStep, EditorExit, InSlot, OnSignal, TerminalGone, Settle, Ended, OnMessage, Done,
     PipelineEnded, EditEnded, ConfigSaved, OtherEnded, Trained
<1>3. CASE \E i \in Ids : FlowStep(i)
  BY <1>3 DEF FlowStep, World, WorkEnds, Create, Provisioned, Launched, StartFails, Reached,
     JobStatus, WatchStops, JobEnds, CancelEnds
<1>4. CASE UNCHANGED allVars
  BY <1>4 DEF allVars
<1> QED  BY <1>1, <1>2, <1>3, <1>4 DEF Next

\* Every variable of the interface keeps a value of its kind, and only runs are
\* taken up early.
THEOREM UTypeOK == Spec => []TypeOK
<1>1. Init => TypeOK
  BY InitType DEF Init, TypeOK
<1>2. TypeOK /\ [Next]_allVars => TypeOK'
  <2> SUFFICES ASSUME TypeOK, [Next]_allVars  PROVE TypeOK'
    OBVIOUS
  <2>1. StateOK'
    BY TypeStep DEF TypeOK
  <2>2. early' \subseteq Runs
    BY EarlyIs DEF TypeOK, Train
  <2> QED  BY <2>1, <2>2 DEF TypeOK
<1> QED  BY <1>1, <1>2, PTL DEF Spec

-----------------------------------------------------------------------------
(* The invariant. *)

\* What the app knows of a task and what runs of it.
TaskInv(i) ==
  /\ tasks[i].job = "none" => tasks[i] = NoFollow
  /\ flow[i].at = "none" => flow[i].run = None /\ ~flow[i].told
  /\ flow[i].at # "none" /\ flow[i].work \in Slots => slot[flow[i].work] = i
  /\ flow[i].at # "none" /\ flow[i].work \in Jobs => tasks[i].job = flow[i].work
  /\ tasks[i].job # "none" => flow[i].at # "none" /\ flow[i].work = tasks[i].job
  /\ flow[i].at = "asked" => phase = "settle"
  /\ tasks[i].run # None => tasks[i].run = flow[i].run
  /\ tasks[i].watching => flow[i].told
  /\ flow[i].told => flow[i].at \in {"watch", "over"}
  /\ flow[i].work = "start" /\ flow[i].at \in {"asked", "begin"} => flow[i].run = None
  /\ flow[i].work = "start" /\ flow[i].at \in {"asked", "begin", "made", "launch"} /\ flow[i].cut
       => flow[i].abandon
  /\ flow[i].run # None =>
       /\ flow[i].work \in Jobs
       /\ record[flow[i].run] # "absent"
       /\ flow[i].run \notin early /\ flow[i].at = "over" /\ flow[i].result = "left"
            => record[flow[i].run] = "running"

\* The slots hold different tasks, and none of the training's.
SlotInv ==
  /\ \A k, l \in Slots : slot[k] # 0 /\ slot[k] = slot[l] => k = l
  /\ \A k \in Slots : slot[k] # 0 => tasks[slot[k]].job = "none"
  /\ \A k \in {"edit", "save"} : slot[k] # 0 => flow[slot[k]].at # "none"
  /\ start_after_save # "none" => slot["save"] # 0

\* What holds the lock of App::lock, in one place.
Holds(i) ==
  \/ slot["pipeline"] = i
  \/ slot["edit"] = i
  \/ start_after_save # "none" /\ slot["save"] = i
  \/ Starting(tasks[i])

LockInv ==
  /\ \A i, j \in Ids : Holds(i) /\ Holds(j) => i = j
  /\ Suspended => \A i \in Ids : ~Holds(i)

\* No two flows, ended or not, are on one run, unless it was taken up early.
RunInv ==
  \A i, j \in Ids :
    flow[i].run = flow[j].run /\ flow[i].run \notin early \cup {None} => i = j

NoteInv ==
  \A n \in notes :
    /\ record[n[1]] # "absent"
    /\ n[1] \notin early => /\ \A i \in Ids : flow[i].run # n[1]
                            /\ n[2] = "left" => record[n[1]] = "running"

PhaseInv ==
  /\ phase = "wait" => leaving # "none"
  /\ phase = "ended" => Following = {} /\ slot["edit"] = 0 /\ slot["save"] = 0

Inv ==
  /\ \A i \in Ids : TaskInv(i)
  /\ SlotInv /\ LockInv /\ RunInv /\ NoteInv /\ PhaseInv

-----------------------------------------------------------------------------
(* What a step leaves of a task it is not about. *)

Same(j) ==
  /\ flow'[j].work = flow[j].work /\ flow'[j].run = flow[j].run
  /\ flow'[j].at = flow[j].at /\ flow'[j].told = flow[j].told
  /\ flow'[j].result = flow[j].result
  /\ flow'[j].cut => \/ flow[j].cut \/ flow'[j].abandon
                     \/ flow[j].told \/ flow[j].work # "start" \/ flow[j].at = "none"
  /\ flow[j].abandon /\ flow[j].at # "over" => flow'[j].abandon
  /\ tasks'[j].job = tasks[j].job /\ tasks'[j].runpod = tasks[j].runpod
  /\ tasks'[j].run \in {tasks[j].run, flow[j].run}
  /\ tasks'[j].watching => tasks[j].watching \/ flow[j].told
  /\ tasks[j].watching => tasks'[j].watching
  /\ tasks[j].job = "none" => tasks'[j] = tasks[j]
  /\ \A k \in Slots : slot[k] = j => slot'[k] = j
  /\ phase = "settle" => phase' = "settle"
  /\ early \subseteq early'
  /\ flow[j].run # None => /\ record'[flow[j].run] # "absent"
                           /\ flow[j].run \notin early =>
                                record'[flow[j].run] = record[flow[j].run]

LEMMA SameTask ==
  ASSUME StateOK, NEW j \in Ids, TaskInv(j), Same(j)
  PROVE  TaskInv(j)'
<1>1. flow[j] \in Flow /\ tasks[j] \in Follow
  BY DEF StateOK
<1>3. /\ tasks'[j].job = "none" => tasks'[j] = NoFollow
      /\ flow'[j].at = "none" => flow'[j].run = None /\ ~flow'[j].told
      /\ flow'[j].at # "none" /\ flow'[j].work \in Slots => slot'[flow'[j].work] = j
      /\ flow'[j].at # "none" /\ flow'[j].work \in Jobs => tasks'[j].job = flow'[j].work
      /\ tasks'[j].job # "none" => flow'[j].at # "none" /\ flow'[j].work = tasks'[j].job
      /\ flow'[j].at = "asked" => phase' = "settle"
      /\ tasks'[j].run # None => tasks'[j].run = flow'[j].run
      /\ tasks'[j].watching => flow'[j].told
      /\ flow'[j].told => flow'[j].at \in {"watch", "over"}
  BY DEF Same, TaskInv
<1>5. /\ flow'[j].work = "start" /\ flow'[j].at \in {"asked", "begin"} => flow'[j].run = None
      /\ flow'[j].work = "start" /\ flow'[j].at \in {"asked", "begin", "made", "launch"} /\ flow'[j].cut
           => flow'[j].abandon
  BY <1>1 DEF Same, TaskInv, Flow
<1>6. flow'[j].run # None =>
       /\ flow'[j].work \in Jobs
       /\ record'[flow'[j].run] # "absent"
       /\ flow'[j].run \notin early' /\ flow'[j].at = "over" /\ flow'[j].result = "left"
            => record'[flow'[j].run] = "running"
  BY DEF Same, TaskInv
<1> QED  BY <1>3, <1>5, <1>6 DEF TaskInv

LEMMA SameInv ==
  ASSUME StateOK, Inv, \A j \in Ids : Same(j),
         UNCHANGED <<slot, editing, start_after_save, notes, record, early>>,
         phase # "loop" => phase' = phase, phase = "loop" => phase' \in {"loop", "settle"},
         phase = "wait" => leaving' # "none"
  PROVE  Inv'
<1>1. \A j \in Ids : TaskInv(j)'
  BY SameTask DEF Inv
<1>2. \A j \in Ids : tasks'[j].job = tasks[j].job /\ (Holds(j)' => Holds(j))
  BY DEF Same, Holds, Starting
<1>3. SlotInv'
  <2>1. \A k \in Slots : slot[k] # 0 => tasks'[slot[k]].job = "none" /\ flow'[slot[k]].at = flow[slot[k]].at
    BY <1>2 DEF Inv, SlotInv, StateOK, Same
  <2> QED  BY <2>1 DEF Inv, SlotInv
<1>4. LockInv'
  BY <1>2 DEF Inv, LockInv, Suspended
<1>5. RunInv' /\ NoteInv'
  BY DEF Inv, RunInv, NoteInv, Same
<1>6. PhaseInv'
  BY <1>2 DEF Inv, PhaseInv, Following
<1> QED  BY <1>1, <1>3, <1>4, <1>5, <1>6 DEF Inv

\* A token the app cancels is not that of a start whose job has not started.
Cuttable(S) ==
  \A i \in S \cap Ids : flow[i].told \/ flow[i].work # "start" \/ flow[i].at = "none"

LEMMA CutSame ==
  ASSUME StateOK, Inv, NEW S, NEW A, Cuttable(S),
         NEW j \in Ids, flow'[j] = Cut(S, A)[j],
         tasks'[j].job = tasks[j].job, tasks'[j].runpod = tasks[j].runpod,
         tasks'[j].run \in {tasks[j].run, flow[j].run},
         tasks'[j].watching => tasks[j].watching \/ flow[j].told,
         tasks[j].watching => tasks'[j].watching,
         tasks[j].job = "none" => tasks'[j] = tasks[j],
         \A k \in Slots : slot[k] = j => slot'[k] = j,
         phase = "settle" => phase' = "settle",
         UNCHANGED <<record, early>>
  PROVE  Same(j)
BY CutIs DEF Same, Cuttable, StateOK, Inv, TaskInv

LEMMA CuttableIs ==
  ASSUME StateOK, Inv
  PROVE  /\ \A kinds \in SUBSET Slots : Cuttable(Stopped(kinds))
         /\ \A i \in Ids : CutNow(tasks[i]) => flow[i].told
         /\ Cuttable(DrainCuts)
<1>1. ASSUME NEW kinds \in SUBSET Slots, NEW i \in Stopped(kinds) \cap Ids
      PROVE  flow[i].work # "start" \/ flow[i].at = "none"
  <2>1. PICK k \in kinds : slot[k] = i /\ i # 0
    BY <1>1 DEF Stopped
  <2>2. tasks[i].job = "none"
    BY <2>1 DEF Inv, SlotInv
  <2> QED  BY <1>1, <2>2 DEF Inv, TaskInv
<1>2. \A i \in Ids : CutNow(tasks[i]) => flow[i].told
  BY DEF CutNow, Inv, TaskInv
<1>3. Cuttable(DrainCuts)
  BY DEF Cuttable, DrainCuts, DueAt
<1> QED  BY <1>1, <1>2, <1>3 DEF Cuttable

\* Leaving, for a quit or a signal, changes only what is detached and cut.
LEMMA LeaveInv ==
  ASSUME StateOK, Inv, NEW why \in {"quit", "signal"}, Leave(why),
         UNCHANGED <<notes, record, early>>, Drawn, flow' = LeaveCuts,
         phase \in {"loop", "wait"}
  PROVE  Inv'
<1>1. leaving' # "none"
  BY DEF Leave
<1>2. \A i \in Ids : tasks[i] \in Follow
  BY DEF StateOK
<1>3. \E S, A : flow' = Cut(S, A) /\ Cuttable(S)
  <2>1. Cuttable(Stopped({"pipeline", "push"}))
    BY CuttableIs
  <2>2. Cuttable(Stopped({"pipeline", "push"}) \cup {i \in Followers : CutNow(tasks[i])})
    BY <2>1, CuttableIs DEF Cuttable
  <2> QED  BY <2>1, <2>2 DEF LeaveCuts
<1>4. \A j \in Ids : DetachAll[j] = IF j \in Followers THEN Detached(tasks[j]) ELSE tasks[j]
  BY DEF DetachAll
<1>5. \A j \in Ids : AbandonAll[j] = IF j \in Followers
                                     THEN [tasks[j] EXCEPT !.detach = "done"] ELSE tasks[j]
  BY DEF AbandonAll
<1>6. \A j \in Followers : tasks[j].job # "none"
  BY DEF Followers, Following
<1>7. ASSUME NEW j \in Ids  PROVE Same(j)
  <2>1. /\ tasks'[j].job = tasks[j].job /\ tasks'[j].runpod = tasks[j].runpod
        /\ tasks'[j].run = tasks[j].run /\ tasks'[j].watching = tasks[j].watching
        /\ tasks'[j].cancel_after = tasks[j].cancel_after
        /\ tasks'[j].stop_after = tasks[j].stop_after
        /\ tasks[j].job = "none" => tasks'[j] = tasks[j]
    <3>1. tasks'[j] \in {tasks[j], Detached(tasks[j]), [tasks[j] EXCEPT !.detach = "done"]}
          /\ (tasks[j].job = "none" => tasks'[j] = tasks[j])
      BY <1>4, <1>5, <1>6 DEF Leave
    <3> QED  BY <1>2, <3>1, DetachedIs DEF Follow
  <2> QED  BY <1>3, <2>1, CutSame DEF Leave
<1> QED  BY <1>1, <1>7, SameInv, DrawnIs DEF Leave

LEMMA DetachInv ==
  ASSUME StateOK, Inv, phase = "loop", NEW i \in Following, NEW f \in Follow, DetachTask(i, f),
         f.job = tasks[i].job, f.runpod = tasks[i].runpod, f.run = tasks[i].run,
         f.watching = tasks[i].watching
  PROVE  Inv'
<1>1. i \in Ids /\ tasks[i].job # "none"
  BY DEF Following
<1>2. Cuttable(IF CutNow(f) THEN {i} ELSE {})
  BY <1>1 DEF Cuttable, CutNow, Inv, TaskInv
<1>3. ASSUME NEW j \in Ids  PROVE Same(j)
  <2>1. tasks'[j] = IF j = i THEN Detached(f) ELSE tasks[j]
    BY DEF DetachTask, StateOK
  <2>2. /\ tasks'[j].job = tasks[j].job /\ tasks'[j].runpod = tasks[j].runpod
        /\ tasks'[j].run = tasks[j].run /\ tasks'[j].watching = tasks[j].watching
        /\ j # i => tasks'[j] = tasks[j]
    BY <2>1, DetachedIs
  <2> HIDE DEF Slots, Jobs
  <2> QED  BY <1>1, <1>2, <2>1, <2>2, CutSame DEF DetachTask
<1> QED  BY <1>3, SameInv, DrawnIs DEF DetachTask

LEMMA AbandonInv ==
  ASSUME StateOK, Inv, NEW S \in SUBSET Ids, Abandon(S)
  PROVE  Inv'
<1>1. \A i \in S : Starting(tasks[i]) /\ tasks[i].job # "none"
  BY DEF Abandon, Abandons, Starting, TaskOf, Following
<1>2. Cuttable({})
  BY DEF Cuttable
<1>3. ASSUME NEW j \in Ids  PROVE Same(j)
  <2>1. tasks[j] \in Follow
    BY DEF StateOK
  <2>2. tasks'[j] = IF j \in S THEN [tasks[j] EXCEPT !.detach = "done", !.cancel_after = FALSE]
                               ELSE tasks[j]
    BY DEF Abandon
  <2>3. /\ tasks'[j].job = tasks[j].job /\ tasks'[j].runpod = tasks[j].runpod
        /\ tasks'[j].run = tasks[j].run /\ tasks'[j].watching = tasks[j].watching
        /\ tasks'[j].cancel_after => tasks[j].cancel_after
        /\ tasks'[j].stop_after = tasks[j].stop_after
        /\ tasks[j].job = "none" => tasks'[j] = tasks[j]
    BY <1>1, <2>1, <2>2 DEF Follow
  <2> QED  BY <1>2, <2>3, CutSame DEF Abandon, Key
<1> QED  BY <1>3, SameInv, DrawnIs DEF Abandon, Key

LEMMA CutOnlyInv ==
  ASSUME StateOK, Inv, CancelAuto \/ CancelCompare
  PROVE  Inv'
<1>1. PICK S, A : flow' = Cut(S, A) /\ Cuttable(S)
  BY CuttableIs DEF CancelAuto, CancelCompare, Cuttable
<1>2. UNCHANGED <<leaving, slot, tasks, editing, start_after_save, notes, record, early>>
  BY DEF CancelAuto, CancelCompare, appVars
<1>3. phase = "loop" /\ phase' \in {"loop", "settle"}
  BY DrawnIs DEF CancelAuto, CancelCompare, Key
<1>4. \A j \in Ids : Same(j)
  BY <1>1, <1>2, <1>3, CutSame
<1> QED  BY <1>2, <1>3, <1>4, SameInv

\* What handling every message sent so far leaves.
LEMMA DrainSame ==
  ASSUME StateOK, Inv, NEW j \in Ids, tasks'[j] \in {tasks[j], Drained[j]},
         flow'[j] \in {flow[j], Cut(DrainCuts, {})[j]},
         phase # "settle", \A k \in Slots : slot[k] = j => slot'[k] = j, UNCHANGED <<record, early>>
  PROVE  Same(j)
<1>1. /\ tasks'[j].job = tasks[j].job /\ tasks'[j].runpod = tasks[j].runpod
      /\ tasks'[j].run \in {tasks[j].run, flow[j].run}
      /\ tasks'[j].watching => tasks[j].watching \/ flow[j].told
      /\ tasks[j].watching => tasks'[j].watching
      /\ tasks'[j].cancel_after = tasks[j].cancel_after
      /\ tasks'[j].stop_after = tasks[j].stop_after
      /\ tasks[j].job = "none" => tasks'[j] = tasks[j]
  <2>1. Drained[j] = IF j \in Following THEN Heard(j) ELSE tasks[j]
    BY DEF Drained
  <2> QED  BY <2>1, HeardIs DEF Following, StateOK
<1>2. CASE flow'[j] = Cut(DrainCuts, {})[j]
  BY <1>1, <1>2, CutSame, CuttableIs
<1>3. CASE flow'[j] = flow[j]
  BY <1>1, <1>3 DEF Same, Inv, TaskInv
<1> QED  BY <1>2, <1>3

LEMMA MessageInv ==
  ASSUME StateOK, Inv, TerminalGone \/ \E i \in Ids : OnMessage(i)
  PROVE  Inv'
<1>1. CASE TerminalGone
  <2>1. \A j \in Ids : Same(j)
    BY <1>1, DrainSame DEF TerminalGone, Key
  <2> QED  BY <1>1, <2>1, SameInv DEF TerminalGone, Key
<1>2. ASSUME NEW i \in Ids, OnMessage(i)  PROVE Inv'
  <2>1. Cuttable(IF DueAt(i) THEN {i} ELSE {})
    BY DEF Cuttable, DueAt
  <2>2. ASSUME NEW j \in Ids  PROVE Same(j)
    <3>1. tasks'[j] = IF j = i THEN Heard(i) ELSE tasks[j]
      BY <1>2 DEF OnMessage, StateOK
    <3>2. tasks[i].job # "none"
      BY <1>2 DEF OnMessage, Following
    <3>3. /\ tasks'[j].job = tasks[j].job /\ tasks'[j].runpod = tasks[j].runpod
          /\ tasks'[j].run \in {tasks[j].run, flow[j].run}
          /\ tasks'[j].watching => tasks[j].watching \/ flow[j].told
          /\ tasks[j].watching => tasks'[j].watching
          /\ tasks'[j].cancel_after = tasks[j].cancel_after
          /\ tasks'[j].stop_after = tasks[j].stop_after
          /\ tasks[j].job = "none" => tasks'[j] = tasks[j]
      BY <3>1, <3>2, HeardIs DEF StateOK
    <3> QED  BY <1>2, <2>1, <3>3, CutSame DEF OnMessage
  <2> QED  BY <1>2, <2>2, SameInv, DrawnIs DEF OnMessage
<1> QED  BY <1>1, <1>2

LEMMA QuitInv ==
  ASSUME StateOK, Inv, Quit \/ Stay \/ OnSignal
  PROVE  Inv'
<1>1. CASE OnSignal
  BY <1>1, LeaveInv DEF OnSignal
<1>2. CASE Quit
  <2>1. CASE ~Idle
    BY <1>2, <2>1, LeaveInv DEF Quit, Key
  <2>2. CASE Idle
    <3>1. \A j \in Ids : Same(j)
      BY <1>2, <2>2 DEF Quit, Same, Key, Inv, TaskInv
    <3> QED  BY <1>2, <2>2, <3>1, SameInv DEF Quit, Key
  <2> QED  BY <2>1, <2>2
<1>3. CASE Stay
  <2>1. ASSUME NEW j \in Ids  PROVE Same(j)
    <3>1. tasks[j] \in Follow /\ tasks'[j] = KeepFollowing(tasks[j])
      BY <1>3 DEF Stay, StateOK
    <3>2. /\ tasks'[j].job = tasks[j].job /\ tasks'[j].runpod = tasks[j].runpod
          /\ tasks'[j].run = tasks[j].run /\ tasks'[j].watching = tasks[j].watching
          /\ tasks'[j].cancel_after = tasks[j].cancel_after
          /\ tasks'[j].stop_after = tasks[j].stop_after
      BY <3>1 DEF KeepFollowing, Follow
    <3>3. tasks[j].job = "none" => tasks'[j] = tasks[j]
      BY <3>1 DEF KeepFollowing, Inv, TaskInv, NoFollow, NewFollow
    <3> QED  BY <1>3, <3>2, <3>3 DEF Stay, Same, Key, Inv, TaskInv
  <2> QED  BY <1>3, <2>1, SameInv, DrawnIs DEF Stay, Key
<1> QED  BY <1>1, <1>2, <1>3

LEMMA FreeLock ==
  ASSUME ~Lock, NEW j \in Ids
  PROVE  ~Holds(j)
<1>1. slot["pipeline"] = 0 /\ slot["edit"] = 0 /\ start_after_save = "none"
  BY DEF Lock
<1>2. ~Starting(tasks[j])
  BY DEF Lock, Following, Starting
<1> QED  BY <1>1, <1>2, IdsAssumption DEF Holds

LEMMA EditInv ==
  ASSUME StateOK, Inv, phase = "loop", phase' \in {"loop", "settle"},
         UNCHANGED <<slot, tasks, flow, start_after_save, notes, record, early>>,
         Suspended' => Suspended \/ ~Lock
  PROVE  Inv'
<1>1. \A j \in Ids : Same(j)
  BY DEF Same, Inv, TaskInv
<1>4. \A j \in Ids : TaskInv(j)'
  BY <1>1, SameTask DEF Inv
<1>5. LockInv'
  <2>1. \A j \in Ids : Holds(j)' <=> Holds(j)
    BY DEF Holds
  <2> QED  BY <2>1, FreeLock DEF Inv, LockInv
<1>6. SlotInv' /\ RunInv' /\ NoteInv'
  BY DEF Inv, SlotInv, RunInv, NoteInv
<1>7. PhaseInv'
  BY DEF PhaseInv
<1> QED  BY <1>4, <1>5, <1>6, <1>7 DEF Inv

-----------------------------------------------------------------------------
(* What a key starts. *)

\* A task just spawned, and nothing known of it yet.
New(f) ==
  /\ f \in Flow
  /\ f.at = IF phase' = "settle" THEN "asked" ELSE "begin"
  /\ ~f.told /\ ~f.cut /\ ~f.abandon

LEMMA GoneTask ==
  ASSUME NEW i \in Ids, flow'[i] = NoFlow, tasks'[i] = NoFollow
  PROVE  TaskInv(i)'
BY DEF TaskInv, NoFlow, NoFollow, NewFollow, Starting

LEMMA NewSlotTask ==
  ASSUME NEW i \in Ids, NEW k \in Slots, New(flow'[i]), flow'[i].work = k, flow'[i].run = None,
         slot'[k] = i, tasks'[i] = NoFollow
  PROVE  TaskInv(i)'
<1>1. /\ tasks'[i].job = "none" /\ tasks'[i].run = None /\ ~tasks'[i].watching
      /\ ~Starting(tasks'[i])
  BY DEF NoFollow, NewFollow, Starting
<1> QED  BY <1>1 DEF TaskInv, New

LEMMA NewStartTask ==
  ASSUME NEW i \in Ids, NEW rp \in BOOLEAN, New(flow'[i]), flow'[i].work = "start",
         flow'[i].run = None, tasks'[i] = NewFollow("start", rp, None)
  PROVE  TaskInv(i)'
BY DEF TaskInv, New, NewFollow

LEMMA NewTrainTask ==
  ASSUME NEW i \in Ids, NEW job \in {"attach", "cancel", "stop"}, NEW r \in Runs,
         New(flow'[i]), flow'[i].work = job, flow'[i].run = r,
         tasks'[i] = NewFollow(job, FALSE, r), record'[r] # "absent"
  PROVE  TaskInv(i)'
<1>1. /\ tasks'[i].job = job /\ tasks'[i].run = r /\ ~tasks'[i].watching
      /\ ~Starting(tasks'[i])
  BY DEF NewFollow, Starting
<1>2. record'[flow'[i].run] # "absent" /\ r # None
  BY NoneAssumption
<1>3. /\ flow'[i].at \in {"asked", "begin"} /\ (flow'[i].at = "asked" => phase' = "settle")
      /\ ~flow'[i].told
  BY DEF New
<1>4. job \notin Slots /\ job \in Jobs /\ job \notin {"none", "start"}
  OBVIOUS
<1> HIDE DEF Slots, Jobs
<1> QED  BY <1>1, <1>2, <1>3, <1>4 DEF TaskInv

LEMMA NewSame ==
  ASSUME StateOK, Inv, NEW i \in Ids, NEW j \in Ids \ {i}, phase = "loop",
         flow'[j] = flow[j], tasks'[j] = tasks[j],
         \A k \in Slots : slot[k] = j => slot'[k] = j,
         record' = record, early \subseteq early'
  PROVE  Same(j)
BY DEF Same, Inv, TaskInv

LEMMA InSlotInv ==
  ASSUME StateOK, Inv, phase = "loop", NEW k \in Slots, slot[k] = 0, InSlot(k),
         ~Suspended',
         start_after_save' = start_after_save \/ k = "save",
         k \in {"pipeline", "edit"} \/ (k = "save" /\ start_after_save' # "none") =>
           \A j \in Ids : ~Holds(j)
  PROVE  Inv'
<1> DEFINE i == NewId
<1>1. /\ i \in Ids /\ flow[i].at = "none" /\ tasks[i].job = "none"
      /\ \A l \in Slots : slot[l] # i
  BY NewIdIs, FreeIs DEF InSlot
<1>2. i # 0
  BY <1>1, IdsAssumption
<1>3. /\ UNCHANGED <<leaving, tasks, notes, record, early>>
      /\ slot' = [slot EXCEPT ![k] = i]
      /\ flow' = [flow EXCEPT ![i] = Spawned(k, None, FALSE, FALSE)]
      /\ phase' \in {"loop", "settle"}
  BY DrawnIs DEF InSlot
<1> HIDE DEF i
<1>4. /\ New(flow'[i]) /\ flow'[i].work = k /\ flow'[i].run = None
      /\ \A j \in Ids \ {i} : flow'[j] = flow[j]
  <2>1. flow'[i] = Spawned(k, None, FALSE, FALSE) /\ \A j \in Ids \ {i} : flow'[j] = flow[j]
    BY <1>1, <1>3 DEF StateOK
  <2>2. New(Spawned(k, None, FALSE, FALSE))
        /\ Spawned(k, None, FALSE, FALSE).work = k /\ Spawned(k, None, FALSE, FALSE).run = None
    BY DEF New, Spawned, NoFlow, Flow
  <2> QED  BY <2>1, <2>2
<1>5. slot'[k] = i /\ \A l \in Slots \ {k} : slot'[l] = slot[l]
  BY <1>3 DEF StateOK
<1>6. ASSUME NEW j \in Ids  PROVE TaskInv(j)'
  <2>1. CASE j = i
    <3>1. tasks'[i] = NoFollow
      BY <1>1, <1>3 DEF Inv, TaskInv
    <3> QED  BY <1>1, <1>4, <1>5, <2>1, <3>1, NewSlotTask
  <2>2. CASE j # i
    <3>1. Same(j)
      <4>1. \A l \in Slots : slot[l] = j => slot'[l] = j
        BY <1>5, <2>2, IdsAssumption
      <4> QED  BY <1>1, <1>3, <1>4, <2>2, <4>1, NewSame
    <3> QED  BY <3>1, SameTask DEF Inv
  <2> QED  BY <2>1, <2>2
<1>7. SlotInv'
  <2>1. \A l \in Slots : slot'[l] # 0 => tasks'[slot'[l]].job = "none"
    BY <1>1, <1>3, <1>5 DEF Inv, SlotInv
  <2>2. \A l, m \in Slots : slot'[l] # 0 /\ slot'[l] = slot'[m] => l = m
    BY <1>1, <1>5 DEF Inv, SlotInv
  <2>3. \A l \in {"edit", "save"} : slot'[l] # 0 => flow'[slot'[l]].at # "none"
    BY <1>1, <1>4, <1>5 DEF Inv, SlotInv, New, StateOK
  <2>4. start_after_save' # "none" => slot'["save"] # 0
    BY <1>2, <1>5 DEF Inv, SlotInv
  <2> QED  BY <2>1, <2>2, <2>3, <2>4 DEF SlotInv
<1>8. LockInv'
  <2>1. ASSUME NEW j \in Ids, Holds(j)'
        PROVE  \/ Holds(j)
               \/ j = i /\ (k \in {"pipeline", "edit"} \/ (k = "save" /\ start_after_save' # "none"))
    BY <1>3, <1>5, <2>1 DEF Holds, Inv, SlotInv
  <2> QED  BY <2>1 DEF Inv, LockInv
<1>9. RunInv' /\ NoteInv'
  <2>1. \A j \in Ids : flow'[j].run # None => flow'[j].run = flow[j].run /\ j # i
    BY <1>4
  <2>2. RunInv'
    BY <1>3, <2>1 DEF Inv, RunInv
  <2>3. \A n \in notes : n[1] # None
    BY NoneAssumption DEF StateOK
  <2>4. NoteInv'
    BY <1>3, <2>1, <2>3 DEF Inv, NoteInv
  <2> QED  BY <2>2, <2>4
<1>10. PhaseInv'
  BY <1>3 DEF PhaseInv
<1> QED  BY <1>6, <1>7, <1>8, <1>9, <1>10 DEF Inv

LEMMA StartRunInv ==
  ASSUME StateOK, Inv, NEW how \in {"start", "resume"}, NEW runpod \in BOOLEAN, StartRun(how, runpod)
  PROVE  Inv'
<1> DEFINE i == NewId
<1>1. /\ i \in Ids /\ flow[i].at = "none" /\ tasks[i].job = "none"
      /\ \A l \in Slots : slot[l] # i
  BY NewIdIs, FreeIs DEF StartRun
<1>2. /\ UNCHANGED <<leaving, slot, editing, start_after_save, notes, record, early>>
      /\ tasks' = [tasks EXCEPT ![i] = NewFollow("start", runpod, None)]
      /\ flow' = [flow EXCEPT ![i] = Spawned("start", None, runpod, how = "resume")]
      /\ phase = "loop" /\ phase' \in {"loop", "settle"} /\ ~Lock
  BY DrawnIs DEF StartRun, Key, Refused
<1> HIDE DEF i
<1>3. /\ New(flow'[i]) /\ flow'[i].work = "start" /\ flow'[i].run = None
      /\ \A j \in Ids \ {i} : flow'[j] = flow[j]
  <2> DEFINE s == Spawned("start", None, runpod, how = "resume")
  <2>1. flow'[i] = s /\ \A j \in Ids \ {i} : flow'[j] = flow[j]
    BY <1>1, <1>2 DEF StateOK
  <2>2. New(s) /\ s.work = "start" /\ s.run = None
    BY DEF New, Spawned, NoFlow, Flow
  <2> QED  BY <2>1, <2>2
<1>4. /\ tasks'[i] = NewFollow("start", runpod, None)
      /\ \A j \in Ids \ {i} : tasks'[j] = tasks[j]
  BY <1>1, <1>2 DEF StateOK
<1>5. ASSUME NEW j \in Ids  PROVE TaskInv(j)'
  <2>1. CASE j = i
    BY <1>1, <1>3, <1>4, <2>1, NewStartTask
  <2>2. CASE j # i
    <3>1. Same(j)
      BY <1>1, <1>2, <1>3, <1>4, <2>2, NewSame
    <3> QED  BY <3>1, SameTask DEF Inv
  <2> QED  BY <2>1, <2>2
<1>6. SlotInv'
  BY <1>1, <1>2, <1>3, <1>4 DEF Inv, SlotInv, StateOK
<1>7. LockInv'
  <2>1. \A j \in Ids \ {i} : ~Holds(j)'
    BY <1>2, <1>4, FreeLock DEF Holds
  <2>2. ~Suspended'
    BY <1>2 DEF Suspended, Lock
  <2> QED  BY <2>1, <2>2 DEF LockInv
<1>8. RunInv' /\ NoteInv'
  BY <1>2, <1>3, NoneAssumption DEF Inv, RunInv, NoteInv, StateOK
<1>9. PhaseInv'
  BY <1>2 DEF PhaseInv
<1> QED  BY <1>5, <1>6, <1>7, <1>8, <1>9 DEF Inv

LEMMA TrainInv ==
  ASSUME StateOK, Inv, phase = "loop", NEW job \in {"attach", "cancel", "stop"}, NEW r \in Runs,
         Listed(r), Train(job, r)
  PROVE  Inv'
<1> DEFINE i == NewId
<1>1. /\ i \in Ids /\ flow[i].at = "none" /\ tasks[i].job = "none"
      /\ \A l \in Slots : slot[l] # i
  BY NewIdIs, FreeIs DEF Train
<1>2. /\ UNCHANGED <<leaving, slot, editing, start_after_save, record>>
      /\ tasks' = [tasks EXCEPT ![i] = NewFollow(job, FALSE, r)]
      /\ flow' = [flow EXCEPT ![i] = Spawned(job, r, FALSE, FALSE)]
      /\ notes' = {n \in notes : n[1] # r}
      /\ phase' \in {"loop", "settle"}
  BY DrawnIs DEF Train, Forgotten
<1> HIDE DEF i
<1>3. /\ New(flow'[i]) /\ flow'[i].work = job /\ flow'[i].run = r
      /\ \A j \in Ids \ {i} : flow'[j] = flow[j]
  <2>1. flow'[i] = Spawned(job, r, FALSE, FALSE) /\ \A j \in Ids \ {i} : flow'[j] = flow[j]
    BY <1>1, <1>2 DEF StateOK
  <2>2. New(Spawned(job, r, FALSE, FALSE))
        /\ Spawned(job, r, FALSE, FALSE).work = job /\ Spawned(job, r, FALSE, FALSE).run = r
    BY DEF New, Spawned, NoFlow, Flow
  <2> QED  BY <2>1, <2>2
<1>4. /\ tasks'[i] = NewFollow(job, FALSE, r)
      /\ \A j \in Ids \ {i} : tasks'[j] = tasks[j]
  BY <1>1, <1>2 DEF StateOK
<1>5. /\ r # None /\ record[r] # "absent" /\ early \subseteq early'
      /\ r \notin early' => \A j \in Ids : flow[j].run # r
  BY NoneAssumption DEF Listed, Train
<1>6. ASSUME NEW j \in Ids  PROVE TaskInv(j)'
  <2>1. CASE j = i
    BY <1>1, <1>2, <1>3, <1>4, <1>5, <2>1, NewTrainTask
  <2>2. CASE j # i
    <3>1. Same(j)
      BY <1>1, <1>2, <1>3, <1>4, <1>5, <2>2, NewSame
    <3> QED  BY <3>1, SameTask DEF Inv
  <2> QED  BY <2>1, <2>2
<1>7. SlotInv'
  BY <1>1, <1>2, <1>3, <1>4 DEF Inv, SlotInv, StateOK
<1>8. LockInv'
  <2>1. \A j \in Ids : Holds(j)' => Holds(j)
    BY <1>2, <1>4 DEF Holds, Starting, NewFollow
  <2> QED  BY <1>2, <2>1 DEF Inv, LockInv, Suspended
<1>9. RunInv' /\ NoteInv'
  <2>1. \A j \in Ids : flow'[j].run = IF j = i THEN r ELSE flow[j].run
    BY <1>3
  <2>2. RunInv'
    BY <1>5, <2>1 DEF Inv, RunInv
  <2>3. NoteInv'
    BY <1>2, <1>5, <2>1 DEF Inv, NoteInv
  <2> QED  BY <2>2, <2>3
<1>10. PhaseInv'
  BY <1>2 DEF PhaseInv
<1> QED  BY <1>6, <1>7, <1>8, <1>9, <1>10 DEF Inv

\* A stage, a deletion, a save of the configuration, a push, a compare, and
\* what the editor leaves.
LEMMA SlotKeyInv ==
  ASSUME StateOK, Inv,
         \/ RunPipeline \/ Delete \/ SpawnWrite \/ EditSelected \/ EditorExit
         \/ \E how \in {"start", "resume"} : ConfirmStart(how)
         \/ \E k \in Others : Confirm(k)
  PROVE  Inv'
<1>1. slot["save"] = 0 => start_after_save = "none"
  BY DEF Inv, SlotInv
<1>2. ~Lock => /\ ~editing /\ slot["pipeline"] = 0 /\ slot["edit"] = 0
               /\ \A j \in Ids : ~Holds(j)
  BY FreeLock DEF Lock
<1>3. ASSUME NEW k \in Slots, InSlot(k)
      PROVE  \A l \in Slots \ {k} : slot'[l] = slot[l]
  BY <1>3 DEF InSlot, StateOK
<1>4. CASE RunPipeline \/ Delete \/ \E k \in Others : Confirm(k)
  <2>1. ~Lock /\ editing' = editing /\ start_after_save' = start_after_save /\ phase = "loop"
    BY <1>4 DEF RunPipeline, Delete, Confirm, Refused, Key
  <2>2. ~Suspended'
    BY <1>2, <2>1 DEF Suspended
  <2>3. PICK k \in Slots : InSlot(k) /\ slot[k] = 0
    BY <1>2, <1>4, <2>1, OthersAssumption DEF RunPipeline, Delete, Confirm
  <2> HIDE DEF Slots, Jobs
  <2> QED  BY <1>2, <2>1, <2>2, <2>3, InSlotInv
<1>5. CASE SpawnWrite
  <2>1. InSlot("save") /\ slot["save"] = 0 /\ phase = "loop" /\ ~Suspended
        /\ editing' = editing /\ start_after_save' = "none" /\ start_after_save = "none"
    BY <1>1, <1>5 DEF SpawnWrite, Key
  <2>2. ~Suspended'
    BY <1>3, <2>1 DEF Suspended
  <2> QED  BY <2>1, <2>2, InSlotInv
<1>6. ASSUME NEW how \in {"start", "resume"}, ConfirmStart(how)  PROVE Inv'
  <2>1. InSlot("save") /\ slot["save"] = 0 /\ phase = "loop" /\ ~Lock /\ editing' = editing
    BY <1>6 DEF ConfirmStart, Key, Refused
  <2>2. ~Suspended'
    BY <1>2, <2>1 DEF Suspended
  <2> QED  BY <1>2, <2>1, <2>2, InSlotInv
<1>7. CASE EditSelected
  BY <1>7, EditInv, DrawnIs DEF EditSelected, Key, Refused
<1>8. CASE EditorExit
  <2>1. CASE InSlot("edit") /\ UNCHANGED <<editing, start_after_save>>
    <3>1. slot["edit"] = 0 /\ phase = "loop" /\ \A j \in Ids : ~Holds(j)
      BY <1>8 DEF EditorExit, Suspended, Inv, LockInv
    <3>2. slot'["edit"] # 0
      BY <2>1, NewIdIs, FreeIs, IdsAssumption DEF InSlot, StateOK
    <3>3. ~Suspended'
      BY <3>2 DEF Suspended
    <3> QED  BY <2>1, <3>1, <3>3, InSlotInv
  <2>2. CASE /\ UNCHANGED <<slot, tasks, flow, start_after_save, notes, record, early>>
             /\ phase' \in {"loop", "settle"}
    BY <1>8, <2>2, EditInv DEF EditorExit
  <2> QED  BY <1>8, <2>1, <2>2, DrawnIs DEF EditorExit, appVars
<1> QED  BY <1>4, <1>5, <1>6, <1>7, <1>8

\* An attach, a cancel and a stop.
LEMMA RunKeyInv ==
  ASSUME StateOK, Inv, NEW r \in Runs, AttachSelected(r) \/ CancelRun(r) \/ StopRun(r)
  PROVE  Inv'
<1>1. Listed(r) /\ phase = "loop"
  BY DEF AttachSelected, CancelRun, StopRun, Key
<1>2. CASE \E job \in {"attach", "cancel", "stop"} : Train(job, r)
  BY <1>1, <1>2, TrainInv
<1>3. ASSUME NEW i \in TaskOf(r), NEW f \in Follow, DetachTask(i, f),
             f.job = tasks[i].job, f.runpod = tasks[i].runpod, f.run = tasks[i].run,
             f.watching = tasks[i].watching
      PROVE  Inv'
  <2>1. i \in Following
    BY DEF TaskOf
  <2> HIDE DEF Slots, Jobs
  <2> QED  BY <1>1, <1>3, <2>1, DetachInv
<1>4. ASSUME NEW i \in TaskOf(r),
             \/ DetachTask(i, [tasks[i] EXCEPT !.cancel_after = TRUE])
             \/ DetachTask(i, [tasks[i] EXCEPT !.stop_after = TRUE])
      PROVE  Inv'
  <2>1. tasks[i] \in Follow
    BY DEF TaskOf, Following, StateOK
  <2> DEFINE c == [tasks[i] EXCEPT !.cancel_after = TRUE]
             s == [tasks[i] EXCEPT !.stop_after = TRUE]
  <2>2. /\ c \in Follow
        /\ c.job = tasks[i].job /\ c.runpod = tasks[i].runpod
        /\ c.run = tasks[i].run /\ c.watching = tasks[i].watching
    BY <2>1 DEF Follow
  <2>3. /\ s \in Follow
        /\ s.job = tasks[i].job /\ s.runpod = tasks[i].runpod
        /\ s.run = tasks[i].run /\ s.watching = tasks[i].watching
    BY <2>1 DEF Follow
  <2>4. DetachTask(i, c) \/ DetachTask(i, s)
    BY <1>4
  <2> HIDE DEF c, s
  <2> QED  BY <1>3, <1>4, <2>2, <2>3, <2>4
<1>5. CASE AttachSelected(r)
  BY <1>2, <1>5 DEF AttachSelected
<1>6. CASE CancelRun(r)
  BY <1>2, <1>4, <1>6 DEF CancelRun
<1>7. CASE StopRun(r)
  BY <1>2, <1>4, <1>7 DEF StopRun
<1> QED  BY <1>5, <1>6, <1>7

LEMMA UserInv ==
  ASSUME StateOK, Inv, UserStep
  PROVE  Inv'
BY RunKeyInv, AbandonInv, CutOnlyInv, SlotKeyInv, StartRunInv, QuitInv DEF UserStep
-----------------------------------------------------------------------------
(* The end of a task. *)

\* The other tasks hear their messages, and no more.
LEMMA DoneSame ==
  ASSUME StateOK, Inv, NEW i \in Ids, NEW j \in Ids \ {i}, phase # "settle",
         tasks'[j] = Drained[j], flow'[j] = Cut(DrainCuts, {})[j],
         \A k \in Slots : slot[k] # i => slot'[k] = slot[k], UNCHANGED <<record, early>>
  PROVE  Same(j)
<1>1. \A k \in Slots : slot[k] = j => slot'[k] = j
  OBVIOUS
<1> QED  BY <1>1, DrainSame

\* What is left to show once task i ended, from what becomes of it.
LEMMA DoneRest ==
  ASSUME StateOK, Inv, NEW i \in Ids, phase \in {"loop", "wait"}, Drawn, UNCHANGED <<leaving, early>>,
         \A j \in Ids \ {i} : Same(j) /\ (Holds(j)' => Holds(j)),
         TaskInv(i)', Holds(i)' => Holds(i), flow'[i].run \in {None, flow[i].run},
         Suspended' => Suspended, SlotInv', NoteInv'
  PROVE  Inv'
<1>1. \A j \in Ids : TaskInv(j)'
  BY SameTask DEF Inv
<1>2. \A j \in Ids : Holds(j)' => Holds(j)
  OBVIOUS
<1>3. LockInv'
  BY <1>2 DEF Inv, LockInv
<1>4. \A j \in Ids : flow'[j].run \in {None, flow[j].run}
  BY DEF Same
<1>5. RunInv'
  BY <1>4 DEF Inv, RunInv
<1>6. PhaseInv'
  <2>1. phase' # "ended" /\ (phase' = "wait" => phase = "wait")
    BY DrawnIs
  <2> QED  BY <2>1 DEF PhaseInv, Inv
<1> QED  BY <1>1, <1>3, <1>5, <1>6 DEF Inv

\* Notes neither added nor taken away hold while no run is taken up.
LEMMA NotesStay ==
  ASSUME StateOK, Inv, UNCHANGED <<notes, record, early>>,
         \A j \in Ids : flow'[j].run \in {None, flow[j].run}
  PROVE  NoteInv'
<1>1. \A n \in notes : n[1] # None
  BY NoneAssumption DEF StateOK
<1> QED  BY <1>1 DEF Inv, NoteInv

\* The task of a slot is no training task.
LEMMA InASlot ==
  ASSUME StateOK, Inv, NEW i \in Ids, NEW k \in Slots, slot[k] = i
  PROVE  /\ i # 0 /\ tasks[i] = NoFollow /\ Drained[i] = NoFollow
         /\ \A l \in Slots \ {k} : slot[l] # i
<1>1. i # 0
  BY IdsAssumption
<1>2. tasks[i].job = "none"
  BY <1>1 DEF Inv, SlotInv
<1>3. tasks[i] = NoFollow
  BY <1>2 DEF Inv, TaskInv
<1>4. Drained[i] = NoFollow
  BY <1>2, <1>3 DEF Drained, Following
<1> QED  BY <1>1, <1>3, <1>4 DEF Inv, SlotInv

\* Task i left its slot, or is the next stage in it, and the others keep theirs.
SlotLeft(i, k) ==
  /\ slot[k] = i
  /\ \A j \in Ids \ {i} : Same(j)
  /\ \A l \in Slots \ {k} : slot'[l] = slot[l]
  /\ slot'[k] = 0 \/ (k = "pipeline" /\ slot'[k] = i /\ tasks'[i].job = "none")
  /\ start_after_save' # "none" => start_after_save # "none" /\ k # "save"

LEMMA SlotsStay ==
  ASSUME StateOK, Inv, NEW i \in Ids, NEW k \in Slots, SlotLeft(i, k)
  PROVE  SlotInv'
<1> USE DEF SlotLeft
<1>1. /\ \A l \in Slots \ {k} : slot'[l] = slot[l] /\ slot[l] # i
      /\ slot'[k] = 0 \/ (k = "pipeline" /\ slot'[k] = i /\ tasks'[i].job = "none")
  BY InASlot DEF StateOK
<1>2. ASSUME NEW l \in Slots \ {k}, slot[l] # 0
      PROVE  tasks'[slot[l]].job = "none" /\ flow'[slot[l]].at = flow[slot[l]].at
  <2>1. slot[l] \in Ids \ {i}
    BY <1>1, <1>2 DEF StateOK
  <2> QED  BY <1>2, <2>1 DEF Same, Inv, SlotInv
<1>3. \A l, m \in Slots : slot'[l] # 0 /\ slot'[l] = slot'[m] => l = m
  BY <1>1 DEF Inv, SlotInv
<1>4. \A l \in Slots : slot'[l] # 0 => tasks'[slot'[l]].job = "none"
  BY <1>1, <1>2
<1>5. \A l \in {"edit", "save"} : slot'[l] # 0 => flow'[slot'[l]].at # "none"
  BY <1>1, <1>2 DEF Inv, SlotInv
<1>6. start_after_save' # "none" => slot'["save"] # 0
  BY <1>1 DEF Inv, SlotInv
<1> QED  BY <1>3, <1>4, <1>5, <1>6 DEF SlotInv
\* The lock of a task the end of another is not about.
LEMMA HoldsStay ==
  ASSUME StateOK, NEW i \in Ids, NEW j \in Ids \ {i}, Same(j),
         \A k \in Slots : slot'[k] \in {0, i, slot[k]},
         start_after_save' # "none" => start_after_save # "none"
  PROVE  Holds(j)' => Holds(j)
<1>1. Starting(tasks'[j]) => Starting(tasks[j])
  BY DEF Same, Starting
<1>2. \A k \in Slots : slot'[k] = j => slot[k] = j
  BY IdsAssumption
<1> QED  BY <1>1, <1>2 DEF Holds

LEMMA SlotEndedInv ==
  ASSUME StateOK, Inv, NEW i \in Ids, phase \in {"loop", "wait"},
         EditEnded(i) \/ \E k \in {"push", "compare"} : OtherEnded(k, i)
  PROVE  Inv'
<1>1. PICK k \in {"edit", "push", "compare"} :
        /\ slot[k] = i
        /\ slot' = [slot EXCEPT ![k] = 0]
        /\ editing' = IF k = "edit" THEN FALSE ELSE editing
  BY DEF EditEnded, OtherEnded
<1>2. /\ UNCHANGED <<leaving, start_after_save, notes, record, early>>
      /\ Drawn
      /\ tasks' = Drained
      /\ flow' = Gone(Cut(DrainCuts, {}), i)
  BY DEF EditEnded, OtherEnded
<1>3. /\ tasks'[i] = NoFollow
      /\ \A l \in Slots : slot'[l] = IF l = k THEN 0 ELSE slot[l]
      /\ \A l \in Slots : slot'[l] # i
  BY <1>1, <1>2, InASlot DEF StateOK
<1>4. flow'[i] = NoFlow /\ \A j \in Ids \ {i} : flow'[j] = Cut(DrainCuts, {})[j]
  BY <1>2, CutIs DEF Gone, StateOK
<1>5. ASSUME NEW j \in Ids \ {i}  PROVE Same(j) /\ (Holds(j)' => Holds(j))
  <2>1. Same(j)
    BY <1>2, <1>3, <1>4, <1>1, DoneSame
  <2> QED  BY <1>2, <1>3, <2>1, HoldsStay
<1>6. TaskInv(i)'
  BY <1>3, <1>4, GoneTask
<1>7. ~Holds(i)' /\ flow'[i].run = None
  BY <1>3, <1>4 DEF Holds, Starting, NoFollow, NewFollow, NoFlow
<1>8. Suspended' => Suspended
  BY <1>1, <1>3 DEF Suspended
<1>9. SlotInv'
  <2>1. \A j \in Ids \ {i} : Same(j)
    BY <1>5
  <2>2. k # "save" /\ start_after_save' = start_after_save
    BY <1>1, <1>2
  <2>3. k \in Slots /\ SlotLeft(i, k)
    BY <1>1, <1>3, <2>1, <2>2 DEF SlotLeft
  <2> QED  BY <2>3, SlotsStay
<1>10. NoteInv'
  <2>1. \A j \in Ids : flow'[j].run \in {None, flow[j].run}
    BY <1>5, <1>7 DEF Same
  <2> QED  BY <1>2, <2>1, NotesStay
<1> QED  BY <1>2, <1>5, <1>6, <1>7, <1>8, <1>9, <1>10, DoneRest

LEMMA ConfigSavedInv ==
  ASSUME StateOK, Inv, NEW i \in Ids, phase \in {"loop", "wait"}, ConfigSaved(i)
  PROVE  Inv'
<1>1. /\ slot["save"] = i
      /\ slot' = [slot EXCEPT !["save"] = 0]
      /\ start_after_save' = "none"
      /\ UNCHANGED <<leaving, editing, notes, record, early>>
      /\ Drawn
  BY DEF ConfigSaved
<1>2. /\ i # 0 /\ Drained[i] = NoFollow
      /\ \A l \in Slots : slot'[l] = IF l = "save" THEN 0 ELSE slot[l]
      /\ \A l \in Slots : slot'[l] # i
  BY <1>1, InASlot DEF StateOK
<1>3. Drained \in [Ids -> Follow] /\ Gone(Cut(DrainCuts, {}), i) \in [Ids -> Flow]
  BY DrainedIs, CutIs, NothingIs DEF Gone, StateOK
<1>4. /\ tasks'[i] = IF StartsAfter(i) THEN NewFollow("start", TRUE, None) ELSE NoFollow
      /\ \A j \in Ids \ {i} : tasks'[j] = Drained[j]
  BY <1>2, <1>3 DEF ConfigSaved
<1>5. /\ StartsAfter(i) => flow'[i] = Spawned("start", None, TRUE, start_after_save = "resume")
      /\ ~StartsAfter(i) => flow'[i] = NoFlow
      /\ \A j \in Ids \ {i} : flow'[j] = Cut(DrainCuts, {})[j]
  <2>1. Gone(Cut(DrainCuts, {}), i)[i] = NoFlow
        /\ \A j \in Ids \ {i} : Gone(Cut(DrainCuts, {}), i)[j] = Cut(DrainCuts, {})[j]
    BY CutIs DEF Gone, StateOK
  <2> QED  BY <1>3, <2>1 DEF ConfigSaved
<1>6. ASSUME NEW j \in Ids \ {i}  PROVE Same(j) /\ (Holds(j)' => Holds(j))
  <2>1. Same(j)
    BY <1>1, <1>2, <1>4, <1>5, DoneSame
  <2> QED  BY <1>1, <1>2, <2>1, HoldsStay
<1>7. TaskInv(i)' /\ flow'[i].run = None
  <2>1. CASE StartsAfter(i)
    <3> DEFINE s == Spawned("start", None, TRUE, start_after_save = "resume")
    <3>1. New(s) /\ s.work = "start" /\ s.run = None
      BY DEF New, Spawned, NoFlow, Flow
    <3> HIDE DEF s
    <3>2. flow'[i] = s
      BY <1>5, <2>1 DEF s
    <3> QED  BY <1>4, <2>1, <3>1, <3>2, NewStartTask
  <2>2. CASE ~StartsAfter(i)
    <3>1. tasks'[i] = NoFollow /\ flow'[i] = NoFlow
      BY <1>4, <1>5, <2>2
    <3>2. flow'[i].run = None
      BY <3>1 DEF NoFlow
    <3> QED  BY <3>1, <3>2, GoneTask
  <2> QED  BY <2>1, <2>2
<1>8. Holds(i)' => Holds(i)
  <2>1. CASE StartsAfter(i)
    BY <1>1, <2>1 DEF Holds, StartsAfter
  <2>2. CASE ~StartsAfter(i)
    BY <1>2, <1>4, <2>2 DEF Holds, Starting, NoFollow, NewFollow
  <2> QED  BY <2>1, <2>2
<1>9. SlotInv'
  <2>1. \A j \in Ids \ {i} : Same(j)
    BY <1>6
  <2>2. SlotLeft(i, "save")
    <3>1. \A l \in Slots \ {"save"} : slot'[l] = slot[l]
      BY <1>2
    <3>2. slot'["save"] = 0
      BY <1>2
    <3>3. slot["save"] = i /\ start_after_save' = "none"
      BY <1>1
    <3> QED  BY <3>1, <3>2, <3>3, <2>1 DEF SlotLeft
  <2> QED  BY <2>2, SlotsStay
<1>10. NoteInv'
  <2>1. \A j \in Ids : flow'[j].run \in {None, flow[j].run}
    BY <1>6, <1>7 DEF Same
  <2> QED  BY <1>1, <2>1, NotesStay
<1>11. Suspended' => Suspended
  BY <1>1, <1>2 DEF Suspended
<1> QED  BY <1>1, <1>6, <1>7, <1>8, <1>9, <1>10, <1>11, DoneRest

LEMMA PipelineEndedInv ==
  ASSUME StateOK, Inv, NEW i \in Ids, phase \in {"loop", "wait"}, PipelineEnded(i)
  PROVE  Inv'
<1> DEFINE next == AutoGoesOn(i) /\ auto < STAGES
<1>1. /\ slot["pipeline"] = i
      /\ slot' = [slot EXCEPT !["pipeline"] = IF next THEN i ELSE 0]
      /\ UNCHANGED <<leaving, editing, start_after_save, notes, record, early>>
      /\ Drawn
  BY DEF PipelineEnded
<1>2. /\ i # 0 /\ Drained[i] = NoFollow
      /\ \A l \in Slots \ {"pipeline"} : slot'[l] = slot[l] /\ slot[l] # i
      /\ slot'["pipeline"] = IF next THEN i ELSE 0
  BY <1>1, InASlot DEF StateOK
<1>3. Drained \in [Ids -> Follow]
  BY DrainedIs
<1>4. PICK rp \in BOOLEAN :
        \/ tasks' = Drained
        \/ ~next /\ tasks' = [Drained EXCEPT ![i] = NewFollow("start", rp, None)]
  <2>1. STAGES \in Nat
    BY StagesAssumption
  <2>2. auto = STAGES => ~next
    BY <2>1
  <2> QED  BY <2>2 DEF PipelineEnded
<1>5. /\ \A j \in Ids \ {i} : tasks'[j] = Drained[j]
      /\ \/ tasks'[i] = NoFollow
         \/ ~next /\ tasks'[i] = NewFollow("start", rp, None)
  BY <1>2, <1>3, <1>4
<1>6. /\ tasks'[i] = NoFollow => tasks'[i].job = "none"
      /\ tasks'[i] = NewFollow("start", rp, None) =>
           tasks'[i].job = "start" /\ tasks'[i].runpod = rp
  BY DEF NoFollow, NewFollow
<1> HIDE DEF next
<1>7. /\ next => flow'[i] = Spawned("pipeline", None, FALSE, FALSE)
      /\ ~next /\ tasks'[i].job = "start" =>
           flow'[i] = Spawned("start", None, rp, FALSE)
      /\ ~next /\ tasks'[i].job # "start" => flow'[i] = NoFlow
      /\ \A j \in Ids \ {i} : flow'[j] = Cut(DrainCuts, {})[j]
  <2>1. /\ Gone(Cut(DrainCuts, {}), i) \in [Ids -> Flow]
        /\ Gone(Cut(DrainCuts, {}), i)[i] = NoFlow
        /\ \A j \in Ids \ {i} : Gone(Cut(DrainCuts, {}), i)[j] = Cut(DrainCuts, {})[j]
    BY CutIs, NothingIs DEF Gone, StateOK
  <2>2. tasks'[i].job = "start" => tasks'[i].runpod = rp
    BY <1>5, <1>6
  <2>3. slot'["pipeline"] = i <=> next
    BY <1>2
  <2> QED  BY <2>1, <2>2, <2>3 DEF PipelineEnded
<1>8. ASSUME NEW j \in Ids \ {i}  PROVE Same(j) /\ (Holds(j)' => Holds(j))
  <2>1. Same(j)
    BY <1>1, <1>2, <1>5, <1>7, DoneSame
  <2> QED  BY <1>1, <1>2, <2>1, HoldsStay
<1>9. TaskInv(i)' /\ flow'[i].run = None
  <2>1. CASE next
    <3>1. New(flow'[i]) /\ flow'[i].work = "pipeline" /\ flow'[i].run = None
      BY <1>7, <2>1 DEF New, Spawned, NoFlow, Flow
    <3>2. slot'["pipeline"] = i /\ tasks'[i] = NoFollow
      BY <1>2, <1>5, <2>1
    <3> QED  BY <3>1, <3>2, NewSlotTask
  <2>2. CASE ~next /\ tasks'[i].job = "start"
    <3>1. flow'[i] = Spawned("start", None, rp, FALSE)
      BY <1>7, <2>2
    <3>2. New(flow'[i]) /\ flow'[i].work = "start" /\ flow'[i].run = None
      BY <3>1 DEF New, Spawned, NoFlow, Flow
    <3>3. tasks'[i] = NewFollow("start", rp, None)
      BY <1>5, <1>6, <2>2
    <3> QED  BY <3>2, <3>3, NewStartTask
  <2>3. CASE ~next /\ tasks'[i].job # "start"
    <3>1. tasks'[i] = NoFollow /\ flow'[i] = NoFlow
      BY <1>5, <1>6, <1>7, <2>3
    <3>2. flow'[i].run = None
      BY <3>1 DEF NoFlow
    <3> QED  BY <3>1, <3>2, GoneTask
  <2> QED  BY <2>1, <2>2, <2>3
<1>10. Holds(i)
  BY <1>1 DEF Holds
<1>11. SlotInv'
  <2>1. \A j \in Ids \ {i} : Same(j)
    BY <1>8
  <2>2. /\ slot'["pipeline"] = 0 \/ (slot'["pipeline"] = i /\ tasks'[i].job = "none")
        /\ \A l \in Slots \ {"pipeline"} : slot'[l] = slot[l]
    BY <1>2, <1>5, <1>6
  <2>3. SlotLeft(i, "pipeline")
    BY <1>1, <2>1, <2>2 DEF SlotLeft
  <2> QED  BY <2>3, SlotsStay
<1>12. NoteInv'
  <2>1. \A j \in Ids : flow'[j].run \in {None, flow[j].run}
    BY <1>8, <1>9 DEF Same
  <2> QED  BY <1>1, <2>1, NotesStay
<1>13. Suspended' => Suspended
  BY <1>1, <1>2 DEF Suspended
<1> QED  BY <1>1, <1>8, <1>9, <1>10, <1>11, <1>12, <1>13, DoneRest

LEMMA TrainedInv ==
  ASSUME StateOK, Inv, NEW i \in Ids, phase \in {"loop", "wait"}, flow[i].at = "over", Trained(i)
  PROVE  Inv'
<1>1. tasks[i].job # "none" /\ tasks[i] \in Follow /\ flow[i] \in Flow
  BY DEF Trained, Following, StateOK
<1>2. PICK f \in {Heard(i)} :
          /\ tasks' = [Drained EXCEPT ![i] =
                          IF NextJob(f) = "none" THEN NoFollow
                          ELSE NewFollow(NextJob(f), FALSE, f.run)]
          /\ notes' = IF NextJob(f) = "none"
                      THEN notes \cup EndNotes(f, flow[i].result)
                      ELSE Forgotten(notes \cup EndNotes(f, flow[i].result), f.run)
          /\ leaving' = leaving
          /\ UNCHANGED <<slot, editing, start_after_save, record, early>>
          /\ Drawn
          /\ flow' = [Gone(Cut(DrainCuts, {}), i) EXCEPT ![i] =
                         IF NextJob(f) = "none" THEN @
                         ELSE Spawned(NextJob(f), f.run, FALSE, FALSE)]
  BY DEF Trained
<1> DEFINE next == NextJob(f)
           r == flow[i].run
<1>3. f.run = r /\ r \in Runs \cup {None}
  BY <1>1, HeardIs DEF Inv, TaskInv, StateOK, Flow
<1>4. next \in {"none", "cancel", "stop"} /\ (next # "none" => r # None)
  BY <1>3 DEF NextJob
<1>5. \A k \in Slots : slot[k] # i
  BY <1>1, IdsAssumption DEF Inv, SlotInv
<1>6. r # None => /\ record[r] # "absent"
                  /\ r \notin early /\ flow[i].result = "left" => record[r] = "running"
  BY DEF Inv, TaskInv
<1>7. \A n \in EndNotes(f, flow[i].result) :
        n[1] = r /\ r # None /\ (n[2] = "left" => flow[i].result = "left")
  BY <1>3 DEF EndNotes
<1>8. /\ \A j \in Ids \ {i} : tasks'[j] = Drained[j]
      /\ next = "none" => tasks'[i] = NoFollow
      /\ next # "none" => tasks'[i] = NewFollow(next, FALSE, r)
  <2>1. Drained \in [Ids -> Follow]
    BY DrainedIs
  <2> QED  BY <1>2, <1>3, <2>1
<1>9. /\ \A j \in Ids \ {i} : flow'[j] = Cut(DrainCuts, {})[j]
      /\ next = "none" => flow'[i] = NoFlow
      /\ next # "none" => flow'[i] = Spawned(next, r, FALSE, FALSE)
  <2>1. /\ Gone(Cut(DrainCuts, {}), i) \in [Ids -> Flow]
        /\ Gone(Cut(DrainCuts, {}), i)[i] = NoFlow
        /\ \A j \in Ids \ {i} : Gone(Cut(DrainCuts, {}), i)[j] = Cut(DrainCuts, {})[j]
    BY CutIs, NothingIs DEF Gone, StateOK
  <2> QED  BY <1>2, <1>3, <2>1
<1>10. notes' = IF next = "none" THEN notes \cup EndNotes(f, flow[i].result)
                ELSE {n \in notes \cup EndNotes(f, flow[i].result) : n[1] # r}
  BY <1>2, <1>3 DEF Forgotten
<1> HIDE DEF next, r
<1>11. ASSUME NEW j \in Ids \ {i}  PROVE Same(j) /\ (Holds(j)' => Holds(j))
  <2>1. Same(j)
    BY <1>2, <1>8, <1>9, DoneSame
  <2> QED  BY <1>2, <2>1, HoldsStay
<1>12. TaskInv(i)' /\ flow'[i].run = IF next = "none" THEN None ELSE r
  <2>1. CASE next = "none"
    <3>1. tasks'[i] = NoFollow /\ flow'[i] = NoFlow
      BY <1>8, <1>9, <2>1
    <3>2. flow'[i].run = None
      BY <3>1 DEF NoFlow
    <3> QED  BY <2>1, <3>1, <3>2, GoneTask
  <2>2. CASE next # "none"
    <3>1. next \in {"cancel", "stop"} /\ r \in Runs /\ r # None
      BY <1>3, <1>4, <2>2
    <3>2. flow'[i] = Spawned(next, r, FALSE, FALSE) /\ tasks'[i] = NewFollow(next, FALSE, r)
      BY <1>8, <1>9, <2>2
    <3>3. New(flow'[i]) /\ flow'[i].work = next /\ flow'[i].run = r
      BY <3>1, <3>2 DEF New, Spawned, NoFlow, Flow
    <3>4. record'[r] # "absent"
      BY <1>2, <1>6, <3>1
    <3> QED  BY <2>2, <3>1, <3>2, <3>3, <3>4, NewTrainTask
  <2> QED  BY <2>1, <2>2
<1>13. ~Holds(i)'
  <2>1. ~Starting(tasks'[i])
    BY <1>4, <1>8 DEF Starting, NoFollow, NewFollow
  <2> QED  BY <1>2, <1>5, <2>1 DEF Holds
<1>14. SlotInv'
  <2>1. ASSUME NEW k \in Slots, slot[k] # 0
        PROVE  tasks'[slot[k]].job = "none" /\ flow'[slot[k]].at = flow[slot[k]].at
    <3>1. slot[k] \in Ids \ {i}
      BY <1>5, <2>1 DEF StateOK
    <3> QED  BY <1>11, <2>1, <3>1 DEF Same, Inv, SlotInv
  <2> QED  BY <1>2, <2>1 DEF Inv, SlotInv
<1>15. NoteInv'
  <2>1. \A n \in notes : n[1] # None
    BY NoneAssumption DEF StateOK
  <2>2. \A j \in Ids \ {i} : flow'[j].run = flow[j].run
    BY <1>11 DEF Same
  <2>3. ASSUME NEW n \in notes', n[1] \notin early  PROVE \A j \in Ids : flow'[j].run # n[1]
    <3>1. CASE n \in notes /\ (next # "none" => n[1] # r)
      BY <1>12, <2>1, <2>2, <2>3, <3>1 DEF Inv, NoteInv
    <3>2. CASE next = "none" /\ n \in EndNotes(f, flow[i].result)
      <4>1. r \notin early => \A j \in Ids \ {i} : flow[j].run # r \/ r = None
        BY DEF Inv, RunInv, r
      <4> QED  BY <1>7, <1>12, <2>2, <2>3, <3>2, <4>1
    <3> QED  BY <1>7, <1>10, <2>3, <3>1, <3>2
  <2>4. ASSUME NEW n \in notes'
        PROVE  /\ record'[n[1]] # "absent"
               /\ n[1] \notin early /\ n[2] = "left" => record'[n[1]] = "running"
    BY <1>2, <1>6, <1>7, <1>10, <2>4 DEF Inv, NoteInv
  <2> QED  BY <1>2, <2>3, <2>4 DEF NoteInv
<1>16. flow'[i].run \in {None, flow[i].run}
  BY <1>12 DEF r
<1>17. Suspended' => Suspended
  BY <1>2 DEF Suspended
<1> QED  BY <1>2, <1>11, <1>12, <1>13, <1>14, <1>15, <1>16, <1>17, DoneRest

LEMMA DoneInv ==
  ASSUME StateOK, Inv, NEW i \in Ids, Done(i)
  PROVE  Inv'
BY SlotEndedInv, ConfigSavedInv, PipelineEndedInv, TrainedInv DEF Done
-----------------------------------------------------------------------------
(* The end of the loop. *)

LEMMA SettleInv ==
  ASSUME StateOK, Inv, Settle
  PROVE  Inv'
<1>1. \A j \in Ids : tasks[j] \in Follow /\ flow[j] \in Flow
  BY DEF StateOK
<1>2. phase = "settle" /\ phase' \in {"wait", "ended"} /\ (phase' = "wait" => leaving' # "none")
      /\ UNCHANGED <<slot, editing, start_after_save, notes, record, early>>
  BY DEF Settle
<1>3. \A j \in Dropped : j \in Ids /\ flow[j].at = "asked" /\ ~StartsLate(j)
  BY DEF Dropped, Asked
<1>4. \A j \in Ids \ Dropped : flow[j].at = "asked" => StartsLate(j)
  BY DEF Dropped, Asked
<1>5. \A j \in Dropped : flow'[j] = NoFlow /\ tasks'[j] = NoFollow
  <2> SUFFICES ASSUME NEW j \in Dropped  PROVE flow'[j] = NoFlow /\ tasks'[j] = NoFollow
    OBVIOUS
  <2>1. flow'[j] = NoFlow
    BY <1>3 DEF Settle
  <2>2. CASE flow[j].work = "start"
    <3>1. NoFollow.job = "none"
      BY DEF NoFollow, NewFollow
    <3> QED  BY <1>3, <2>1, <2>2, <3>1 DEF Settle
  <2>3. CASE flow[j].work # "start"
    <3>1. flow[j].work \notin Jobs
      BY <1>3, <2>3 DEF StartsLate
    <3>2. tasks[j].job = "none"
      <4>1. tasks[j].job # "none" => flow[j].work \in Jobs
        BY <1>1, <1>3 DEF Inv, TaskInv, Follow
      <4> QED  BY <3>1, <4>1
    <3>3. tasks[j] = NoFollow /\ j \notin Followers
      BY <1>3, <3>2 DEF Inv, TaskInv, Followers, Following
    <3> QED  BY <1>3, <2>1, <2>3, <3>3 DEF Settle
  <2> QED  BY <2>2, <2>3
<1>6. ASSUME NEW j \in Ids \ Dropped
      PROVE  /\ tasks'[j].job = tasks[j].job /\ tasks'[j].runpod = tasks[j].runpod
             /\ tasks'[j].run = tasks[j].run /\ tasks'[j].watching = tasks[j].watching
             /\ tasks'[j].cancel_after = tasks[j].cancel_after
             /\ tasks'[j].stop_after = tasks[j].stop_after
             /\ tasks[j].job = "none" => tasks'[j] = tasks[j]
  <2>1. \/ tasks'[j] = tasks[j]
        \/ j \in Followers /\ tasks'[j] \in {Detached(tasks[j]), [tasks[j] EXCEPT !.detach = "done"]}
    BY <1>6 DEF Settle
  <2>2. j \in Followers => tasks[j].job # "none"
    BY DEF Followers, Following
  <2> QED  BY <1>1, <2>1, <2>2, DetachedIs DEF Follow
<1>7. ASSUME NEW j \in Ids \ Dropped
      PROVE  /\ flow'[j].work = flow[j].work /\ flow'[j].run = flow[j].run
             /\ flow'[j].told = flow[j].told /\ flow'[j].result = flow[j].result
             /\ flow'[j].at = IF flow[j].at = "asked" THEN "begin" ELSE flow[j].at
             /\ flow'[j].cut => \/ flow[j].cut \/ flow'[j].abandon
                                \/ flow[j].told \/ flow[j].work # "start" \/ flow[j].at = "none"
             /\ flow[j].abandon => flow'[j].abandon
  <2> DEFINE late == {i \in Asked : StartsLate(i)}
             kept == [i \in Ids |-> IF i \in Dropped /\ flow[i].work = "start"
                                    THEN NoFollow ELSE tasks[i]]
             goes == {i \in Ids : Alive(i) \/ i \in late} # {}
             F == {i \in Followers : kept[i].job # "none"}
             S == Stopped({"pipeline", "push", "compare"})
             at == IF j \in late THEN "begin" ELSE flow[j].at
             a == \/ flow[j].abandon
                  \/ /\ goes
                     /\ \/ j \in Stopped({"compare"})
                        \/ j \in F /\ ~(leaving # "signal")
             c == \/ flow[j].cut
                  \/ /\ goes
                     /\ \/ j \in S
                        \/ j \in F /\ (CutNow(tasks[j]) \/ ~(leaving # "signal"))
  <2>1. flow'[j] = [flow[j] EXCEPT !.at = at, !.cut = c, !.abandon = a]
    BY <1>7 DEF Settle
  <2>2. /\ c \in BOOLEAN /\ a \in BOOLEAN
        /\ c => flow[j].cut \/ a \/ CutNow(tasks[j]) \/ j \in S
        /\ flow[j].abandon => a
    OBVIOUS
  <2>3. /\ at = IF flow[j].at = "asked" THEN "begin" ELSE flow[j].at
        /\ at \in {"none", "begin", "made", "launch", "watch", "over"}
    BY <1>1, <1>4, <1>7 DEF Asked, Flow
  <2>4. CutNow(tasks[j]) => flow[j].told
    BY CuttableIs
  <2>5. j \in S => flow[j].work # "start" \/ flow[j].at = "none" \/ flow[j].told
    BY CuttableIs DEF Cuttable
  <2> HIDE DEF at, a, c, S
  <2> QED  BY <1>1, <2>1, <2>2, <2>3, <2>4, <2>5 DEF Flow
<1>8. ASSUME NEW j \in Ids  PROVE TaskInv(j)'
  <2>1. CASE j \in Dropped
    BY <1>5, <2>1, GoneTask
  <2>2. CASE j \notin Dropped
    <3>1. TaskInv(j) /\ flow[j] \in Flow /\ tasks[j] \in Follow
      BY <1>1 DEF Inv
    <3>3. /\ tasks'[j].job = "none" => tasks'[j] = NoFollow
          /\ flow'[j].at = "none" => flow'[j].run = None /\ ~flow'[j].told
          /\ flow'[j].at # "none" /\ flow'[j].work \in Slots => slot'[flow'[j].work] = j
          /\ flow'[j].at # "none" /\ flow'[j].work \in Jobs => tasks'[j].job = flow'[j].work
          /\ tasks'[j].job # "none" => flow'[j].at # "none" /\ flow'[j].work = tasks'[j].job
          /\ flow'[j].at # "asked"
          /\ tasks'[j].run # None => tasks'[j].run = flow'[j].run
          /\ tasks'[j].watching => flow'[j].told
          /\ flow'[j].told => flow'[j].at \in {"watch", "over"}
      BY <1>2, <1>6, <1>7, <2>2, <3>1 DEF TaskInv
    <3>5. flow'[j].work = "start" /\ flow'[j].at \in {"asked", "begin"} => flow'[j].run = None
      BY <1>7, <2>2, <3>1 DEF TaskInv
    <3>6. flow'[j].work = "start" /\ flow'[j].at \in {"asked", "begin", "made", "launch"}
            /\ flow'[j].cut => flow'[j].abandon
      BY <1>7, <2>2, <3>1 DEF TaskInv
    <3>7. flow'[j].run # None =>
           /\ flow'[j].work \in Jobs
           /\ record'[flow'[j].run] # "absent"
           /\ flow'[j].run \notin early' /\ flow'[j].at = "over" /\ flow'[j].result = "left"
            => record'[flow'[j].run] = "running"
      BY <1>2, <1>7, <2>2, <3>1 DEF TaskInv
    <3> QED  BY <3>3, <3>5, <3>6, <3>7 DEF TaskInv
  <2> QED  BY <2>1, <2>2
<1>9. \A j \in Ids : /\ tasks'[j].job \in {"none", tasks[j].job}
                     /\ flow'[j].run \in {None, flow[j].run}
                     /\ Holds(j)' => Holds(j)
  <2>1. NoFollow.job = "none" /\ NoFlow.run = None
    BY DEF NoFollow, NewFollow, NoFlow
  <2>2. ASSUME NEW j \in Ids
        PROVE  /\ tasks'[j].job \in {"none", tasks[j].job}
               /\ flow'[j].run \in {None, flow[j].run}
    BY <1>5, <1>6, <1>7, <2>1
  <2>3. \A j \in Ids : Starting(tasks'[j]) => Starting(tasks[j])
    BY <1>5, <1>6, <2>1 DEF Starting
  <2> QED  BY <1>2, <2>2, <2>3 DEF Holds
<1>10. \A k \in {"edit", "save"} : slot[k] # 0 =>
         slot[k] \in Ids \ Dropped /\ flow[slot[k]].at # "none" /\ tasks[slot[k]].job = "none"
  <2> SUFFICES ASSUME NEW k \in {"edit", "save"}, slot[k] # 0
               PROVE  slot[k] \in Ids \ Dropped /\ flow[slot[k]].at # "none"
                      /\ tasks[slot[k]].job = "none"
    OBVIOUS
  <2>1. slot[k] \in Ids /\ flow[slot[k]].at # "none" /\ tasks[slot[k]].job = "none"
    BY DEF StateOK, Inv, SlotInv
  <2>2. flow[slot[k]].work \in Slots
    BY <1>1, <2>1 DEF Inv, TaskInv, Flow
  <2>3. flow[slot[k]].work = k
    BY <2>1, <2>2 DEF Inv, TaskInv, SlotInv
  <2> QED  BY <1>3, <2>1, <2>3 DEF StartsLate
<1>11. SlotInv'
  <2>1. \A k \in Slots : slot[k] # 0 => tasks'[slot[k]].job = "none"
    BY <1>9 DEF StateOK, Inv, SlotInv
  <2>2. \A k \in {"edit", "save"} : slot[k] # 0 => flow'[slot[k]].at # "none"
    BY <1>7, <1>10
  <2> QED  BY <1>2, <2>1, <2>2 DEF Inv, SlotInv
<1>12. LockInv'
  BY <1>2, <1>9 DEF Inv, LockInv, Suspended
<1>13. RunInv' /\ NoteInv'
  <2>1. RunInv'
    BY <1>2, <1>9 DEF Inv, RunInv
  <2>2. NoteInv'
    BY <1>2, <1>9, NotesStay
  <2> QED  BY <2>1, <2>2
<1>14. PhaseInv'
  <2> SUFFICES ASSUME phase' = "ended"
               PROVE  Following' = {} /\ slot["edit"] = 0 /\ slot["save"] = 0
    BY <1>2 DEF PhaseInv
  <2>1. \A j \in Ids : ~Alive(j) /\ (j \in Asked => ~StartsLate(j))
    BY DEF Settle
  <2>2. \A j \in Ids \ Dropped : flow[j].at = "none"
    BY <2>1 DEF Alive, Asked, Dropped
  <2>3. \A j \in Ids : tasks'[j].job = "none"
    <3>1. \A j \in Ids \ Dropped : tasks[j].job = "none"
      BY <2>2 DEF Inv, TaskInv
    <3>2. NoFollow.job = "none"
      BY DEF NoFollow, NewFollow
    <3> QED  BY <1>5, <1>6, <3>1, <3>2
  <2> QED  BY <1>10, <2>2, <2>3 DEF Following
<1> QED  BY <1>8, <1>11, <1>12, <1>13, <1>14 DEF Inv

LEMMA EndedInv ==
  ASSUME StateOK, Inv, Ended
  PROVE  Inv'
<1>1. UNCHANGED <<slot, tasks, flow, editing, start_after_save, notes, record, early>>
      /\ phase = "wait" /\ phase' = "ended" /\ \A j \in Ids : ~Alive(j)
  BY DEF Ended, appVars
<1>2. \A j \in Ids : flow[j].at = "none"
  BY <1>1 DEF Alive, Inv, TaskInv
<1>3. \A j \in Ids : TaskInv(j)'
  BY <1>1, <1>2 DEF Inv, TaskInv
<1>4. SlotInv' /\ RunInv' /\ NoteInv'
  BY <1>1 DEF Inv, SlotInv, RunInv, NoteInv
<1>5. LockInv'
  BY <1>1 DEF Inv, LockInv, Suspended, Holds
<1>6. PhaseInv'
  <2>1. \A k \in {"edit", "save"} : slot[k] = 0
    BY <1>2 DEF Inv, SlotInv, StateOK
  <2>2. Following = {}
    BY <1>2 DEF Following, Inv, TaskInv
  <2> QED  BY <1>1, <2>1, <2>2 DEF PhaseInv, Following
<1> QED  BY <1>3, <1>4, <1>5, <1>6 DEF Inv
-----------------------------------------------------------------------------
(* A step of a flow. *)

\* What the steps of flow i have in common.
Goes(i) ==
  /\ World
  /\ \A j \in Ids \ {i} : flow'[j] = flow[j]
  /\ flow[i].at \in {"begin", "made", "launch", "watch"}
  /\ flow'[i].at \in {"made", "launch", "watch", "over"}
  /\ flow'[i].work = flow[i].work
  /\ flow'[i].told => flow'[i].at \in {"watch", "over"}
  /\ flow[i].told => flow'[i].told
  /\ flow'[i].at \in {"made", "launch"} =>
       /\ flow[i].at \in {"begin", "made"}
       /\ flow'[i].cut = flow[i].cut /\ flow'[i].abandon = flow[i].abandon
  /\ \/ flow'[i].run = flow[i].run
     \/ /\ flow[i].work = "start" /\ flow[i].at = "begin"
        /\ flow'[i].run \in Runs /\ record[flow'[i].run] = "absent"
  /\ \A x \in Runs : x # flow'[i].run => record'[x] = record[x]
  /\ flow'[i].run # None =>
       /\ record'[flow'[i].run] # "absent"
       /\ flow'[i].at = "over" /\ flow'[i].result = "left" =>
            record'[flow'[i].run] = "running"

LEMMA GoesInv ==
  ASSUME StateOK, Inv, NEW i \in Ids, Goes(i)
  PROVE  Inv'
<1>1. UNCHANGED <<phase, leaving, slot, tasks, editing, start_after_save, notes, early>>
  BY DEF Goes, World, appVars
<1>2. flow[i] \in Flow /\ tasks[i] \in Follow /\ \A j \in Ids : flow[j].run \in Runs \cup {None}
  BY DEF StateOK, Flow
<1>3. TaskInv(i)'
  <2>1. TaskInv(i)
    BY DEF Inv
  <2>2. /\ tasks[i].job = "none" => tasks[i] = NoFollow
        /\ flow'[i].at \notin {"none", "asked"}
        /\ flow'[i].work \in Slots => slot[flow'[i].work] = i
        /\ flow'[i].work \in Jobs => tasks[i].job = flow'[i].work
        /\ tasks[i].job # "none" => flow'[i].work = tasks[i].job
        /\ tasks[i].watching => flow'[i].told
        /\ flow'[i].told => flow'[i].at \in {"watch", "over"}
    BY <2>1 DEF Goes, TaskInv
  <2>3. tasks[i].run # None => tasks[i].run = flow'[i].run
    BY <2>1 DEF Goes, TaskInv
  <2>4. flow'[i].work = "start" /\ flow'[i].at \in {"asked", "begin", "made", "launch"}
          /\ flow'[i].cut => flow'[i].abandon
    BY <2>1, <2>2 DEF Goes, TaskInv
  <2>5. flow'[i].run # None =>
           /\ flow'[i].work \in Jobs
           /\ record'[flow'[i].run] # "absent"
           /\ flow'[i].at = "over" /\ flow'[i].result = "left" => record'[flow'[i].run] = "running"
    BY <2>1 DEF Goes, TaskInv
  <2>7. flow'[i].at \notin {"asked", "begin"}
    BY DEF Goes
  <2> QED  BY <1>1, <2>2, <2>3, <2>4, <2>5, <2>7 DEF TaskInv
<1>4. \A j \in Ids \ {i} : flow[j].run \notin early \cup {None} => flow[j].run # flow'[i].run
  BY DEF Goes, Inv, RunInv, TaskInv
<1>5. ASSUME NEW j \in Ids \ {i}  PROVE TaskInv(j)'
  <2>1. /\ flow'[j] = flow[j]
        /\ flow[j].run # None =>
             /\ record'[flow[j].run] # "absent"
             /\ flow[j].run \notin early => record'[flow[j].run] = record[flow[j].run]
    BY <1>2, <1>4 DEF Goes, Inv, TaskInv
  <2>2. Same(j)
    BY <1>1, <2>1 DEF Same
  <2> QED  BY <2>2, SameTask DEF Inv
<1>6. SlotInv'
  <2>1. \A j \in Ids : flow[j].at # "none" => flow'[j].at # "none"
    BY DEF Goes
  <2>2. \A k \in {"edit", "save"} : slot[k] # 0 => flow'[slot[k]].at # "none"
    BY <2>1 DEF StateOK, Inv, SlotInv
  <2> QED  BY <1>1, <2>2 DEF Inv, SlotInv
<1>7. LockInv' /\ PhaseInv'
  BY <1>1 DEF Inv, LockInv, Suspended, Holds, PhaseInv, Following
<1>8. RunInv'
  BY <1>1, <1>4 DEF Goes, Inv, RunInv
<1>9. NoteInv'
  <2> SUFFICES ASSUME NEW n \in notes
               PROVE  /\ record'[n[1]] # "absent"
                      /\ n[1] \notin early =>
                           /\ \A j \in Ids : flow'[j].run # n[1]
                           /\ n[2] = "left" => record'[n[1]] = "running"
    BY <1>1 DEF NoteInv
  <2>1. /\ n[1] \in Runs /\ record[n[1]] # "absent"
        /\ n[1] \notin early => /\ n[2] = "left" => record[n[1]] = "running"
                                /\ \A j \in Ids : flow[j].run # n[1]
    BY DEF StateOK, Inv, NoteInv
  <2>2. n[1] \notin early => flow'[i].run # n[1]
    BY <2>1 DEF Goes
  <2>3. record'[n[1]] # "absent"
    BY <2>1, NoneAssumption DEF Goes
  <2> QED  BY <2>1, <2>2, <2>3 DEF Goes
<1> QED  BY <1>3, <1>5, <1>6, <1>7, <1>8, <1>9 DEF Inv

\* What a flow that goes to at, with result, writes: its run's record.
Recorded(i, at, result) ==
  /\ \A x \in Runs : x # flow[i].run => record'[x] = record[x]
  /\ flow[i].run # None =>
       /\ record'[flow[i].run] # "absent"
       /\ at = "over" /\ result = "left" => record'[flow[i].run] = "running"

LEMMA FlowGoes ==
  ASSUME StateOK, Inv, NEW i \in Ids, FlowStep(i)
  PROVE  Goes(i)
<1>1. flow[i] \in Flow /\ TaskInv(i) /\ flow[i].run \in Runs \cup {None}
      /\ record \in [Runs -> {"absent", "preparing", "running", "over"}]
  BY DEF StateOK, Inv, Flow
<1>2. ASSUME NEW at \in {"watch", "launch", "over"}, NEW result \in {"ok", "left", "failed"},
             To(i, at, result), World,
             flow[i].at \in {"begin", "made", "launch", "watch"},
             at = "launch" => flow[i].at = "made",
             Recorded(i, at, result)
      PROVE  Goes(i)
  <2>1. /\ \A j \in Ids : j # i => flow'[j] = flow[j]
        /\ flow'[i].work = flow[i].work /\ flow'[i].run = flow[i].run
        /\ flow'[i].told = flow[i].told
        /\ flow'[i].at = at /\ flow'[i].result = result
        /\ at # "over" => flow'[i].cut = flow[i].cut /\ flow'[i].abandon = flow[i].abandon
    BY <1>2, ToIs DEF StateOK
  <2>2. flow[i].told => at \in {"watch", "over"}
    BY <1>1, <1>2 DEF TaskInv
  <2> QED  BY <1>2, <2>1, <2>2 DEF Goes, Recorded
<1>3. flow[i].run # None => flow[i].run \in Runs /\ record[flow[i].run] # "absent"
                            /\ flow[i].work \in Jobs
  BY <1>1 DEF TaskInv
<1>4. CASE WorkEnds(i)
  <2>1. PICK result \in {"ok", "failed"} : To(i, "over", result)
    BY <1>4 DEF WorkEnds
  <2>2. World /\ flow[i].at = "begin" /\ Recorded(i, "over", result)
    BY <1>3, <1>4 DEF WorkEnds, Recorded
  <2> QED  BY <1>2, <2>1, <2>2
<1>5. CASE Create(i)
  <2>1. PICK r \in Runs :
          /\ record[r] = "absent"
          /\ record' = [record EXCEPT ![r] = "preparing"]
          /\ flow' = [flow EXCEPT ![i] = [flow[i] EXCEPT !.at = "made", !.run = r]]
    BY <1>5 DEF Create, StateOK
  <2> DEFINE f == [flow[i] EXCEPT !.at = "made", !.run = r]
  <2>2. /\ f.at = "made" /\ f.run = r /\ f.work = flow[i].work /\ f.told = flow[i].told
        /\ f.cut = flow[i].cut /\ f.abandon = flow[i].abandon
    BY <1>1 DEF Flow
  <2>3. flow'[i] = f /\ \A j \in Ids \ {i} : flow'[j] = flow[j]
    BY <2>1 DEF StateOK
  <2> HIDE DEF f
  <2>4. ~flow[i].told /\ flow[i].at = "begin" /\ flow[i].work = "start" /\ World
    BY <1>1, <1>5 DEF Create, TaskInv
  <2>5. record'[r] = "preparing" /\ \A x \in Runs : x # r => record'[x] = record[x]
    BY <1>1, <2>1
  <2>6. /\ flow'[i].at = "made" /\ ~flow'[i].told /\ flow'[i].run = r
        /\ flow'[i].work = "start"
        /\ flow'[i].cut = flow[i].cut /\ flow'[i].abandon = flow[i].abandon
    BY <2>2, <2>3, <2>4
  <2>7. World /\ \A j \in Ids \ {i} : flow'[j] = flow[j]
    BY <2>3, <2>4
  <2>8. flow'[i].run \in Runs /\ record[flow'[i].run] = "absent" /\ record'[flow'[i].run] # "absent"
        /\ \A x \in Runs : x # flow'[i].run => record'[x] = record[x]
    BY <2>1, <2>5, <2>6
  <2> QED  BY <2>4, <2>6, <2>7, <2>8 DEF Goes
<1>6. CASE Provisioned(i)
  <2>1. CASE To(i, "over", "failed") /\ record' = [record EXCEPT ![flow[i].run] = "over"]
    <3>1. World /\ flow[i].at = "made" /\ Recorded(i, "over", "failed")
      BY <1>1, <1>3, <1>6, <2>1 DEF Provisioned, Recorded
    <3> QED  BY <1>2, <2>1, <3>1
  <2>2. CASE To(i, "launch", "ok") /\ record' = record
    <3>1. World /\ flow[i].at = "made" /\ Recorded(i, "launch", "ok")
      BY <1>3, <1>6, <2>2 DEF Provisioned, Recorded
    <3> QED  BY <1>2, <2>2, <3>1
  <2> QED  BY <1>6, <2>1, <2>2 DEF Provisioned
<1>7. CASE Launched(i)
  <2>1. /\ World /\ flow[i].at = "launch"
        /\ Recorded(i, "over", "left") /\ Recorded(i, "watch", "ok")
    BY <1>1, <1>3, <1>7 DEF Launched, Recorded
  <2>2. To(i, "over", "left") \/ To(i, "watch", "ok")
    BY <1>7 DEF Launched
  <2> QED  BY <1>2, <2>1, <2>2
<1>8. CASE StartFails(i)
  <2>1. /\ World /\ flow[i].at \in {"begin", "made", "launch"}
        /\ To(i, "over", "failed") /\ Recorded(i, "over", "failed")
    BY <1>3, <1>8 DEF StartFails, Recorded
  <2> QED  BY <1>2, <2>1
<1>9. CASE Reached(i)
  <2>1. /\ World /\ flow[i].at = "begin" /\ record' = record
        /\ \/ To(i, "watch", "ok")
           \/ To(i, "over", "left") /\ record[flow[i].run] = "running"
           \/ To(i, "over", "ok")
           \/ To(i, "over", "failed")
    BY <1>9 DEF Reached
  <2>2. /\ Recorded(i, "watch", "ok") /\ Recorded(i, "over", "ok")
        /\ Recorded(i, "over", "failed")
        /\ record[flow[i].run] = "running" => Recorded(i, "over", "left")
    BY <1>3, <2>1 DEF Recorded
  <2> QED  BY <1>2, <2>1, <2>2
<1>10. CASE JobStatus(i)
  <2>1. flow' = [flow EXCEPT ![i] = [flow[i] EXCEPT !.told = TRUE]]
        /\ World /\ record' = record /\ flow[i].at = "watch"
    BY <1>10 DEF JobStatus, StateOK
  <2> DEFINE f == [flow[i] EXCEPT !.told = TRUE]
  <2>2. /\ f.at = "watch" /\ f.run = flow[i].run /\ f.work = flow[i].work /\ f.told
        /\ f.result = flow[i].result
    BY <1>1, <2>1 DEF Flow
  <2>3. flow'[i] = f /\ \A j \in Ids \ {i} : flow'[j] = flow[j]
    BY <2>1 DEF StateOK
  <2> HIDE DEF f
  <2>4. /\ flow'[i].at = "watch" /\ flow'[i].run = flow[i].run /\ flow'[i].work = flow[i].work
        /\ flow'[i].told
    BY <2>2, <2>3
  <2>5. World /\ flow[i].at = "watch" /\ \A j \in Ids \ {i} : flow'[j] = flow[j]
    BY <2>1, <2>3
  <2>6. flow'[i].run # None => record'[flow'[i].run] # "absent"
    BY <1>3, <2>1, <2>4
  <2>7. \A r \in Runs : record'[r] = record[r]
    BY <2>1
  <2> QED  BY <2>4, <2>5, <2>6, <2>7 DEF Goes
<1>11. CASE WatchStops(i) \/ (CancelEnds(i) /\ record' = record)
  <2> DEFINE result == LeftAs(flow[i].run)
  <2>1. /\ World /\ flow[i].at \in {"begin", "watch"} /\ record' = record
        /\ \/ To(i, "over", result)
           \/ To(i, "over", "ok")
    BY <1>11 DEF WatchStops, CancelEnds
  <2>2. /\ result \in {"left", "failed"}
        /\ result = "left" => flow[i].run # None /\ record[flow[i].run] = "running"
    BY DEF LeftAs
  <2> HIDE DEF result
  <2>3. Recorded(i, "over", result) /\ Recorded(i, "over", "ok")
    BY <1>3, <2>1, <2>2 DEF Recorded
  <2> QED  BY <1>2, <2>1, <2>2, <2>3
<1>12. CASE \/ JobEnds(i)
            \/ CancelEnds(i) /\ record' = [record EXCEPT ![flow[i].run] = "over"]
                             /\ To(i, "over", "ok")
  <2>1. /\ World /\ flow[i].at \in {"begin", "watch"} /\ To(i, "over", "ok")
        /\ Recorded(i, "over", "ok")
    BY <1>1, <1>3, <1>12 DEF JobEnds, CancelEnds, Recorded
  <2> QED  BY <1>2, <2>1
<1>13. CASE CancelEnds(i)
  BY <1>11, <1>12, <1>13 DEF CancelEnds
<1> QED  BY <1>4, <1>5, <1>6, <1>7, <1>8, <1>9, <1>10, <1>11, <1>12, <1>13 DEF FlowStep
-----------------------------------------------------------------------------
(* The invariant holds, and what follows from it. *)

LEMMA InitInv == Init => Inv
<1> SUFFICES ASSUME Init  PROVE Inv
  OBVIOUS
<1>1. \A j \in Ids : /\ tasks[j] = NoFollow /\ tasks[j].job = "none" /\ tasks[j].run = None
                     /\ ~tasks[j].watching /\ ~Starting(tasks[j])
                     /\ flow[j].at = "none" /\ flow[j].run = None /\ ~flow[j].told
  BY DEF Init, NoFollow, NewFollow, NoFlow, Starting
<1>2. /\ \A k \in Slots : slot[k] = 0
      /\ phase = "loop" /\ editing = FALSE /\ start_after_save = "none" /\ notes = {}
  BY DEF Init
<1>3. \A j \in Ids : TaskInv(j)
  BY <1>1 DEF TaskInv
<1>4. SlotInv /\ PhaseInv /\ RunInv /\ NoteInv
  BY <1>1, <1>2 DEF SlotInv, PhaseInv, RunInv, NoteInv
<1>5. LockInv
  BY <1>1, <1>2, IdsAssumption DEF LockInv, Holds
<1> QED  BY <1>3, <1>4, <1>5 DEF Inv

LEMMA InvStep == StateOK /\ Inv /\ [Next]_allVars => Inv'
<1> SUFFICES ASSUME StateOK, Inv, [Next]_allVars  PROVE Inv'
  OBVIOUS
<1>1. CASE UserStep
  BY <1>1, UserInv
<1>2. CASE LoopStep
  <2>1. CASE EditorExit
    BY <2>1, SlotKeyInv
  <2>2. CASE OnSignal
    BY <2>2, QuitInv
  <2>3. CASE TerminalGone \/ \E i \in Ids : OnMessage(i)
    BY <2>3, MessageInv
  <2>4. CASE Settle
    BY <2>4, SettleInv
  <2>5. CASE Ended
    BY <2>5, EndedInv
  <2>6. CASE \E i \in Ids : Done(i)
    BY <2>6, DoneInv
  <2> QED  BY <1>2, <2>1, <2>2, <2>3, <2>4, <2>5, <2>6 DEF LoopStep
<1>3. CASE \E i \in Ids : FlowStep(i)
  BY <1>3, FlowGoes, GoesInv
<1>4. CASE UNCHANGED allVars
  <2>1. UNCHANGED <<phase, leaving, slot, tasks, editing, start_after_save, notes, flow, record, early>>
    BY <1>4 DEF allVars, vars
  <2> QED  BY <2>1 DEF Inv, TaskInv, SlotInv, LockInv, Suspended, Holds, RunInv, NoteInv,
                       PhaseInv, Following
<1> QED  BY <1>1, <1>2, <1>3, <1>4 DEF Next

LEMMA Invariants == Spec => [](StateOK /\ Inv)
<1>1. Init => StateOK /\ Inv
  BY InitType, InitInv
<1>2. StateOK /\ Inv /\ [Next]_allVars => StateOK' /\ Inv'
  BY TypeStep, InvStep
<1> QED  BY <1>1, <1>2, PTL DEF Spec

\* A task that works on the dataset holds the lock.
LEMMA WriterHolds ==
  ASSUME StateOK, Inv, NEW i \in Ids, Writes(i)
  PROVE  Holds(i)
<1>1. TaskInv(i)
  BY DEF Inv
<1>2. CASE flow[i].work \in {"pipeline", "edit"} /\ flow[i].at = "begin"
  BY <1>1, <1>2 DEF TaskInv, Holds
<1>3. CASE flow[i].work = "start" /\ flow[i].at \in {"begin", "made", "launch"}
  <2>1. tasks[i].job = "start" /\ ~tasks[i].watching
    BY <1>1, <1>3 DEF TaskInv
  <2> QED  BY <2>1 DEF Holds, Starting
<1> QED  BY <1>2, <1>3 DEF Writes

\* app.rs lock, follow.rs: at most one task works on the dataset, and at most
\* one flow on a run that was not taken up early, whatever the keys, signals and
\* ends of tasks.
THEOREM UOneAtATime == Spec => []OneAtATime
<1>1. ASSUME StateOK, Inv  PROVE OneAtATime
  <2>1. OneWriter
    BY <1>1, WriterHolds DEF OneWriter, Inv, LockInv
  <2>2. OneFlowPerRun
    BY <1>1 DEF OneFlowPerRun, Inv, RunInv
  <2> QED  BY <2>1, <2>2 DEF OneAtATime
<1> QED  BY <1>1, Invariants, PTL

\* follow.rs: the token of a start is cancelled before its job started only
\* when the start is abandoned.
THEOREM UStartNeverCut == Spec => []StartNeverCut
<1>1. ASSUME StateOK, Inv  PROVE StartNeverCut
  BY <1>1 DEF StartNeverCut, Inv, TaskInv
<1> QED  BY <1>1, Invariants, PTL

\* What the app follows runs, what it edits or saves is done when the program
\* ends, and an exit note tells the truth of its run, unless it was taken up early.
THEOREM UAccounted == Spec => []Accounted
<1>1. ASSUME StateOK, Inv  PROVE Accounted
  <2>1. NothingForgotten
    BY <1>1 DEF NothingForgotten, Inv, TaskInv, PhaseInv, Alive, Following
  <2>2. ASSUME NEW n \in notes, n[1] \notin early  PROVE TaskOf(n[1]) = {}
    <3> SUFFICES ASSUME NEW i \in Following, tasks[i].run = n[1]  PROVE FALSE
      BY DEF TaskOf
    <3>1. i \in Ids /\ n[1] # None
      BY <1>1, NoneAssumption DEF Following, StateOK
    <3> QED  BY <1>1, <2>2, <3>1 DEF Inv, TaskInv, NoteInv
  <2>3. NotesHold
    BY <1>1, <2>2 DEF NotesHold, Inv, NoteInv
  <2> QED  BY <2>1, <2>3 DEF Accounted
<1> QED  BY <1>1, Invariants, PTL
-----------------------------------------------------------------------------
(* A cancel that waits for a task is kept, or becomes a cancel, or is noted, *)
(* or the user drops it with the start it waits for.                         *)

\* What becomes of task i, followed on run r, with a cancel that waits for it.
StillPending(i, r) ==
  tasks'[i].job # "none" /\ tasks'[i].run = r /\ tasks'[i].cancel_after
Answered(i, r) ==
  \/ StillPending(i, r)
  \/ tasks'[i].job = "cancel" /\ tasks'[i].run = r
  \/ leaving = "signal" /\ <<r, "not_cancelled">> \in notes'
  \/ Abandoned(i)

LEMMA PendingUser ==
  ASSUME StateOK, Inv, UserStep, NEW r \in Runs, NEW i \in TaskOf(r), tasks[i].cancel_after
  PROVE  StillPending(i, r) \/ Abandoned(i)
<1>1. i \in Ids /\ tasks[i].job # "none" /\ tasks[i].run = r /\ tasks[i] \in Follow
  BY DEF TaskOf, Following, StateOK
<1>2. CASE UNCHANGED tasks
  BY <1>1, <1>2 DEF StillPending
<1>3. ASSUME Free # {}, NEW f, tasks' = [tasks EXCEPT ![NewId] = f]
      PROVE  StillPending(i, r)
  <2>1. NewId # i
    BY <1>1, <1>3, NewIdIs, FreeIs
  <2> QED  BY <1>1, <1>3, <2>1 DEF StillPending, StateOK
<1>4. ASSUME NEW j \in Following, NEW f \in Follow, DetachTask(j, f),
             f.job = tasks[j].job, f.run = tasks[j].run,
             tasks[j].cancel_after => f.cancel_after
      PROVE  StillPending(i, r)
  <2>1. tasks'[i] = IF i = j THEN Detached(f) ELSE tasks[i]
    BY <1>1, <1>4 DEF DetachTask, StateOK
  <2> QED  BY <1>1, <1>4, <2>1, DetachedIs DEF StillPending
<1>5. ASSUME NEW x \in Runs, AttachSelected(x) \/ CancelRun(x) \/ StopRun(x)
      PROVE  StillPending(i, r)
  <2>1. CASE \E job \in Jobs : Train(job, x)
    BY <1>3, <2>1 DEF Train
  <2>2. ASSUME NEW j \in TaskOf(x),
               \/ DetachTask(j, [tasks[j] EXCEPT !.cancel_after = TRUE])
               \/ DetachTask(j, [tasks[j] EXCEPT !.stop_after = TRUE])
        PROVE  StillPending(i, r)
    <3> DEFINE c == [tasks[j] EXCEPT !.cancel_after = TRUE]
               s == [tasks[j] EXCEPT !.stop_after = TRUE]
    <3>1. j \in Following /\ tasks[j] \in Follow
      BY DEF TaskOf, Following, StateOK
    <3>2. /\ c \in Follow /\ c.job = tasks[j].job /\ c.run = tasks[j].run /\ c.cancel_after
          /\ s \in Follow /\ s.job = tasks[j].job /\ s.run = tasks[j].run
          /\ s.cancel_after = tasks[j].cancel_after
      BY <3>1 DEF Follow
    <3>3. DetachTask(j, c) \/ DetachTask(j, s)
      BY <2>2
    <3> HIDE DEF c, s
    <3> QED  BY <1>4, <3>1, <3>2, <3>3
  <2> QED  BY <1>5, <2>1, <2>2 DEF AttachSelected, CancelRun, StopRun
<1>6. ASSUME NEW S \in SUBSET Ids, Abandon(S)  PROVE StillPending(i, r) \/ Abandoned(i)
  <2>1. CASE i \notin S
    BY <1>1, <1>6, <2>1 DEF Abandon, StillPending
  <2>2. CASE i \in S
    <3>1. Starting(tasks[i]) /\ tasks[i].runpod /\ tasks[i].detach # "done"
      BY <1>6, <2>2 DEF Abandon, Abandons
    <3>2. tasks'[i].detach = "done"
      BY <1>1, <1>6, <2>2 DEF Abandon, Follow
    <3>3. flow[i].at # "over" => flow'[i].abandon
      BY <1>1, <1>6, <2>2, CutIs DEF Abandon, StateOK
    <3> QED  BY <3>1, <3>2, <3>3 DEF Abandoned
  <2> QED  BY <2>1, <2>2
<1>7. CASE Leave("quit")
  <2>1. tasks'[i] \in {tasks[i], Detached(tasks[i]), [tasks[i] EXCEPT !.detach = "done"]}
    BY <1>1, <1>7 DEF Leave, AbandonAll, DetachAll
  <2> QED  BY <1>1, <2>1, DetachedIs DEF StillPending, Follow
<1>8. CASE Stay
  BY <1>1, <1>8 DEF Stay, KeepFollowing, StillPending, Follow
<1>9. CASE \/ RunPipeline \/ CancelAuto \/ EditSelected \/ Delete \/ SpawnWrite
           \/ \E how \in {"start", "resume"} : ConfirmStart(how)
           \/ \E k \in Others : Confirm(k)
           \/ CancelCompare
  BY <1>2, <1>9 DEF RunPipeline, CancelAuto, EditSelected, Delete, SpawnWrite, ConfirmStart,
     Confirm, CancelCompare, InSlot, appVars
<1>10. ASSUME NEW how \in {"start", "resume"}, NEW rp \in BOOLEAN, StartRun(how, rp)
       PROVE  StillPending(i, r)
  BY <1>3, <1>10 DEF StartRun
<1>11. CASE Quit
  BY <1>2, <1>7, <1>11 DEF Quit
<1> QED  BY <1>5, <1>6, <1>8, <1>9, <1>10, <1>11 DEF UserStep

LEMMA PendingLoop ==
  ASSUME StateOK, Inv, LoopStep, NEW r \in Runs, NEW i \in TaskOf(r), tasks[i].cancel_after
  PROVE  Answered(i, r)
<1>1. i \in Ids /\ tasks[i].job # "none" /\ tasks[i].run = r /\ tasks[i] \in Follow
      /\ flow[i].run = r /\ r # None /\ i \in Following
  BY NoneAssumption DEF TaskOf, Following, StateOK, Inv, TaskInv
<1>2. CASE UNCHANGED tasks
  BY <1>1, <1>2 DEF Answered, StillPending
<1>3. CASE tasks'[i] = Heard(i)
  BY <1>1, <1>3, HeardIs DEF Answered, StillPending, StateOK
<1>4. Drained[i] = Heard(i)
  BY <1>1 DEF Drained
<1>5. CASE EditorExit \/ Ended
  BY <1>2, <1>5 DEF EditorExit, Ended, InSlot, appVars
<1>6. CASE OnSignal
  <2>1. tasks'[i] \in {tasks[i], Detached(tasks[i]), [tasks[i] EXCEPT !.detach = "done"]}
    BY <1>1, <1>6 DEF OnSignal, Leave, AbandonAll, DetachAll
  <2> QED  BY <1>1, <2>1, DetachedIs DEF Answered, StillPending, Follow
<1>7. CASE TerminalGone
  BY <1>2, <1>3, <1>4, <1>7 DEF TerminalGone
<1>8. ASSUME NEW j \in Ids, OnMessage(j)  PROVE Answered(i, r)
  <2>1. tasks'[i] = IF i = j THEN Heard(i) ELSE tasks[i]
    BY <1>1, <1>8 DEF OnMessage, StateOK
  <2> QED  BY <1>1, <1>3, <2>1 DEF Answered, StillPending
<1>9. CASE Settle
  <2>1. i \notin Dropped \/ flow[i].work # "start"
    <3>1. flow[i].at = "asked" /\ flow[i].work = "start" => flow[i].run = None
      BY <1>1 DEF Inv, TaskInv
    <3> QED  BY <1>1, <3>1 DEF Dropped, Asked
  <2>2. tasks'[i] \in {tasks[i], Detached(tasks[i]), [tasks[i] EXCEPT !.detach = "done"]}
    BY <1>1, <1>9, <2>1 DEF Settle
  <2> QED  BY <1>1, <2>2, DetachedIs DEF Answered, StillPending, Follow
<1>10. ASSUME NEW j \in Ids, Done(j)  PROVE Answered(i, r)
  <2>1. NoFollow.job = "none"
    BY DEF NoFollow, NewFollow
  <2>2. ASSUME NEW k \in Slots, slot[k] = j  PROVE i # j
    BY <1>1, <2>1, <2>2, InASlot
  <2>3. Drained \in [Ids -> Follow]
    BY DrainedIs
  <2>4. CASE PipelineEnded(j)
    <3>1. i # j
      BY <2>2, <2>4 DEF PipelineEnded
    <3>2. tasks'[i] = Drained[i]
      BY <1>1, <2>3, <2>4, <3>1 DEF PipelineEnded
    <3> QED  BY <1>3, <1>4, <3>2
  <2>5. CASE ConfigSaved(j)
    <3>1. i # j
      BY <2>2, <2>5 DEF ConfigSaved
    <3>2. tasks'[i] = Drained[i]
      BY <1>1, <2>3, <2>5, <3>1 DEF ConfigSaved
    <3> QED  BY <1>3, <1>4, <3>2
  <2>6. CASE EditEnded(j) \/ \E k \in {"push", "compare"} : OtherEnded(k, j)
    BY <1>3, <1>4, <2>6 DEF EditEnded, OtherEnded
  <2>7. CASE Trained(j)
    <3>1. PICK f \in {Heard(j)} :
          /\ tasks' = [Drained EXCEPT ![j] =
                          IF NextJob(f) = "none" THEN NoFollow
                          ELSE NewFollow(NextJob(f), FALSE, f.run)]
          /\ notes' = IF NextJob(f) = "none"
                      THEN notes \cup EndNotes(f, flow[j].result)
                      ELSE Forgotten(notes \cup EndNotes(f, flow[j].result), f.run)
      BY <2>7 DEF Trained
    <3>2. CASE i # j
      <4>1. tasks'[i] = Drained[i]
        BY <1>1, <2>3, <3>1, <3>2
      <4> QED  BY <1>3, <1>4, <4>1
    <3>3. CASE i = j
      <4>1. f.run = r /\ f.cancel_after
        BY <1>1, <3>1, <3>3, HeardIs DEF StateOK
      <4>2. CASE leaving # "signal"
        <5>1. NextJob(f) = "cancel"
          BY <1>1, <4>1, <4>2 DEF NextJob
        <5>2. tasks'[i] = NewFollow("cancel", FALSE, r)
          BY <1>1, <2>3, <3>1, <3>3, <4>1, <5>1
        <5>3. tasks'[i].job = "cancel" /\ tasks'[i].run = r
          BY <5>2 DEF NewFollow
        <5> QED  BY <5>3 DEF Answered
      <4>3. CASE leaving = "signal"
        <5>1. NextJob(f) = "none"
          BY <4>1, <4>3 DEF NextJob
        <5>2. <<r, "not_cancelled">> \in EndNotes(f, flow[j].result)
          BY <1>1, <4>1, <4>3, <5>1 DEF EndNotes
        <5> QED  BY <3>1, <4>3, <5>1, <5>2 DEF Answered
      <4> QED  BY <4>2, <4>3
    <3> QED  BY <3>2, <3>3
  <2> QED  BY <1>10, <2>4, <2>5, <2>6, <2>7 DEF Done
<1> QED  BY <1>5, <1>6, <1>7, <1>8, <1>9, <1>10 DEF LoopStep

\* follow.rs: a cancel confirmed while a task follows the run is never lost:
\* it runs once the task detached, or, once a signal came, is noted on exit, or
\* the user drops it by abandoning the start it waits for.
THEOREM UCancelKept == Spec => CancelKept
<1> DEFINE Kept == \A r \in Runs :
                     Pending(r) /\ ~Pending(r)' =>
                       \/ CancelRuns(r)'
                       \/ leaving = "signal" /\ <<r, "not_cancelled">> \in notes'
                       \/ \E i \in TaskOf(r) : Abandoned(i)
<1>1. ASSUME StateOK, Inv, [Next]_allVars  PROVE [Kept]_vars
  <2> SUFFICES ASSUME Next, NEW r \in Runs, Pending(r), ~Pending(r)'
               PROVE  \/ CancelRuns(r)'
                      \/ leaving = "signal" /\ <<r, "not_cancelled">> \in notes'
                      \/ \E i \in TaskOf(r) : Abandoned(i)
    BY <1>1 DEF allVars
  <2>1. PICK i \in TaskOf(r) : tasks[i].cancel_after
    BY DEF Pending
  <2>2. i \in Ids /\ tasks[i].job # "none" /\ tasks[i].run = r
    BY DEF TaskOf, Following
  <2>3. Answered(i, r)
    <3>1. CASE UserStep
      BY <1>1, <2>1, <3>1, PendingUser DEF Answered
    <3>2. CASE LoopStep
      BY <1>1, <2>1, <3>2, PendingLoop
    <3>3. CASE \E j \in Ids : FlowStep(j)
      <4>1. UNCHANGED tasks
        BY <3>3 DEF FlowStep, World, appVars, WorkEnds, Create, Provisioned, Launched, StartFails,
           Reached, JobStatus, WatchStops, JobEnds, CancelEnds
      <4> QED  BY <2>1, <2>2, <4>1 DEF Answered, StillPending
    <3> QED  BY <3>1, <3>2, <3>3 DEF Next
  <2>4. ~StillPending(i, r)
    BY <2>2 DEF StillPending, Pending, TaskOf, Following
  <2>5. tasks'[i].job = "cancel" /\ tasks'[i].run = r => CancelRuns(r)'
    BY <2>2 DEF CancelRuns, TaskOf, Following
  <2> QED  BY <2>1, <2>3, <2>4, <2>5 DEF Answered
<1> QED  BY <1>1, Invariants, PTL DEF Spec, CancelKept
-----------------------------------------------------------------------------
(* Nothing new starts while the app leaves. *)

\* A task may start: the app stays; a cancel, while it quits; a save of an edit.
MayStart(i) ==
  \/ leaving = "none"
  \/ leaving = "quit" /\ flow'[i].work = "cancel"
  \/ editing /\ flow'[i].work = "edit"
Allowed == \A i \in Ids : Starts(i) => MayStart(i)
SignalStays == leaving = "signal" => leaving' = "signal"

LEMMA CutAllowed ==
  ASSUME StateOK, \/ UNCHANGED flow
                 \/ \E S, A : flow' = Cut(S, A)
  PROVE  Allowed
<1>1. \A i \in Ids : flow'[i].at = flow[i].at
  BY CutIs DEF StateOK
<1> QED  BY <1>1 DEF Allowed, Starts

LEMMA StaysAllowed ==
  ASSUME leaving = "none"
  PROVE  Allowed /\ SignalStays
BY DEF Allowed, MayStart, SignalStays

LEMMA NewUser ==
  ASSUME StateOK, UserStep
  PROVE  Allowed /\ SignalStays
<1>1. CASE \/ RunPipeline \/ Delete \/ SpawnWrite \/ EditSelected \/ Quit
           \/ \E how \in {"start", "resume"} :
                ConfirmStart(how) \/ \E rp \in BOOLEAN : StartRun(how, rp)
           \/ \E k \in Others : Confirm(k)
           \/ \E r \in Runs : AttachSelected(r) \/ StopRun(r)
  <2>1. leaving = "none"
    BY <1>1 DEF RunPipeline, Delete, SpawnWrite, EditSelected, Quit, ConfirmStart, StartRun,
       Confirm, AttachSelected, StopRun, Refused
  <2> QED  BY <2>1, StaysAllowed
<1>2. CASE \/ \E S \in SUBSET Ids : Abandon(S)
           \/ CancelAuto \/ CancelCompare
  <2>1. Allowed
    BY <1>2, CutAllowed DEF Abandon, CancelAuto, CancelCompare
  <2>2. SignalStays
    BY <1>2 DEF Abandon, CancelAuto, CancelCompare, SignalStays, appVars
  <2> QED  BY <2>1, <2>2
<1>3. CASE Stay
  BY <1>3, CutAllowed DEF Stay, SignalStays
<1>4. ASSUME NEW r \in Runs, CancelRun(r)  PROVE Allowed /\ SignalStays
  <2>1. CASE Train("cancel", r)
    <3>1. /\ leaving # "signal"
          /\ NewId \in Ids
          /\ flow' = [flow EXCEPT ![NewId] = Spawned("cancel", r, FALSE, FALSE)]
      BY <1>4, <2>1, NewIdIs, FreeIs DEF CancelRun, Train
    <3>2. Spawned("cancel", r, FALSE, FALSE).work = "cancel"
      BY DEF Spawned, NoFlow
    <3>3. leaving \in {"none", "quit"}
      BY <3>1 DEF StateOK
    <3>4. \A i \in Ids : i # NewId => flow'[i] = flow[i]
      BY <3>1 DEF StateOK
    <3>5. flow'[NewId].work = "cancel"
      BY <3>1, <3>2 DEF StateOK
    <3> QED  BY <3>1, <3>3, <3>4, <3>5 DEF Allowed, Starts, MayStart, SignalStays
  <2>2. CASE \E i \in Ids : DetachTask(i, [tasks[i] EXCEPT !.cancel_after = TRUE])
    BY <2>2, CutAllowed DEF DetachTask, SignalStays
  <2> QED  BY <1>4, <2>1, <2>2 DEF CancelRun, TaskOf, Following
<1> QED  BY <1>1, <1>2, <1>3, <1>4 DEF UserStep

LEMMA NewLoop ==
  ASSUME StateOK, Inv, LoopStep
  PROVE  Allowed /\ SignalStays
<1>1. CASE OnSignal
  <2>1. Allowed
    BY <1>1, CutAllowed DEF OnSignal, LeaveCuts
  <2> QED  BY <1>1, <2>1 DEF OnSignal, Leave, SignalStays
<1>2. CASE TerminalGone \/ Ended \/ \E i \in Ids : OnMessage(i)
  <2>1. Allowed
    BY <1>2, CutAllowed DEF TerminalGone, Ended, OnMessage
  <2> QED  BY <1>2, <2>1 DEF TerminalGone, Ended, OnMessage, appVars, SignalStays
<1>3. CASE EditorExit
  <2>1. CASE UNCHANGED flow
    BY <1>3, <2>1, CutAllowed DEF EditorExit, InSlot, appVars, SignalStays
  <2>2. CASE InSlot("edit")
    <3>1. /\ NewId \in Ids
          /\ flow' = [flow EXCEPT ![NewId] = Spawned("edit", None, FALSE, FALSE)]
          /\ editing /\ leaving' = leaving
      BY <1>3, <2>2, NewIdIs, FreeIs DEF InSlot, EditorExit, Suspended
    <3>2. Spawned("edit", None, FALSE, FALSE).work = "edit"
      BY DEF Spawned, NoFlow
    <3>3. \A i \in Ids : i # NewId => flow'[i] = flow[i]
      BY <3>1 DEF StateOK
    <3>4. flow'[NewId].work = "edit"
      BY <3>1, <3>2 DEF StateOK
    <3> QED  BY <3>1, <3>3, <3>4 DEF Allowed, Starts, MayStart, SignalStays
  <2> QED  BY <1>3, <2>1, <2>2 DEF EditorExit
<1>4. CASE Settle
  <2>1. ASSUME NEW i \in Ids, Starts(i)  PROVE FALSE
    <3>1. flow[i] \in Flow /\ flow[i].at \in {"none", "over"}
      BY <2>1 DEF StateOK, Starts
    <3>2. i \notin Dropped /\ i \notin {j \in Asked : StartsLate(j)}
      BY <3>1 DEF Dropped, Asked
    <3>3. \E c, a : flow'[i] = [flow[i] EXCEPT !.at = flow[i].at, !.cut = c, !.abandon = a]
      BY <1>4, <3>2 DEF Settle
    <3>4. flow'[i].at = flow[i].at
      BY <3>1, <3>3 DEF Flow
    <3> QED  BY <2>1, <3>1, <3>4 DEF Starts
  <2> QED  BY <1>4, <2>1 DEF Settle, Allowed, SignalStays
<1>5. ASSUME NEW j \in Ids, Done(j)  PROVE Allowed /\ SignalStays
  <2>1. CASE leaving = "none"
    BY <2>1, StaysAllowed
  <2>2. CASE leaving # "none"
    <3> DEFINE G == Gone(Cut(DrainCuts, {}), j)
    <3>1. /\ G \in [Ids -> Flow]
          /\ \A i \in Ids \ {j} : G[i].at = flow[i].at
          /\ G[j].at = "none"
      BY CutIs, NothingIs DEF Gone, NoFlow, StateOK
    <3>2. leaving' = leaving
      BY <1>5 DEF Done, PipelineEnded, EditEnded, ConfigSaved, OtherEnded, Trained
    <3>3. CASE flow' = G
      BY <3>1, <3>2, <3>3 DEF Allowed, Starts, SignalStays
    <3>4. CASE /\ leaving = "quit"
               /\ \E r : flow' = [G EXCEPT ![j] = Spawned("cancel", r, FALSE, FALSE)]
      <4>1. PICK r : flow' = [G EXCEPT ![j] = Spawned("cancel", r, FALSE, FALSE)]
        BY <3>4
      <4>2. Spawned("cancel", r, FALSE, FALSE).work = "cancel"
        BY DEF Spawned, NoFlow
      <4>3. \A i \in Ids \ {j} : flow'[i].at = flow[i].at
        BY <3>1, <4>1
      <4>4. flow'[j].work = "cancel"
        BY <3>1, <4>1, <4>2
      <4> QED  BY <3>2, <3>4, <4>3, <4>4 DEF Allowed, Starts, MayStart, SignalStays
    <3>5. [G EXCEPT ![j] = G[j]] = G
      BY <3>1
    <3>6. ~AutoGoesOn(j) /\ ~StartsAfter(j)
      BY <2>2 DEF AutoGoesOn, StartsAfter
    <3>7. CASE PipelineEnded(j)
      <4>1. slot["pipeline"] = j /\ tasks' = Drained
            /\ slot' = [slot EXCEPT !["pipeline"] = 0]
        BY <3>6, <3>7 DEF PipelineEnded
      <4>2. Drained[j] = NoFollow /\ slot'["pipeline"] # j
        BY <4>1, InASlot DEF StateOK
      <4>3. tasks'[j].job # "start"
        BY <4>1, <4>2 DEF NoFollow, NewFollow
      <4>4. flow' = [G EXCEPT ![j] = @]
        BY <3>7, <4>2, <4>3 DEF PipelineEnded
      <4> QED  BY <3>3, <3>5, <4>4
    <3>8. CASE ConfigSaved(j)
      BY <3>3, <3>5, <3>6, <3>8 DEF ConfigSaved
    <3>9. CASE EditEnded(j) \/ \E k \in {"push", "compare"} : OtherEnded(k, j)
      BY <3>3, <3>9 DEF EditEnded, OtherEnded
    <3>10. CASE Trained(j)
      <4>1. PICK f \in {Heard(j)} :
              flow' = [G EXCEPT ![j] = IF NextJob(f) = "none" THEN @
                                       ELSE Spawned(NextJob(f), f.run, FALSE, FALSE)]
        BY <3>10 DEF Trained
      <4>2. NextJob(f) = "none" \/ (NextJob(f) = "cancel" /\ leaving = "quit")
        BY <2>2 DEF NextJob, StateOK
      <4> QED  BY <3>3, <3>4, <3>5, <4>1, <4>2
    <3> QED  BY <1>5, <3>7, <3>8, <3>9, <3>10 DEF Done
  <2> QED  BY <2>1, <2>2
<1> QED  BY <1>1, <1>2, <1>3, <1>4, <1>5 DEF LoopStep
\* follow.rs, auto.rs, app.rs: a signal is final, and once it came, or while a
\* quit waits, nothing starts but a cancel while quitting, and the save of an
\* edit already typed.
THEOREM UNothingNew == Spec => NothingNew
<1>1. ASSUME StateOK, Inv, [Next]_allVars  PROVE [Allowed /\ SignalStays]_vars
  <2> SUFFICES ASSUME Next  PROVE Allowed /\ SignalStays
    BY <1>1 DEF allVars
  <2>1. CASE UserStep
    BY <1>1, <2>1, NewUser
  <2>2. CASE LoopStep
    BY <1>1, <2>2, NewLoop
  <2>3. CASE \E i \in Ids : FlowStep(i)
    <3>1. PICK i \in Ids : FlowStep(i)
      BY <2>3
    <3>2. Goes(i) /\ leaving' = leaving
      BY <1>1, <3>1, FlowGoes DEF Goes, World, appVars
    <3>3. \A j \in Ids : ~Starts(j)
      BY <3>2 DEF Goes, Starts
    <3> QED  BY <3>2, <3>3 DEF Allowed, SignalStays
  <2> QED  BY <2>1, <2>2, <2>3 DEF Next
<1>2. Allowed /\ SignalStays =>
        /\ leaving = "signal" => leaving' = "signal"
        /\ \A i \in Ids : Starts(i) =>
             \/ leaving = "none"
             \/ leaving = "quit" /\ flow'[i].work = "cancel"
             \/ editing /\ flow'[i].work = "edit"
  BY DEF Allowed, MayStart, SignalStays
<1> QED  BY <1>1, <1>2, Invariants, PTL DEF Spec, NothingNew
=============================================================================
