--------------------------- MODULE Orphans_proofs ---------------------------
(***************************************************************************)
(* Proofs about the pods of a run (Orphans, Provision, PodRecord).         *)
(*                                                                         *)
(* The inductive invariant ties the three copies of pod.json (on disk, of  *)
(* the process that holds the project, of pod ls) to what Runpod has: a    *)
(* copy names only pods that showed, calls deleted only one that is gone,  *)
(* and, as long as no pod ls replaced a newer pod.json (stale), no pod     *)
(* that was ever named is up without being named by the copy saved next.   *)
(***************************************************************************)
EXTENDS Orphans, TLAPS

(* Where the process is. *)

Deleting == {"remove", "delete", "deleted"}

\* It works on its copy of pod.json.
Holding ==
  pc \notin {"start", "over", "keys", "drop", "exit"} \cup RmFlow

\* It is a train that took the project, not a pod rm.
Training1 == Holding /\ ~(pc \in Deleting /\ then = "rm")

\* The walk has no pod.
Podless ==
  \/ pc \in {"key", "type", "create", "send", "answer", "look1", "look2", "created"}
  \/ pc = "note" /\ then = "created"

\* The call under way has a number.
Called ==
  \/ pc \in {"send", "answer", "look1", "look2", "created"}
  \/ pc = "note" /\ then = "created"

\* The run's pod is recorded, and no job runs.
Settled ==
  \/ pc \in {"reach", "sweep", "ready"}
  \/ pc = "note" /\ then = "ready"

Rm ==
  \/ pc \in {"removed", "unremoved", "strays", "stray", "marked"}
  \/ pc \in Deleting /\ then = "rm"

Shown == {a \in Attempts : pods[a] \in {"up", "gone"}}

-----------------------------------------------------------------------------
(* The parts of the invariant. *)

\* What a step finds where it is.
FlowInv ==
  /\ Holding => mem # NoRecord
  /\ pc \in Deleting => then \in {"type", "after", "release", "end", "rm"}
  /\ pc = "note" => then \in {"created", "ready", "fail", "exit"}
  /\ pc \in {"start", "key"} => named = {} /\ had = {} /\ ls = "off"
  /\ pc = "start" => disk = NoRecord /\ \A a \in Attempts : pods[a] = "none"
  /\ pc = "stray" /\ todo # {} => disk # NoRecord
  /\ ls \in {"pod", "stray", "gone", "dropped"} => disk # NoRecord
  /\ ls \in {"gone", "dropped"} => lsCopy # NoRecord

\* A copy of pod.json names pods that showed, and deleted ones that are gone.
CopyHolds(r) ==
  r # NoRecord =>
    /\ r.strays \subseteq Shown
    /\ r.pod # NoPod => r.pod \in Shown
    /\ r.state = "Deleted" /\ r.pod # NoPod => r.pod \notin Up

CopiesInv ==
  /\ CopyHolds(disk) /\ CopyHolds(mem) /\ CopyHolds(lsCopy)
  /\ named \subseteq Shown /\ had \subseteq Shown
  /\ owed \subseteq Shown /\ asked \subseteq Shown
  /\ pc \in {"stray", "marked"} => todo \subseteq Shown
  /\ trains # NoPod => trains \in Shown
  /\ Named(disk) \subseteq named
  /\ pc \in {"deleted", "forget"} => mem.state = "Deleted"
  /\ ls \in {"pod", "stray", "gone", "dropped"} =>
       lsPod \in Attempts /\ pods[lsPod] = "gone"
  /\ ls = "gone" => lsCopy.pod = lsPod

\* The calls of the walk are numbered, each once.
WalkInv ==
  /\ Training1 => \A a \in Attempts : pods[a] # "none" => a <= mem.attempts
  /\ Called => mem.attempts > 0
  /\ pc = "send" => pods[mem.attempts] = "none"
  /\ pc = "created" \/ (pc = "note" /\ then = "created") => mem.attempts \in Shown

\* What may bill while the walk goes on.
HadInv ==
  /\ Podless => mem.pod = NoPod
  /\ Podless \/ pc = "forget" \/ (pc = "deleted" /\ then = "type") =>
       had \cap Up = {}
  /\ pc = "reach" \/ (pc \in {"remove", "delete"} /\ then = "type") =>
       had \cap Up \subseteq {mem.pod}

\* What pod.json holds, unless an older one replaced it.
DiskInv ==
  ~stale =>
    /\ \A a \in Attempts : pods[a] # "none" => disk # NoRecord /\ a <= disk.attempts
    /\ Holding /\ disk # NoRecord => disk.attempts <= mem.attempts
    /\ pc = "send" => disk # NoRecord /\ mem.attempts <= disk.attempts
    /\ named \cap Up \subseteq Named(disk)
    /\ Holding => named \cap Up \subseteq Named(mem)
    /\ pc \in {"drop", "sweeping"} => named \cap Up = {}

\* What a pod rm did so far.
RmInv ==
  /\ pc \in Deleting /\ then = "rm" => ~keeps /\ asked = {mem.pod}
  /\ pc \in {"removed", "strays", "stray", "marked"} /\ ~failed /\ ~keeps =>
       asked \cap Up = {}
  /\ pc = "marked" /\ ~failed /\ ~keeps => owed \cap Up \subseteq todo
  /\ pc \in {"keys", "drop"} => owed \cap Up = {}
  /\ Training1 \/ pc = "start" => owed = {}
  /\ keeps => pc \in {"strays", "stray", "marked", "exit"}

\* The pod a job trains on is never a stray.
JobInv ==
  /\ Settled => mem.pod \in named /\ mem.pod \notin mem.strays
  /\ Settled /\ ~stale => disk # NoRecord /\ mem.pod \notin disk.strays
  /\ Called => mem.attempts \notin mem.strays
  /\ Called /\ ~stale => disk # NoRecord /\ mem.attempts \notin disk.strays
  /\ trains # NoPod /\ Training1 =>
       /\ trains = mem.pod
       /\ \/ pc \in {"job", "working", "sweepall"}
          \/ pc \in Deleting /\ then \in {"release", "end"}
          \/ pc = "note" /\ then = "exit"
  /\ pc = "start" => trains = NoPod
  /\ pc = "sweepall" \/ (pc = "note" /\ then = "exit") => trains \notin Up
  /\ ~stale /\ trains \in Up =>
       /\ trains \in named
       /\ disk # NoRecord => trains \notin disk.strays
       /\ Holding => trains \notin mem.strays
       /\ Rm => trains \in asked
       /\ pc \in {"stray", "marked"} => trains \notin todo

IInv ==
  /\ TypeOK /\ FlowInv /\ CopiesInv /\ WalkInv /\ HadInv
  /\ DiskInv /\ RmInv /\ JobInv

-----------------------------------------------------------------------------
(* The operations on pod.json (record.rs), field by field. *)

LEMMA RecordIs ==
  ASSUME NEW r \in Records
  PROVE  /\ r # NoRecord
         /\ r.attempts \in 0 .. MAX_CALLS /\ r.attempts \in Nat
         /\ r.strays \subseteq Attempts /\ r.unclear \subseteq Attempts
         /\ r.pod \in Attempts \cup {NoPod} /\ r.state \in PodStates
         /\ Named(r) \subseteq Attempts
BY RecordAssumption DEF Records, NoRecord, PodStates, Named, Attempts, NoPod

LEMMA NewIs ==
  /\ NewRecord \in Records /\ NewRecord.attempts = 0
  /\ NewRecord.strays = {} /\ NewRecord.pod = NoPod
  /\ NewRecord.state = "Creating" /\ Named(NewRecord) = {}
BY RecordAssumption DEF Records, NewRecord, NoRecord, PodStates, Named, NoPod

LEMMA BeginIs ==
  ASSUME NEW r \in Records, r.attempts < MAX_CALLS
  PROVE  /\ BeginAttempt(r) \in Records
         /\ BeginAttempt(r).attempts = r.attempts + 1
         /\ BeginAttempt(r).strays = r.strays /\ BeginAttempt(r).pod = r.pod
         /\ BeginAttempt(r).state = "Creating"
         /\ Named(BeginAttempt(r)) = r.strays \cup ({r.pod} \ {NoPod})
<1> DEFINE b == BeginAttempt(r)
<1>1. r.attempts + 1 \in 0 .. MAX_CALLS
  BY RecordIs, RecordAssumption
<1>2. /\ b \in Records /\ b.attempts = r.attempts + 1
      /\ b.strays = r.strays /\ b.pod = r.pod /\ b.state = "Creating"
  BY <1>1 DEF Records, BeginAttempt, PodStates
<1>3. b # NoRecord
  BY <1>2, RecordIs
<1> QED  BY <1>2, <1>3 DEF Named

LEMMA UnclearIs ==
  ASSUME NEW r \in Records, r.attempts > 0
  PROVE  /\ EndUnclear(r) \in Records
         /\ EndUnclear(r).attempts = r.attempts
         /\ EndUnclear(r).strays = r.strays /\ EndUnclear(r).pod = r.pod
         /\ EndUnclear(r).state = r.state /\ Named(EndUnclear(r)) = Named(r)
BY RecordAssumption DEF Records, EndUnclear, NoRecord, PodStates, Named, Attempts

LEMMA CreatedIs ==
  ASSUME NEW r \in Records, r.attempts > 0
  PROVE  /\ Created(r) \in Records
         /\ Created(r).attempts = r.attempts
         /\ Created(r).strays = r.strays /\ Created(r).pod = r.attempts
         /\ Created(r).state = "Provisioning"
         /\ Named(Created(r)) = r.strays \cup {r.attempts}
<1> DEFINE c == Created(r)
<1>1. r.attempts \in Attempts /\ r.attempts # NoPod
  BY RecordIs, RecordAssumption DEF Attempts, NoPod
<1>2. /\ c \in Records /\ c.attempts = r.attempts /\ c.strays = r.strays
      /\ c.pod = r.attempts /\ c.state = "Provisioning"
  BY <1>1 DEF Records, Created, PodStates
<1>3. c # NoRecord
  BY <1>2, RecordIs
<1> QED  BY <1>1, <1>2, <1>3 DEF Named

LEMMA NoteIs ==
  ASSUME NEW r \in Records, NEW ids \in SUBSET Attempts
  PROVE  /\ NoteStrays(r, ids) \in Records
         /\ NoteStrays(r, ids).attempts = r.attempts
         /\ NoteStrays(r, ids).strays = r.strays \cup ids
         /\ NoteStrays(r, ids).pod = r.pod /\ NoteStrays(r, ids).state = r.state
         /\ Named(NoteStrays(r, ids)) = Named(r) \cup ids
BY DEF Records, NoteStrays, NoRecord, PodStates, Named

LEMMA DropIs ==
  ASSUME NEW r \in Records, NEW a
  PROVE  /\ DropStray(r, a) \in Records
         /\ DropStray(r, a).attempts = r.attempts
         /\ DropStray(r, a).strays = r.strays \ {a}
         /\ DropStray(r, a).pod = r.pod /\ DropStray(r, a).state = r.state
         /\ Named(r) \ {a} \subseteq Named(DropStray(r, a))
         /\ Named(DropStray(r, a)) \subseteq Named(r)
BY DEF Records, DropStray, NoRecord, PodStates, Named

LEMMA ForgetIs ==
  ASSUME NEW r \in Records
  PROVE  /\ ForgetPod(r) \in Records
         /\ ForgetPod(r).attempts = r.attempts
         /\ ForgetPod(r).strays = r.strays /\ ForgetPod(r).pod = NoPod
         /\ ForgetPod(r).state = "Creating" /\ Named(ForgetPod(r)) = r.strays
BY DEF Records, ForgetPod, NoRecord, PodStates, Named

LEMMA StateIs ==
  ASSUME NEW r \in Records, NEW s \in PodStates
  PROVE  /\ InState(r, s) \in Records
         /\ InState(r, s).attempts = r.attempts
         /\ InState(r, s).strays = r.strays /\ InState(r, s).pod = r.pod
         /\ InState(r, s).state = s
         /\ Named(InState(r, s)) =
               r.strays \cup (IF s = "Deleted" THEN {} ELSE {r.pod} \ {NoPod})
BY DEF Records, InState, NoRecord, PodStates, Named

-----------------------------------------------------------------------------
(* The pods: one that showed is never asked for again. *)

PodKinds == {"none", "coming", "up", "gone"}

\* A delete takes pods that showed, and brings none back.
LEMMA UnconfirmedIs ==
  ASSUME TypeOK, NEW ids, NEW left, ids \cap Attempts \subseteq Shown,
         pods' = Unconfirmed(ids, left)
  PROVE  /\ pods' \in [Attempts -> PodKinds] /\ Shown' = Shown
         /\ Up' = Up \ (ids \ left)
         /\ \A a \in Attempts : (pods'[a] = "none") = (pods[a] = "none")
         /\ \A a \in Attempts : pods[a] = "gone" => pods'[a] = "gone"
<1>1. pods \in [Attempts -> PodKinds]
  BY DEF TypeOK, PTypeOK, PodKinds
<1>2. \A a \in Attempts : pods'[a] = IF a \in ids \ left THEN "gone" ELSE pods[a]
  BY DEF Unconfirmed
<1>3. pods' \in [Attempts -> PodKinds]
  BY <1>1, <1>2 DEF Unconfirmed, PodKinds
<1>4. \A a \in Attempts : a \in ids \ left => pods[a] \in {"up", "gone"}
  BY DEF Shown
<1> QED  BY <1>1, <1>2, <1>3, <1>4 DEF Shown, Up, PodKinds

\* The steps that delete pods.
Unconfirms ==
  \E ids, left : ids \cap Attempts \subseteq Shown /\ pods' = Unconfirmed(ids, left)

LEMMA SweepsIs ==
  ASSUME NEW ids \in SUBSET Up, NEW done, NEW noted, Sweeps(ids, done, noted)
  PROVE  /\ Unconfirms
         /\ \E lost \in SUBSET ids :
              /\ mem' = NoteStrays(mem, lost)
              /\ IF lost = {} THEN pc' = done /\ UNCHANGED then
                 ELSE pc' = "note" /\ then' = noted
<1>1. PICK lost \in SUBSET ids, left \in SUBSET ids :
        /\ pods' = Unconfirmed(ids, left) /\ mem' = NoteStrays(mem, lost)
        /\ IF lost = {} THEN pc' = done /\ UNCHANGED then
           ELSE pc' = "note" /\ then' = noted
  BY DEF Sweeps
<1>2. ids \cap Attempts \subseteq Shown
  BY DEF Up, Shown
<1> QED  BY <1>1, <1>2 DEF Unconfirms

\* Which steps change the pods, and how.
LEMMA PodSteps ==
  ASSUME TypeOK, FlowInv, CopiesInv, Next
  PROVE  UNCHANGED pods \/ Unconfirms \/ PodNext \/ Sends
<1>1. CASE StartNext
  <2>1. CASE \E look \in {"look1", "look2"} : Finds(look)
    BY <2>1, SweepsIs DEF Finds
  <2>2. CASE SweepsOthers \/ AfterFailure
    BY <2>2, SweepsIs DEF SweepsOthers, AfterFailure
  <2>3. CASE SavesRecord \/ StoresKey \/ TakesType \/ WalkEnds \/ BeginsCall
             \/ AnswersPod \/ AnswersNo \/ AnswersUnclear \/ RecordsPod
    BY <2>3 DEF SavesRecord, StoresKey, TakesType, WalkEnds, BeginsCall,
       AnswersPod, AnswersNo, AnswersUnclear, RecordsPod, account
  <2>4. CASE BecomesReady \/ NotReady \/ GivesUp \/ FailsRun
    BY <2>4 DEF BecomesReady, NotReady, GivesUp, FailsRun, account
  <2>5. CASE FindsNone("look1", "look2") \/ FindsNone("look2", NextTry) \/ LookFails
    BY <2>5 DEF FindsNone, LookFails, account
  <2> QED  BY <1>1, <2>1, <2>2, <2>3, <2>4, <2>5 DEF StartNext, Reconciles
<1>2. CASE RemoveNext
  <2>1. CASE Deletes
    <3>1. PICK left : pods' = Unconfirmed({mem.pod}, left)
      BY <2>1 DEF Deletes
    <3>2. {mem.pod} \cap Attempts \subseteq Shown
      <4>1. mem # NoRecord
        BY <2>1 DEF Deletes, FlowInv, Holding, RmFlow
      <4> QED  BY <4>1 DEF CopiesInv, CopyHolds, Attempts, NoPod
    <3> QED  BY <3>1, <3>2 DEF Unconfirms
  <2>2. CASE SavesDeleting \/ SavesDeleted \/ Forgets
    BY <2>2 DEF SavesDeleting, SavesDeleted, Forgets, account
  <2> QED  BY <1>2, <2>1, <2>2 DEF RemoveNext
<1>3. CASE EndNext
  <2>1. CASE SweepsThenForgets
    BY <2>1, SweepsIs DEF SweepsThenForgets
  <2>2. CASE EndNext /\ ~SweepsThenForgets
    BY <2>2 DEF EndNext, StartsJob, JobStarted, Releases, EndsPod, NotesStrays,
       LooksForPods, DropsKey, account
  <2> QED  BY <1>3, <2>1, <2>2
<1>4. CASE RmNext
  <2>1. CASE RmStray
    <3>1. PICK a, left : a \in todo /\ pods' = Unconfirmed({a}, left) /\ pc = "stray"
      BY <2>1 DEF RmStray
    <3> QED  BY <3>1 DEF Unconfirms, CopiesInv
  <2>2. CASE RmMarked
    <3>1. PICK a, left : a \in todo /\ pods' = Unconfirmed({a}, left) /\ pc = "marked"
      BY <2>2 DEF RmMarked
    <3> QED  BY <3>1 DEF Unconfirms, CopiesInv
  <2>3. CASE RmNext /\ ~RmStray /\ ~RmMarked
    BY <2>3 DEF RmNext, RmStarts, RmRecorded, RmReadsStrays, RmLists, RmEnds,
       ListsKeys, SweepsKey, account
  <2> QED  BY <1>4, <2>1, <2>2, <2>3
<1>5. CASE LsNext
  BY <1>5 DEF LsNext, LsFinds, LsReads, LsSaves, LsFails, LsLooksForPods,
     LsDropsKey, pvars, account
<1>6. CASE PodNext \/ ExitNext \/ Interrupt
  BY <1>6 DEF ExitNext, Exits, Interrupt, account
<1> QED  BY <1>1, <1>2, <1>3, <1>4, <1>5, <1>6 DEF Next, TrainNext

\* What showed stays shown, and what is gone stays gone.
LEMMA PodsGrow ==
  ASSUME TypeOK, FlowInv, CopiesInv, WalkInv, [Next]_vars
  PROVE  /\ pods' \in [Attempts -> PodKinds]
         /\ Shown \subseteq Shown' /\ Shown \cap Up' \subseteq Up
         /\ \A a \in Attempts : pods[a] = "gone" => pods'[a] = "gone"
         /\ ~Sends => \A a \in Attempts : pods[a] = "none" => pods'[a] = "none"
<1>0. pods \in [Attempts -> PodKinds]
  BY DEF TypeOK, PTypeOK, PodKinds
<1>1. CASE UNCHANGED pods
  BY <1>0, <1>1 DEF Shown, Up
<1>2. CASE Unconfirms
  <2>1. PICK ids, left : ids \cap Attempts \subseteq Shown /\ pods' = Unconfirmed(ids, left)
    BY <1>2 DEF Unconfirms
  <2> QED  BY <2>1, UnconfirmedIs
<1>3. CASE PodNext
  BY <1>0, <1>3 DEF PodNext, PodShows, PodDies, Shown, Up, PodKinds
<1>4. CASE Sends
  <2>1. pods[mem.attempts] = "none" /\ mem.attempts \in Nat
    BY <1>4, RecordIs DEF Sends, WalkInv, TypeOK, PTypeOK, FlowInv, Holding, RmFlow
  <2> QED  BY <1>0, <1>4, <2>1 DEF Sends, Shown, Up, PodKinds
<1>5. UNCHANGED vars => UNCHANGED pods
  BY DEF vars, pvars
<1> QED  BY <1>1, <1>2, <1>3, <1>4, <1>5, PodSteps

-----------------------------------------------------------------------------
(* One lemma for each group of steps: what they keep of the invariant. *)

USE DEF account, walk, history, rm, lsvars, RmFlow, Deleting, Writes

LEMMA CopyNames ==
  ASSUME NEW r \in Records, CopyHolds(r)
  PROVE  Named(r) \subseteq Shown
BY RecordIs DEF CopyHolds, Named

LEMMA HoldsRecord ==
  ASSUME IInv, Holding
  PROVE  mem \in Records /\ mem # NoRecord /\ CopyHolds(mem)
BY DEF IInv, TypeOK, PTypeOK, FlowInv, CopiesInv

\* Nothing the invariant is about changes.
LEMMA QuietKeeps ==
  ASSUME IInv, UNCHANGED <<pods, disk, mem, pc, then, history, rm, lsvars>>, TypeOK'
  PROVE  IInv'
<1>1. Up' = Up /\ Shown' = Shown
  BY DEF Up, Shown
<1>2. /\ Holding' = Holding /\ Training1' = Training1 /\ Podless' = Podless
      /\ Called' = Called /\ Settled' = Settled /\ Rm' = Rm
  BY DEF Holding, Training1, Podless, Called, Settled, Rm
<1>3. FlowInv' /\ CopiesInv' /\ WalkInv'
  BY <1>1, <1>2 DEF IInv, FlowInv, CopiesInv, CopyHolds, WalkInv
<1>4. HadInv' /\ DiskInv' /\ RmInv' /\ JobInv'
  BY <1>1, <1>2 DEF IInv, HadInv, DiskInv, RmInv, JobInv
<1> QED  BY <1>3, <1>4 DEF IInv

\* note_strays: the copy is saved as it is.
LEMMA NotesStraysKeeps ==
  ASSUME IInv, NotesStrays, UNCHANGED <<rm, lsvars>>, TypeOK'
  PROVE  IInv'
<1>1. /\ mem \in Records /\ mem # NoRecord /\ mem' = mem /\ pc = "note"
      /\ then \in {"created", "ready", "fail", "exit"}
  BY HoldsRecord DEF NotesStrays, IInv, FlowInv, Holding, Saves
<1>2. Up' = Up /\ Shown' = Shown /\ pods' = pods
  BY DEF NotesStrays, Up, Shown
<1>4. FlowInv'
  BY <1>1, <1>2 DEF IInv, NotesStrays, Saves, FlowInv, Holding
<1>5. CopiesInv'
  BY <1>1, <1>2, CopyNames DEF IInv, FlowInv, NotesStrays, Saves, CopiesInv, CopyHolds
<1>6. WalkInv'
  BY <1>1, <1>2 DEF IInv, NotesStrays, Saves, WalkInv, Training1, Called, Holding
<1>7. HadInv'
  BY <1>1, <1>2 DEF IInv, NotesStrays, Saves, HadInv, Podless
<1>8. DiskInv'
  <2>1. CASE Writes(mem)
    <3>1. named' \cap Up \subseteq Named(mem) \/ stale
      BY <1>1, <2>1 DEF IInv, NotesStrays, DiskInv, Holding
    <3>2. \A a \in Attempts : pods[a] # "none" => a <= mem.attempts
      BY <1>1 DEF IInv, WalkInv, Training1, Holding
    <3>3. pc' \notin {"send", "drop", "sweeping"} /\ UNCHANGED stale
      BY <1>1 DEF NotesStrays, Saves
    <3>4. mem.attempts <= mem.attempts
      BY <1>1, RecordIs
    <3> QED  BY <1>1, <1>2, <2>1, <3>1, <3>2, <3>3, <3>4 DEF DiskInv
  <2>2. CASE UNCHANGED <<disk, named>>
    BY <1>1, <1>2, <2>2 DEF IInv, NotesStrays, Saves, DiskInv, Holding
  <2> QED  BY <2>1, <2>2, <1>1 DEF NotesStrays, Saves
<1>9. RmInv'
  BY <1>1, <1>2 DEF IInv, NotesStrays, Saves, RmInv, Training1, Holding
<1>10. JobInv'
  BY <1>1, <1>2 DEF IInv, NotesStrays, Saves, JobInv, Training1, Settled, Called, Rm, Holding
<1> QED  BY <1>4, <1>5, <1>6, <1>7, <1>8, <1>9, <1>10 DEF IInv

\* The steps of train that change no copy of pod.json and no pod.
Moves ==
  \/ StoresKey \/ TakesType \/ WalkEnds \/ AnswersPod \/ LookFails
  \/ FindsNone("look1", "look2") \/ FindsNone("look2", NextTry) \/ FailsRun
  \/ StartsJob \/ Releases \/ EndsPod \/ LooksForPods \/ DropsKey

LEMMA MovesKeep ==
  ASSUME IInv, Moves, UNCHANGED <<rm, lsvars>>, TypeOK'
  PROVE  IInv'
<1> USE DEF Moves, StoresKey, TakesType, WalkEnds, AnswersPod, LookFails,
            FindsNone, NextTry, FailsRun, StartsJob, Releases, EndsPod,
            LooksForPods, DropsKey, Removes
<1>1. UNCHANGED <<pods, disk, mem, named, had>> /\ Up' = Up /\ Shown' = Shown
  BY DEF Up, Shown
<1>4. FlowInv'
  BY <1>1 DEF IInv, FlowInv, Holding
<1>5. CopiesInv'
  <2>1. CopyHolds(disk)' /\ CopyHolds(mem)' /\ CopyHolds(lsCopy)'
    BY <1>1 DEF IInv, CopiesInv, CopyHolds
  <2>2. trains' # NoPod => trains' \in Shown
    <3>1. CASE StartsJob
      <4>1. CopyHolds(mem) /\ mem # NoRecord /\ trains' = mem.pod
        BY <3>1, HoldsRecord DEF Holding
      <4> QED  BY <4>1 DEF CopyHolds
    <3>2. CASE UNCHANGED trains
      BY <3>2 DEF IInv, CopiesInv
    <3> QED  BY <3>1, <3>2
  <2>3. /\ pc' \notin {"stray", "marked", "deleted", "forget"}
        /\ UNCHANGED <<ls, lsPod, lsCopy, owed, asked, had, named>>
    BY DEF IInv, FlowInv
  <2> QED  BY <1>1, <2>1, <2>2, <2>3 DEF IInv, CopiesInv
<1>6. WalkInv'
  <2>1. CASE AnswersPod
    <3>1. mem.attempts \in Shown
      BY <2>1, HoldsRecord, RecordIs DEF IInv, WalkInv, Called, Holding, Attempts, Shown
    <3> QED  BY <1>1, <2>1, <3>1 DEF IInv, WalkInv, Training1, Called, Holding
  <2>2. CASE Moves /\ ~AnswersPod
    BY <1>1, <2>2 DEF IInv, WalkInv, Training1, Called, Holding
  <2> QED  BY <2>1, <2>2
<1>7. HadInv'
  BY <1>1 DEF IInv, HadInv, Podless
<1>8. DiskInv'
  <2>1. CASE LooksForPods
    BY <1>1, <2>1 DEF IInv, DiskInv, Holding, NoPodLeft, Named
  <2>2. CASE Moves /\ ~LooksForPods
    BY <1>1, <2>2 DEF IInv, DiskInv, Holding, FlowInv
  <2> QED  BY <2>1, <2>2
<1>9. RmInv'
  BY <1>1 DEF IInv, RmInv, Training1, Holding
<1>10. JobInv'
  <2>1. CASE StartsJob
    BY <1>1, <2>1 DEF IInv, JobInv, Training1, Settled, Called, Rm, Holding
  <2>2. CASE Moves /\ ~StartsJob
    <3>1. UNCHANGED trains /\ pc' \notin {"sweepall", "note", "start", "stray", "marked"}
      BY <2>2 DEF IInv, FlowInv
    <3>2. /\ Settled' => Settled
          /\ Called' => Called
          /\ ~Rm' /\ (Holding' => Holding)
      BY <2>2 DEF Settled, Called, Rm, Holding
    <3>3. Training1' =>
            /\ Training1
            /\ trains # NoPod => pc' = "remove" /\ then' \in {"release", "end"}
      BY <2>2 DEF Training1, Holding, IInv, JobInv
    <3> QED  BY <1>1, <2>2, <3>1, <3>2, <3>3 DEF IInv, JobInv
  <2> QED  BY <2>1, <2>2
<1> QED  BY <1>4, <1>5, <1>6, <1>7, <1>8, <1>9, <1>10 DEF IInv

\* What a sweep that asks to delete the pods of ids leaves.
SweptBy(ids) ==
  /\ mem \in Records /\ mem' \in Records
  /\ mem'.attempts = mem.attempts /\ mem'.pod = mem.pod
  /\ mem'.state = mem.state /\ mem.strays \subseteq mem'.strays
  /\ mem'.strays \subseteq mem.strays \cup ids
  /\ Named(mem) \subseteq Named(mem')
  /\ Shown' = Shown /\ Up' \subseteq Up
  /\ \A a \in Attempts : (pods'[a] = "none") = (pods[a] = "none")
  /\ \A a \in Attempts : pods[a] = "gone" => pods'[a] = "gone"

LEMMA SweptIs ==
  ASSUME IInv, Holding, NEW ids \in SUBSET Up, NEW done, NEW noted,
         Sweeps(ids, done, noted)
  PROVE  /\ SweptBy(ids)
         /\ (pc' = done /\ UNCHANGED then) \/ (pc' = "note" /\ then' = noted)
<1>1. mem \in Records /\ Up \subseteq Attempts
  BY HoldsRecord DEF Up
<1>2. PICK lost \in SUBSET ids :
        /\ mem' = NoteStrays(mem, lost)
        /\ IF lost = {} THEN pc' = done /\ UNCHANGED then
           ELSE pc' = "note" /\ then' = noted
  BY SweepsIs
<1>3. PICK which, left :
        which \cap Attempts \subseteq Shown /\ pods' = Unconfirmed(which, left)
  BY SweepsIs DEF Unconfirms
<1>4. /\ mem' \in Records /\ mem'.attempts = mem.attempts
      /\ mem'.strays = mem.strays \cup lost /\ mem'.pod = mem.pod
      /\ mem'.state = mem.state /\ Named(mem') = Named(mem) \cup lost
  BY <1>1, <1>2, NoteIs
<1>5. /\ Shown' = Shown /\ Up' \subseteq Up
      /\ \A a \in Attempts : (pods'[a] = "none") = (pods[a] = "none")
      /\ \A a \in Attempts : pods[a] = "gone" => pods'[a] = "gone"
  BY <1>3, UnconfirmedIs DEF IInv
<1> QED  BY <1>1, <1>2, <1>4, <1>5 DEF SweptBy

LEMMA NotSweptIs ==
  ASSUME IInv, Holding, UNCHANGED <<pods, mem>>
  PROVE  SweptBy({})
BY HoldsRecord DEF SweptBy, Shown, Up

\* The steps that delete the pods nobody wanted.
SweepMoves ==
  \/ Finds("look1") \/ Finds("look2") \/ SweepsOthers \/ AfterFailure
  \/ SweepsThenForgets

LEMMA SweepMovesKeep ==
  ASSUME IInv, SweepMoves, UNCHANGED <<rm, lsvars>>, TypeOK'
  PROVE  IInv'
<1>1. /\ pc \in {"look1", "look2", "sweep", "after", "sweepall"}
      /\ UNCHANGED <<disk, named, had, trains>>
  BY DEF SweepMoves, Finds, SweepsOthers, AfterFailure, SweepsThenForgets
<1>2. Holding /\ Training1
  BY <1>1 DEF Holding, Training1
<1>3. PICK ids \in SUBSET Up :
        /\ SweptBy(ids)
        /\ pc \in {"look1", "look2"} =>
             /\ mem.attempts \in Up /\ mem.attempts \notin ids
             /\ pc' = "created" \/ (pc' = "note" /\ then' = "created")
        /\ pc = "sweep" =>
             /\ mem.pod \notin ids
             /\ pc' = "ready" \/ (pc' = "note" /\ then' = "ready")
        /\ pc = "after" => pc' = "fail" \/ (pc' = "note" /\ then' = "fail")
        /\ pc = "sweepall" =>
             pc' \in {"keys", "exit"} \/ (pc' = "note" /\ then' = "exit")
  <2>1. CASE Finds("look1") \/ Finds("look2")
    BY <2>1, <1>2, SweptIs DEF Finds
  <2>2. CASE SweepsOthers
    BY <2>2, <1>2, SweptIs, NotSweptIs DEF SweepsOthers
  <2>3. CASE AfterFailure
    BY <2>3, <1>2, SweptIs, NotSweptIs DEF AfterFailure
  <2>4. CASE SweepsThenForgets
    BY <2>4, <1>2, SweptIs, NotSweptIs DEF SweepsThenForgets
  <2> QED  BY <2>1, <2>2, <2>3, <2>4 DEF SweepMoves
<1>4. mem' # NoRecord /\ mem # NoRecord
  BY <1>3, RecordIs DEF SweptBy
<1>5. FlowInv'
  BY <1>1, <1>3, <1>4 DEF IInv, FlowInv, Holding
<1>6. CopiesInv'
  <2>1. CopyHolds(disk)' /\ CopyHolds(mem)' /\ CopyHolds(lsCopy)'
    <3>1. Up \subseteq Shown
      BY DEF Up, Shown
    <3> QED  BY <1>1, <1>3, <1>4, <3>1 DEF IInv, CopiesInv, CopyHolds, SweptBy
  <2>2. pc' \notin {"stray", "marked", "deleted", "forget"}
    BY <1>1, <1>3
  <2> QED  BY <1>1, <1>3, <2>1, <2>2 DEF IInv, CopiesInv, SweptBy
<1>7. WalkInv'
  <2>1. pc \in {"look1", "look2"} => mem.attempts \in Shown
    BY <1>3 DEF Up, Shown
  <2> QED  BY <1>1, <1>2, <1>3, <2>1 DEF IInv, WalkInv, SweptBy, Training1, Called, Holding
<1>8. HadInv'
  BY <1>1, <1>3 DEF IInv, HadInv, Podless, SweptBy
<1>9. DiskInv'
  BY <1>1, <1>2, <1>3 DEF IInv, DiskInv, SweptBy, Holding
<1>10. RmInv'
  BY <1>1, <1>2, <1>3 DEF IInv, RmInv, SweptBy, Training1, Holding
<1>11. JobInv'
  <2>1. trains = NoPod \/ (pc = "sweepall" /\ trains \notin Up)
    BY <1>1, <1>2 DEF IInv, JobInv
  <2>2. ~Rm' /\ pc' # "start" /\ trains' \notin Up'
    BY <1>1, <1>3, <2>1 DEF Rm, SweptBy, Up, Attempts, NoPod
  <2>3. Settled' => pc = "sweep"
    BY <1>1, <1>3 DEF Settled
  <2>4. Called' => pc \in {"look1", "look2"}
    BY <1>1, <1>3 DEF Called
  <2>5. pc = "sweep" => Settled /\ mem'.pod \notin mem'.strays \ mem.strays
    BY <1>3 DEF Settled, SweptBy
  <2>6. pc \in {"look1", "look2"} =>
          Called /\ mem'.attempts \notin mem'.strays \ mem.strays
    BY <1>3 DEF Called, SweptBy
  <2>7. pc = "sweepall" /\ Training1' => pc' = "note" /\ then' = "exit"
    BY <1>3 DEF Training1, Holding
  <2>8. mem'.pod = mem.pod /\ mem'.attempts = mem.attempts
    BY <1>3 DEF SweptBy
  <2>9. trains # NoPod => trains = mem.pod
    BY <1>1, <1>2 DEF IInv, JobInv
  <2> QED
    BY <1>1, <1>2, <2>1, <2>2, <2>3, <2>4, <2>5, <2>6, <2>7, <2>8, <2>9 DEF IInv, JobInv
<1> QED  BY <1>5, <1>6, <1>7, <1>8, <1>9, <1>10, <1>11 DEF IInv

\* The create call: it is the first of its number.
LEMMA SendsKeeps ==
  ASSUME IInv, Sends, UNCHANGED <<rm, lsvars>>, TypeOK'
  PROVE  IInv'
<1> USE DEF Sends
<1>1. mem \in Records /\ mem # NoRecord /\ Holding /\ Training1
  BY HoldsRecord DEF Holding, Training1
<1>2. mem.attempts \in Attempts /\ pods[mem.attempts] = "none"
  BY <1>1, RecordIs DEF IInv, WalkInv, Called, Attempts
<1>3. pods \in [Attempts -> PodKinds]
  BY DEF IInv, TypeOK, PTypeOK, PodKinds
<1>4. /\ Shown \subseteq Shown' /\ Shown \cap Up' = Shown \cap Up
      /\ \A a \in Attempts : a # mem.attempts => pods'[a] = pods[a]
      /\ \A a \in Attempts : pods[a] = "gone" => pods'[a] = "gone"
  BY <1>2, <1>3 DEF Shown, Up
<1>5. FlowInv'
  BY <1>1 DEF IInv, FlowInv, Holding
<1>6. CopiesInv'
  BY <1>1, <1>4 DEF IInv, CopiesInv, CopyHolds, FlowInv
<1>7. WalkInv'
  <2>1. \A a \in Attempts : pods'[a] # "none" => a <= mem.attempts
    BY <1>1, <1>2, <1>4, RecordIs DEF IInv, WalkInv, Attempts
  <2> QED  BY <1>1, <2>1 DEF IInv, WalkInv, Called
<1>8. HadInv'
  BY <1>4 DEF IInv, HadInv, CopiesInv, Podless
<1>9. DiskInv'
  <2>1. ~stale => \A a \in Attempts :
          pods'[a] # "none" => disk # NoRecord /\ a <= disk.attempts
    BY <1>1, <1>2, <1>4, RecordIs DEF IInv, DiskInv, Attempts
  <2> QED  BY <1>1, <1>4, <2>1 DEF IInv, DiskInv, CopiesInv, Holding
<1>10. RmInv'
  BY <1>1, <1>4 DEF IInv, RmInv, CopiesInv, Training1, Holding
<1>11. JobInv'
  <2>1. trains = NoPod /\ trains' \notin Up'
    BY <1>1 DEF IInv, JobInv, Up, Attempts, NoPod
  <2>2. ~Settled' /\ Called /\ pc' = "answer"
    BY DEF Settled, Called
  <2> QED  BY <1>1, <2>1, <2>2 DEF IInv, JobInv
<1> QED  BY <1>5, <1>6, <1>7, <1>8, <1>9, <1>10, <1>11 DEF IInv

\* What Runpod does to the pods on its own.
LEMMA PodKeeps ==
  ASSUME IInv, PodNext, TypeOK'
  PROVE  IInv'
<1>1. UNCHANGED <<secret, run, disk, mem, pc, then, saved, walk, history, rm, lsvars>>
  BY DEF PodNext
<1>2. pods \in [Attempts -> PodKinds]
  BY DEF IInv, TypeOK, PTypeOK, PodKinds
<1>3. /\ Shown \subseteq Shown' /\ Shown \cap Up' \subseteq Up
      /\ \A a \in Attempts : (pods'[a] = "none") = (pods[a] = "none")
      /\ \A a \in Attempts : pods[a] = "gone" => pods'[a] = "gone"
  BY <1>2 DEF PodNext, PodShows, PodDies, Shown, Up, PodKinds
<1>4. /\ Holding' = Holding /\ Training1' = Training1 /\ Podless' = Podless
      /\ Called' = Called /\ Settled' = Settled /\ Rm' = Rm
  BY <1>1 DEF Holding, Training1, Podless, Called, Settled, Rm
<1>5. FlowInv'
  BY <1>1, <1>3, <1>4 DEF IInv, FlowInv
<1>6. CopiesInv'
  BY <1>1, <1>3 DEF IInv, CopiesInv, CopyHolds, FlowInv
<1>7. WalkInv'
  <2>1. pc = "send" => mem.attempts \in Attempts
    BY HoldsRecord, RecordIs DEF IInv, WalkInv, Called, Holding, Attempts
  <2> QED  BY <1>1, <1>3, <1>4, <2>1 DEF IInv, WalkInv
<1>8. HadInv'
  BY <1>1, <1>3, <1>4 DEF IInv, HadInv, CopiesInv
<1>9. DiskInv'
  BY <1>1, <1>3, <1>4 DEF IInv, DiskInv, CopiesInv
<1>10. RmInv'
  BY <1>1, <1>3, <1>4 DEF IInv, RmInv, CopiesInv
<1>11. JobInv'
  BY <1>1, <1>3, <1>4 DEF IInv, JobInv, CopiesInv, Up, Attempts, NoPod
<1> QED  BY <1>5, <1>6, <1>7, <1>8, <1>9, <1>10, <1>11 DEF IInv

-----------------------------------------------------------------------------
(* Saves. *)

\* The copy of the process knows every call, unless an older one was saved.
LEMMA Numbered ==
  ASSUME IInv, Holding, ~stale
  PROVE  \A a \in Attempts : pods[a] # "none" => a <= mem.attempts
<1>1. mem \in Records /\ mem.attempts \in Nat
  BY HoldsRecord, RecordIs
<1>2. disk # NoRecord => disk \in Records /\ disk.attempts \in Nat
  BY RecordIs DEF IInv, TypeOK, PTypeOK
<1> QED  BY <1>1, <1>2 DEF IInv, DiskInv, Attempts

\* A save of a copy that knows as much, or that fails.
LEMMA DiskSaved ==
  ASSUME IInv, Holding, UNCHANGED <<pods, stale>>, mem' \in Records,
         mem.attempts <= mem'.attempts,
         ~stale => named \cap Up \subseteq Named(mem'),
         pc' \notin {"drop", "sweeping"},
         Writes(mem') \/ (UNCHANGED <<disk, named>> /\ pc' # "send")
  PROVE  DiskInv'
<1>1. mem \in Records /\ mem.attempts \in Nat /\ mem'.attempts \in Nat
  BY HoldsRecord, RecordIs
<1>2. disk # NoRecord => disk \in Records /\ disk.attempts \in Nat
  BY RecordIs DEF IInv, TypeOK, PTypeOK
<1>3. Up' = Up /\ mem' # NoRecord
  BY RecordIs DEF Up
<1>4. SUFFICES ASSUME ~stale PROVE DiskInv'
  BY DEF DiskInv
<1>5. \A a \in Attempts : pods[a] # "none" => a <= mem.attempts
  BY <1>4, Numbered
<1>6. CASE Writes(mem')
  <2>1. \A a \in Attempts : pods[a] # "none" => a <= mem'.attempts
    BY <1>1, <1>5 DEF Attempts
  <2>2. named' \cap Up \subseteq Named(mem')
    BY <1>4, <1>6
  <2> QED  BY <1>1, <1>3, <1>6, <2>1, <2>2 DEF DiskInv
<1>7. CASE UNCHANGED <<disk, named>> /\ pc' # "send"
  BY <1>1, <1>2, <1>3, <1>4, <1>7 DEF IInv, DiskInv
<1> QED  BY <1>6, <1>7

-----------------------------------------------------------------------------
(* remove. *)

LEMMA SavesDeletingKeeps ==
  ASSUME IInv, SavesDeleting, UNCHANGED <<rm, lsvars>>, TypeOK'
  PROVE  IInv'
<1> USE DEF SavesDeleting
<1>1. mem \in Records /\ mem # NoRecord /\ Holding /\ CopyHolds(mem) /\ pc = "remove"
  BY HoldsRecord DEF Holding
<1>2. /\ mem' \in Records /\ mem'.attempts = mem.attempts
      /\ mem'.strays = mem.strays /\ mem'.pod = mem.pod
      /\ mem'.state = "Deleting"
      /\ Named(mem') = mem.strays \cup ({mem.pod} \ {NoPod})
  BY <1>1, StateIs DEF PodStates
<1>3. Up' = Up /\ Shown' = Shown /\ pods' = pods
  BY DEF Up, Shown
<1>4. mem' # NoRecord /\ Named(mem) \subseteq Named(mem')
  BY <1>1, <1>2, RecordIs DEF Named
<1>5. FlowInv'
  BY <1>1, <1>4 DEF IInv, FlowInv, Holding
<1>6. CopyHolds(mem)' /\ Named(mem') \subseteq Shown
  BY <1>1, <1>2, <1>3 DEF CopyHolds
<1>7. CopiesInv'
  BY <1>1, <1>3, <1>4, <1>6 DEF IInv, CopiesInv, CopyHolds, FlowInv
<1>8. WalkInv'
  BY <1>1, <1>2, <1>3 DEF IInv, WalkInv, Training1, Called, Holding
<1>9. HadInv'
  BY <1>1, <1>2, <1>3 DEF IInv, HadInv, Podless
<1>10. DiskInv'
  <2>1. mem.attempts <= mem'.attempts
    BY <1>1, <1>2, RecordIs
  <2>2. ~stale => named \cap Up \subseteq Named(mem')
    BY <1>1, <1>4 DEF IInv, DiskInv
  <2>3. pc' \notin {"send", "drop", "sweeping"} /\ UNCHANGED <<pods, stale>>
    OBVIOUS
  <2> QED  BY <1>1, <1>2, <2>1, <2>2, <2>3, DiskSaved
<1>11. RmInv'
  BY <1>1, <1>2, <1>3 DEF IInv, RmInv, Training1, Holding
<1>12. JobInv'
  BY <1>1, <1>2, <1>3, <1>4 DEF IInv, JobInv, Settled, Called, Training1, Holding, Rm
<1> QED  BY <1>5, <1>7, <1>8, <1>9, <1>10, <1>11, <1>12 DEF IInv

LEMMA DeletesKeeps ==
  ASSUME IInv, Deletes, UNCHANGED <<rm, lsvars>>, TypeOK'
  PROVE  IInv'
<1>1. /\ mem \in Records /\ mem # NoRecord /\ Holding /\ CopyHolds(mem) /\ pc = "delete"
      /\ UNCHANGED <<disk, named, had, trains, ls, lsPod, lsCopy, stale>>
      /\ then \in {"type", "after", "release", "end", "rm"}
  BY HoldsRecord DEF Holding, Deletes, IInv, FlowInv
<1>2. /\ mem' \in Records /\ mem'.attempts = mem.attempts
      /\ mem'.strays = mem.strays /\ mem'.pod = mem.pod /\ mem' # NoRecord
  <2>1. mem' = mem \/ mem' = InState(mem, "Deleted")
    BY DEF Deletes
  <2> QED  BY <1>1, <2>1, StateIs, RecordIs DEF PodStates
<1>3. /\ Shown' = Shown /\ Up' \subseteq Up
      /\ \A a \in Attempts : (pods'[a] = "none") = (pods[a] = "none")
      /\ \A a \in Attempts : pods[a] = "gone" => pods'[a] = "gone"
  <2>1. PICK left : pods' = Unconfirmed({mem.pod}, left)
    BY DEF Deletes
  <2>2. {mem.pod} \cap Attempts \subseteq Shown
    BY <1>1 DEF CopyHolds, Attempts, NoPod
  <2> QED  BY <2>1, <2>2, UnconfirmedIs DEF IInv
<1>4. \/ /\ pc' = "deleted" /\ then' = then /\ mem'.state = "Deleted"
         /\ Named(mem') = mem.strays /\ Up' = Up \ {mem.pod}
      \/ /\ pc' = Failed /\ then' = "none" /\ mem' = mem
  <2>1. CASE mem' = InState(mem, "Deleted") /\ pc' = "deleted"
             /\ pods' = Unconfirmed({mem.pod}, {}) /\ UNCHANGED then
    <3>1. mem'.state = "Deleted" /\ Named(mem') = mem.strays
      BY <1>1, <2>1, StateIs DEF PodStates
    <3>2. {mem.pod} \cap Attempts \subseteq Shown
      BY <1>1 DEF CopyHolds, Attempts, NoPod
    <3>3. Up' = Up \ {mem.pod}
      BY <2>1, <3>2, UnconfirmedIs DEF IInv
    <3> QED  BY <2>1, <3>1, <3>3
  <2> QED  BY <2>1 DEF Deletes
<1>5. pc' = Failed => pc' \in {"exit", "unremoved", "after"}
                      /\ (pc' = "unremoved" <=> then = "rm")
                      /\ (then \in {"release", "end"} => pc' = "exit")
  BY <1>1 DEF Failed
<1>6. FlowInv'
  BY <1>1, <1>2, <1>4, <1>5 DEF IInv, FlowInv, Holding
<1>7. CopiesInv'
  <2>1. CopyHolds(mem)'
    BY <1>1, <1>2, <1>3, <1>4 DEF CopyHolds
  <2>2. CopyHolds(disk)' /\ CopyHolds(lsCopy)'
    BY <1>1, <1>3 DEF IInv, CopiesInv, CopyHolds
  <2> QED  BY <1>1, <1>3, <1>4, <1>5, <2>1, <2>2 DEF IInv, CopiesInv
<1>8. WalkInv'
  BY <1>1, <1>2, <1>3, <1>4, <1>5 DEF IInv, WalkInv, Training1, Called, Holding
<1>9. HadInv'
  BY <1>1, <1>2, <1>3, <1>4, <1>5 DEF IInv, HadInv, Podless
<1>10. DiskInv'
  <2>1. ~stale /\ Holding' => named' \cap Up' \subseteq Named(mem')
    <3>1. ~stale => named \cap Up \subseteq Named(mem)
      BY <1>1 DEF IInv, DiskInv
    <3>2. Named(mem) \subseteq mem.strays \cup {mem.pod}
      BY <1>1 DEF Named
    <3> QED  BY <1>1, <1>3, <1>4, <3>1, <3>2
  <2>2. pc' \notin {"send", "drop", "sweeping"}
    BY <1>4, <1>5
  <2> QED  BY <1>1, <1>2, <1>3, <2>1, <2>2 DEF IInv, DiskInv
<1>11. RmInv'
  BY <1>1, <1>2, <1>3, <1>4, <1>5 DEF IInv, RmInv, Training1, Holding
<1>12. JobInv'
  <2>1. ~Settled' /\ ~Called' /\ pc' \notin {"sweepall", "note", "start", "stray", "marked"}
    BY <1>4, <1>5 DEF Settled, Called
  <2>2. Rm' => pc = "delete" /\ then = "rm"
    BY <1>1, <1>4, <1>5 DEF Rm
  <2>3. Training1' => Training1 /\ (pc' = "after" => then \notin {"release", "end"})
    BY <1>1, <1>4, <1>5 DEF Training1, Holding
  <2>4. trains \in Up' => trains \in Up
    BY <1>3
  <2>5. trains # NoPod /\ Training1' =>
          trains = mem'.pod /\ pc' = "deleted" /\ then' \in {"release", "end"}
    <3>1. trains # NoPod /\ Training1 => trains = mem.pod /\ then \in {"release", "end"}
      BY <1>1 DEF IInv, JobInv
    <3>2. pc' = "exit" => ~Training1'
      BY DEF Training1, Holding
    <3> QED  BY <1>2, <1>4, <1>5, <2>3, <3>1, <3>2
  <2>6. ~stale /\ trains \in Up' =>
          /\ trains \in named /\ (disk # NoRecord => trains \notin disk.strays)
          /\ trains \notin mem'.strays /\ (Rm' => trains \in asked)
    BY <1>1, <1>2, <2>2, <2>4 DEF IInv, JobInv, Rm
  <2> QED  BY <1>1, <2>1, <2>5, <2>6 DEF JobInv
<1> QED  BY <1>6, <1>7, <1>8, <1>9, <1>10, <1>11, <1>12 DEF IInv

LEMMA SavesDeletedKeeps ==
  ASSUME IInv, SavesDeleted, UNCHANGED <<rm, lsvars>>, TypeOK'
  PROVE  IInv'
<1>1. /\ mem \in Records /\ mem # NoRecord /\ Holding /\ CopyHolds(mem) /\ pc = "deleted"
      /\ UNCHANGED <<pods, had, trains, ls, lsPod, lsCopy, stale>> /\ mem' = mem
      /\ then \in {"type", "after", "release", "end", "rm"} /\ then' = "none"
      /\ mem.state = "Deleted"
      /\ Writes(mem) \/ UNCHANGED <<disk, named>>
  BY HoldsRecord DEF Holding, SavesDeleted, Saves, IInv, FlowInv, CopiesInv
<1>2. Up' = Up /\ Shown' = Shown
  BY <1>1 DEF Up, Shown
<1>3. /\ pc' \in {"forget", "keys", "sweepall", "removed", "unremoved", "exit", "after"}
      /\ pc' = "forget" => then = "type"
      /\ pc' = "keys" => then = "release"
      /\ pc' = "sweepall" => then = "end"
      /\ pc' = "removed" => then = "rm"
      /\ pc' = "unremoved" => then = "rm"
      /\ pc' = "after" => then \in {"type", "after"}
  BY <1>1 DEF SavesDeleted, Saves, Worked, Failed
<1>4. mem.pod \notin Up
  BY <1>1 DEF CopyHolds, Up, Attempts, NoPod
<1>6. FlowInv'
  BY <1>1, <1>3 DEF IInv, FlowInv, Holding
<1>7. CopiesInv'
  BY <1>1, <1>2, <1>3, CopyNames DEF IInv, CopiesInv, CopyHolds, FlowInv
<1>8. WalkInv'
  BY <1>1, <1>2, <1>3 DEF IInv, WalkInv, Training1, Called, Holding
<1>9. HadInv'
  BY <1>1, <1>2, <1>3 DEF IInv, HadInv, Podless
<1>10. DiskInv'
  <2>1. ~stale => named \cap Up \subseteq Named(mem')
    BY <1>1 DEF IInv, DiskInv
  <2>2. mem.attempts <= mem'.attempts
    BY <1>1, RecordIs
  <2> QED  BY <1>1, <1>3, <2>1, <2>2, DiskSaved
<1>11. RmInv'
  BY <1>1, <1>2, <1>3, <1>4 DEF IInv, RmInv, Training1, Holding
<1>12. JobInv'
  <2>1. ~Settled' /\ ~Called' /\ pc' \notin {"note", "start", "stray", "marked"}
    BY <1>1, <1>3 DEF Settled, Called
  <2>2. Rm' => pc = "deleted" /\ then = "rm"
    BY <1>1, <1>3 DEF Rm
  <2>3. Training1' => Training1
          /\ (pc' # "sweepall" => then \notin {"release", "end"})
    BY <1>1, <1>3 DEF Training1, Holding
  <2>4. pc' = "sweepall" => trains \notin Up
    BY <1>1, <1>3, <1>4 DEF IInv, JobInv, Training1, Up, Attempts, NoPod
  <2> QED  BY <1>1, <1>2, <1>3, <2>1, <2>2, <2>3, <2>4 DEF IInv, JobInv, Rm
<1> QED  BY <1>6, <1>7, <1>8, <1>9, <1>10, <1>11, <1>12 DEF IInv

LEMMA ForgetsKeeps ==
  ASSUME IInv, Forgets, UNCHANGED <<rm, lsvars>>, TypeOK'
  PROVE  IInv'
<1>1. /\ mem \in Records /\ mem # NoRecord /\ Holding /\ CopyHolds(mem)
      /\ Training1 /\ pc = "forget" /\ pc' \in {"type", "after"}
      /\ UNCHANGED <<pods, had, trains, ls, lsPod, lsCopy, stale, then>>
      /\ mem.state = "Deleted" /\ mem' = ForgetPod(mem)
      /\ Writes(mem') \/ UNCHANGED <<disk, named>>
  BY HoldsRecord DEF Holding, Training1, Forgets, Saves, IInv, CopiesInv
<1>2. Up' = Up /\ Shown' = Shown
  BY <1>1 DEF Up, Shown
<1>3. /\ mem' \in Records /\ mem'.attempts = mem.attempts
      /\ mem'.strays = mem.strays /\ mem'.pod = NoPod
      /\ mem'.state = "Creating" /\ Named(mem') = Named(mem) /\ mem' # NoRecord
  BY <1>1, ForgetIs, RecordIs DEF Named
<1>4. trains = NoPod
  BY <1>1 DEF IInv, JobInv
<1>6. FlowInv'
  BY <1>1, <1>3 DEF IInv, FlowInv, Holding
<1>7. CopiesInv'
  <2>1. CopyHolds(mem)' /\ Named(mem') \subseteq Shown
    BY <1>1, <1>2, <1>3, CopyNames DEF CopyHolds
  <2>2. CopyHolds(disk)' /\ CopyHolds(lsCopy)'
    BY <1>1, <1>2, <2>1 DEF IInv, CopiesInv, CopyHolds
  <2> QED  BY <1>1, <1>2, <2>1, <2>2 DEF IInv, CopiesInv, FlowInv
<1>8. WalkInv'
  BY <1>1, <1>2, <1>3 DEF IInv, WalkInv, Training1, Called, Holding
<1>9. HadInv'
  BY <1>1, <1>2, <1>3 DEF IInv, HadInv, Podless
<1>10. DiskInv'
  <2>1. ~stale => named \cap Up \subseteq Named(mem')
    BY <1>1, <1>3 DEF IInv, DiskInv
  <2>2. mem.attempts <= mem'.attempts
    BY <1>1, <1>3, RecordIs
  <2> QED  BY <1>1, <1>3, <2>1, <2>2, DiskSaved
<1>11. RmInv'
  BY <1>1, <1>2, <1>3 DEF IInv, RmInv, Training1, Holding
<1>12. JobInv'
  <2>1. ~Settled' /\ ~Called' /\ ~Rm' /\ pc' \notin {"sweepall", "note", "start", "stray", "marked"}
    BY <1>1 DEF Settled, Called, Rm
  <2>2. trains \notin Up
    BY <1>4 DEF Up, Attempts, NoPod
  <2> QED  BY <1>1, <1>2, <1>4, <2>1, <2>2 DEF IInv, JobInv
<1> QED  BY <1>6, <1>7, <1>8, <1>9, <1>10, <1>11, <1>12 DEF IInv

-----------------------------------------------------------------------------
(* The start. *)

LEMMA SavesRecordKeeps ==
  ASSUME IInv, SavesRecord, UNCHANGED <<rm, lsvars>>, TypeOK'
  PROVE  IInv'
<1>1. /\ pc = "start" /\ mem' = NewRecord /\ disk = NoRecord /\ ls = "off"
      /\ \/ disk' = NewRecord /\ named' = {} /\ pc' = "key"
         \/ disk' = NoRecord /\ named' = {} /\ pc' = "fail"
      /\ UNCHANGED <<pods, then, had, trains, rm, lsvars>>
      /\ named = {} /\ had = {} /\ owed = {} /\ trains = NoPod
      /\ \A a \in Attempts : pods[a] = "none"
  BY NewIs DEF SavesRecord, Saves, IInv, FlowInv, JobInv, RmInv
<1>2. Up = {} /\ Up' = {} /\ Shown' = Shown
  BY <1>1 DEF Up, Shown
<1>3. /\ mem' \in Records /\ mem'.attempts = 0 /\ mem'.strays = {}
      /\ mem'.pod = NoPod /\ mem'.state = "Creating" /\ Named(mem') = {}
      /\ mem' # NoRecord
  BY <1>1, NewIs, RecordIs
<1>4. FlowInv'
  BY <1>1, <1>3 DEF IInv, FlowInv, Holding
<1>5. CopiesInv'
  BY <1>1, <1>2, <1>3, NewIs DEF IInv, CopiesInv, CopyHolds, Named
<1>6. WalkInv'
  BY <1>1, <1>3 DEF IInv, WalkInv, Training1, Called, Holding
<1>7. HadInv'
  BY <1>1, <1>2, <1>3 DEF IInv, HadInv, Podless
<1>8. DiskInv'
  BY <1>1, <1>2, <1>3, NewIs DEF IInv, DiskInv, Named
<1>9. RmInv'
  BY <1>1, <1>2 DEF IInv, RmInv
<1>10. JobInv'
  BY <1>1, <1>2 DEF IInv, JobInv, Settled, Called, Rm
<1> QED  BY <1>4, <1>5, <1>6, <1>7, <1>8, <1>9, <1>10 DEF IInv

LEMMA BeginsCallKeeps ==
  ASSUME IInv, BeginsCall, UNCHANGED <<rm, lsvars>>, TypeOK'
  PROVE  IInv'
<1>1. /\ mem \in Records /\ mem # NoRecord /\ Holding /\ CopyHolds(mem)
      /\ Training1 /\ pc = "create" /\ pc' \in {"send", "after"}
      /\ mem.attempts < MAX_CALLS
      /\ UNCHANGED <<pods, had, trains, ls, lsPod, lsCopy, stale, then>>
      /\ \/ mem' = BeginAttempt(mem)
         \/ mem' = mem /\ pc' = "after"
      /\ Writes(mem') \/ (UNCHANGED <<disk, named>> /\ pc' # "send")
  BY HoldsRecord DEF Holding, Training1, BeginsCall, Saves
<1>2. Up' = Up /\ Shown' = Shown
  BY <1>1 DEF Up, Shown
<1>3. /\ mem' \in Records /\ mem.attempts <= mem'.attempts
      /\ pc' = "send" => mem'.attempts = mem.attempts + 1
      /\ mem'.strays = mem.strays /\ mem'.pod = mem.pod
      /\ Named(mem) \subseteq Named(mem')
      /\ Named(mem') \subseteq mem.strays \cup ({mem.pod} \ {NoPod})
      /\ mem'.state \in {mem.state, "Creating"} /\ mem' # NoRecord
      /\ mem.attempts \in Nat /\ mem'.attempts \in Nat
  BY <1>1, BeginIs, RecordIs DEF Named
<1>4. trains = NoPod /\ NoPod \notin Up
  BY <1>1 DEF IInv, JobInv, Up, Attempts, NoPod
<1>5. \A a \in Attempts : pods[a] # "none" => a <= mem.attempts
  BY <1>1 DEF IInv, WalkInv
<1>6. FlowInv'
  BY <1>1, <1>3 DEF IInv, FlowInv, Holding
<1>7. CopiesInv'
  <2>1. CopyHolds(mem)' /\ Named(mem') \subseteq Shown
    BY <1>1, <1>2, <1>3 DEF CopyHolds
  <2>2. CopyHolds(disk)' /\ CopyHolds(lsCopy)'
    BY <1>1, <1>2, <2>1 DEF IInv, CopiesInv, CopyHolds
  <2> QED  BY <1>1, <1>2, <2>1, <2>2 DEF IInv, CopiesInv, FlowInv
<1>8. WalkInv'
  <2>1. \A a \in Attempts : pods[a] # "none" => a <= mem'.attempts
    BY <1>3, <1>5 DEF Attempts
  <2>2. pc' = "send" => pods[mem'.attempts] = "none" /\ mem'.attempts > 0
    BY <1>1, <1>3, <1>5, RecordIs DEF Attempts
  <2> QED  BY <1>1, <2>1, <2>2 DEF WalkInv, Called
<1>9. HadInv'
  BY <1>1, <1>2, <1>3 DEF IInv, HadInv, Podless
<1>10. DiskInv'
  <2>1. ~stale => named \cap Up \subseteq Named(mem')
    BY <1>1, <1>3 DEF IInv, DiskInv
  <2> QED  BY <1>1, <1>3, <2>1, DiskSaved
<1>11. RmInv'
  BY <1>1, <1>2 DEF IInv, RmInv
<1>12. JobInv'
  <2>1. ~Settled' /\ ~Rm' /\ (Called' => pc' = "send")
    BY <1>1 DEF Settled, Called, Rm
  <2>2. pc' = "send" => mem'.attempts \notin mem'.strays
    <3>1. \A a \in mem.strays : a \in Attempts /\ pods[a] # "none"
      BY <1>1 DEF CopyHolds, Shown
    <3> QED  BY <1>3, <1>5, <3>1 DEF Attempts
  <2>3. pc' = "send" => disk' = mem' /\ mem' # NoRecord
    BY <1>1, <1>3
  <2> QED  BY <1>1, <1>2, <1>4, <2>1, <2>2, <2>3 DEF IInv, JobInv
<1> QED  BY <1>6, <1>7, <1>8, <1>9, <1>10, <1>11, <1>12 DEF IInv

LEMMA AnswersKeep ==
  ASSUME IInv, AnswersNo \/ AnswersUnclear, UNCHANGED <<rm, lsvars>>, TypeOK'
  PROVE  IInv'
<1>1. /\ mem \in Records /\ mem # NoRecord /\ Holding /\ CopyHolds(mem)
      /\ Training1 /\ Called /\ pc = "answer" /\ mem.attempts > 0
      /\ pc' \in {"type", "after", "look1"}
      /\ UNCHANGED <<pods, had, trains, ls, lsPod, lsCopy, stale, then>>
      /\ mem' = mem \/ mem' = EndUnclear(mem)
      /\ Writes(mem') \/ UNCHANGED <<disk, named>>
      /\ pc' = "look1" => Writes(mem')
  BY HoldsRecord DEF Holding, Training1, Called, AnswersNo, AnswersUnclear,
     Saves, IInv, WalkInv
<1>2. Up' = Up /\ Shown' = Shown
  BY <1>1 DEF Up, Shown
<1>3. /\ mem' \in Records /\ mem'.attempts = mem.attempts
      /\ mem'.strays = mem.strays /\ mem'.pod = mem.pod
      /\ mem'.state = mem.state
      /\ Named(mem') = Named(mem) /\ mem' # NoRecord
  BY <1>1, UnclearIs, RecordIs
<1>4. trains = NoPod /\ NoPod \notin Up
  BY <1>1 DEF IInv, JobInv, Up, Attempts, NoPod
<1>6. FlowInv'
  BY <1>1, <1>3 DEF IInv, FlowInv, Holding
<1>7. CopiesInv'
  <2>1. CopyHolds(mem)' /\ Named(mem') \subseteq Shown
    BY <1>1, <1>2, <1>3, CopyNames DEF CopyHolds
  <2>2. CopyHolds(disk)' /\ CopyHolds(lsCopy)'
    BY <1>1, <1>2, <2>1 DEF IInv, CopiesInv, CopyHolds
  <2> QED  BY <1>1, <1>2, <2>1, <2>2 DEF IInv, CopiesInv, FlowInv
<1>8. WalkInv'
  BY <1>1, <1>3 DEF IInv, WalkInv, Called
<1>9. HadInv'
  BY <1>1, <1>2, <1>3 DEF IInv, HadInv, Podless
<1>10. DiskInv'
  <2>1. ~stale => named \cap Up \subseteq Named(mem')
    BY <1>1, <1>3 DEF IInv, DiskInv
  <2>2. mem.attempts <= mem'.attempts
    BY <1>1, <1>3, RecordIs
  <2> QED  BY <1>1, <1>3, <2>1, <2>2, DiskSaved
<1>11. RmInv'
  BY <1>1, <1>2 DEF IInv, RmInv
<1>12. JobInv'
  <2>1. ~Settled' /\ ~Rm' /\ (Called' => pc' = "look1")
    BY <1>1 DEF Settled, Called, Rm
  <2>2. pc' = "look1" => disk' = mem' /\ mem'.attempts \notin mem'.strays
    BY <1>1, <1>3 DEF IInv, JobInv
  <2> QED  BY <1>1, <1>2, <1>3, <1>4, <2>1, <2>2 DEF IInv, JobInv
<1> QED  BY <1>6, <1>7, <1>8, <1>9, <1>10, <1>11, <1>12 DEF IInv

\* The pod has an answer: it is the run's, and the process knows it.
LEMMA RecordsPodKeeps ==
  ASSUME IInv, RecordsPod, UNCHANGED <<rm, lsvars>>, TypeOK'
  PROVE  IInv'
<1>1. /\ mem \in Records /\ mem # NoRecord /\ Holding /\ CopyHolds(mem)
      /\ Training1 /\ Called /\ pc = "created" /\ mem.attempts > 0
      /\ mem.attempts \in Attempts /\ mem.attempts \in Shown
      /\ mem' = Created(mem) /\ had' = had \cup {mem.attempts}
      /\ UNCHANGED <<pods, trains, ls, lsPod, lsCopy, stale>>
      /\ \/ Writes(mem') /\ pc' = "reach"
         \/ pc' = "remove" /\ then' = "after" /\ UNCHANGED <<disk, named>>
  BY HoldsRecord, RecordIs DEF Holding, Training1, Called, RecordsPod, Removes,
     IInv, WalkInv, Attempts
<1>2. Up' = Up /\ Shown' = Shown
  BY <1>1 DEF Up, Shown
<1>3. /\ mem' \in Records /\ mem'.attempts = mem.attempts
      /\ mem'.strays = mem.strays /\ mem'.pod = mem.attempts
      /\ mem'.state = "Provisioning"
      /\ Named(mem') = mem.strays \cup {mem.attempts} /\ mem' # NoRecord
  BY <1>1, CreatedIs, RecordIs
<1>4. trains = NoPod /\ NoPod \notin Up
  BY <1>1 DEF IInv, JobInv, Up, Attempts, NoPod
<1>5. mem.pod = NoPod
  BY <1>1 DEF IInv, HadInv, Podless
<1>6. FlowInv'
  BY <1>1, <1>3 DEF IInv, FlowInv, Holding
<1>7. CopiesInv'
  <2>1. CopyHolds(mem)' /\ Named(mem') \subseteq Shown
    BY <1>1, <1>2, <1>3 DEF CopyHolds
  <2>2. CopyHolds(disk)' /\ CopyHolds(lsCopy)'
    BY <1>1, <1>2, <2>1 DEF IInv, CopiesInv, CopyHolds
  <2> QED  BY <1>1, <1>2, <2>1, <2>2 DEF IInv, CopiesInv, FlowInv
<1>8. WalkInv'
  BY <1>1, <1>3 DEF IInv, WalkInv, Called
<1>9. HadInv'
  BY <1>1, <1>2, <1>3 DEF IInv, HadInv, Podless
<1>10. DiskInv'
  <2>1. ~stale => named \cap Up \subseteq Named(mem')
    <3>1. Named(mem) = mem.strays \cup {}
      BY <1>1, <1>5 DEF Named
    <3> QED  BY <1>1, <1>3, <3>1 DEF IInv, DiskInv
  <2>2. mem.attempts <= mem'.attempts
    BY <1>1, <1>3, RecordIs
  <2> QED  BY <1>1, <1>3, <2>1, <2>2, DiskSaved
<1>11. RmInv'
  BY <1>1, <1>2 DEF IInv, RmInv
<1>12. JobInv'
  <2>1. /\ ~Called' /\ ~Rm' /\ (Settled' => pc' = "reach")
    BY <1>1 DEF Settled, Called, Rm
  <2>2. mem.attempts \notin mem.strays
    BY <1>1 DEF IInv, JobInv
  <2>3. pc' = "reach" => disk' = mem' /\ mem'.pod \in named'
    BY <1>1, <1>3
  <2> QED  BY <1>1, <1>2, <1>3, <1>4, <2>1, <2>2, <2>3 DEF IInv, JobInv
<1> QED  BY <1>6, <1>7, <1>8, <1>9, <1>10, <1>11, <1>12 DEF IInv

\* settle: the pod is ready, or it is removed.
LEMMA SettlesKeep ==
  ASSUME IInv, BecomesReady \/ NotReady \/ GivesUp, UNCHANGED <<rm, lsvars>>,
         TypeOK'
  PROVE  IInv'
<1>1. /\ mem \in Records /\ mem # NoRecord /\ Holding /\ CopyHolds(mem)
      /\ Training1 /\ Settled /\ pc = "reach" /\ pc' \in {"sweep", "remove"}
      /\ pc' = "remove" => then' \in {"type", "after"}
      /\ UNCHANGED <<pods, had, trains, ls, lsPod, lsCopy, stale>>
      /\ mem' = mem \/ mem' = InState(mem, "Ready")
      /\ Writes(mem') \/ UNCHANGED <<disk, named>>
  BY HoldsRecord DEF Holding, Training1, Settled, BecomesReady, NotReady,
     GivesUp, Removes
<1>2. Up' = Up /\ Shown' = Shown
  BY <1>1 DEF Up, Shown
<1>3. /\ mem' \in Records /\ mem'.attempts = mem.attempts
      /\ mem'.strays = mem.strays /\ mem'.pod = mem.pod
      /\ mem'.state \in {mem.state, "Ready"}
      /\ Named(mem) \subseteq Named(mem') /\ mem' # NoRecord
      /\ Named(mem') \subseteq mem.strays \cup ({mem.pod} \ {NoPod})
  <2>1. Named(mem) \subseteq mem.strays \cup ({mem.pod} \ {NoPod})
    BY <1>1 DEF Named
  <2>2. CASE mem' = mem
    BY <1>1, <2>1, <2>2
  <2>3. CASE mem' = InState(mem, "Ready")
    <3>1. /\ mem' \in Records /\ mem'.attempts = mem.attempts
          /\ mem'.strays = mem.strays /\ mem'.pod = mem.pod
          /\ mem'.state = "Ready"
          /\ Named(mem') = mem.strays \cup ({mem.pod} \ {NoPod})
      BY <1>1, <2>3, StateIs DEF PodStates
    <3> QED  BY <2>1, <3>1, RecordIs
  <2> QED  BY <1>1, <2>2, <2>3
<1>4. trains = NoPod /\ NoPod \notin Up
  BY <1>1 DEF IInv, JobInv, Up, Attempts, NoPod
<1>6. FlowInv'
  BY <1>1, <1>3 DEF IInv, FlowInv, Holding
<1>7. CopiesInv'
  <2>1. CopyHolds(mem)' /\ Named(mem') \subseteq Shown
    BY <1>1, <1>2, <1>3 DEF CopyHolds
  <2>2. CopyHolds(disk)' /\ CopyHolds(lsCopy)'
    BY <1>1, <1>2, <2>1 DEF IInv, CopiesInv, CopyHolds
  <2> QED  BY <1>1, <1>2, <2>1, <2>2 DEF IInv, CopiesInv, FlowInv
<1>8. WalkInv'
  BY <1>1, <1>3 DEF IInv, WalkInv, Called
<1>9. HadInv'
  BY <1>1, <1>2, <1>3 DEF IInv, HadInv, Podless
<1>10. DiskInv'
  <2>1. ~stale => named \cap Up \subseteq Named(mem')
    BY <1>1, <1>3 DEF IInv, DiskInv
  <2>2. mem.attempts <= mem'.attempts
    BY <1>1, <1>3, RecordIs
  <2> QED  BY <1>1, <1>3, <2>1, <2>2, DiskSaved
<1>11. RmInv'
  BY <1>1, <1>2 DEF IInv, RmInv
<1>12. JobInv'
  <2>1. /\ ~Called' /\ ~Rm' /\ (Settled' => pc' = "sweep")
    BY <1>1 DEF Settled, Called, Rm
  <2>2. mem'.pod \in named' /\ mem'.pod \notin mem'.strays
    BY <1>1, <1>3 DEF IInv, JobInv
  <2>3. ~stale => disk' # NoRecord /\ mem'.pod \notin disk'.strays
    BY <1>1, <1>3, <2>2 DEF IInv, JobInv
  <2> QED  BY <1>1, <1>2, <1>4, <2>1, <2>2, <2>3 DEF IInv, JobInv
<1> QED  BY <1>6, <1>7, <1>8, <1>9, <1>10, <1>11, <1>12 DEF IInv

LEMMA JobStartedKeeps ==
  ASSUME IInv, JobStarted, UNCHANGED <<rm, lsvars>>, TypeOK'
  PROVE  IInv'
<1>1. /\ mem \in Records /\ mem # NoRecord /\ Holding /\ CopyHolds(mem)
      /\ Training1 /\ pc = "job" /\ pc' = "working"
      /\ UNCHANGED <<pods, had, trains, ls, lsPod, lsCopy, stale, then>>
      /\ mem' = InState(mem, "Running")
      /\ Writes(mem') \/ UNCHANGED <<disk, named>>
  BY HoldsRecord DEF Holding, Training1, JobStarted, Saves
<1>2. Up' = Up /\ Shown' = Shown
  BY <1>1 DEF Up, Shown
<1>3. /\ mem' \in Records /\ mem'.attempts = mem.attempts
      /\ mem'.strays = mem.strays /\ mem'.pod = mem.pod
      /\ mem'.state = "Running"
      /\ Named(mem) \subseteq Named(mem') /\ mem' # NoRecord
      /\ Named(mem') \subseteq mem.strays \cup ({mem.pod} \ {NoPod})
  <2>1. /\ mem' \in Records /\ mem'.attempts = mem.attempts
        /\ mem'.strays = mem.strays /\ mem'.pod = mem.pod
        /\ mem'.state = "Running"
        /\ Named(mem') = mem.strays \cup ({mem.pod} \ {NoPod})
    BY <1>1, StateIs DEF PodStates
  <2>2. Named(mem) \subseteq mem.strays \cup ({mem.pod} \ {NoPod})
    BY <1>1 DEF Named
  <2> QED  BY <2>1, <2>2, RecordIs
<1>6. FlowInv'
  BY <1>1, <1>3 DEF IInv, FlowInv, Holding
<1>7. CopiesInv'
  <2>1. CopyHolds(mem)' /\ Named(mem') \subseteq Shown
    BY <1>1, <1>2, <1>3 DEF CopyHolds
  <2>2. CopyHolds(disk)' /\ CopyHolds(lsCopy)'
    BY <1>1, <1>2, <2>1 DEF IInv, CopiesInv, CopyHolds
  <2> QED  BY <1>1, <1>2, <2>1, <2>2 DEF IInv, CopiesInv, FlowInv
<1>8. WalkInv'
  BY <1>1, <1>3 DEF IInv, WalkInv, Called
<1>9. HadInv'
  BY <1>1, <1>2, <1>3 DEF IInv, HadInv, Podless
<1>10. DiskInv'
  <2>1. ~stale => named \cap Up \subseteq Named(mem')
    BY <1>1, <1>3 DEF IInv, DiskInv
  <2>2. mem.attempts <= mem'.attempts
    BY <1>1, <1>3, RecordIs
  <2> QED  BY <1>1, <1>3, <2>1, <2>2, DiskSaved
<1>11. RmInv'
  BY <1>1, <1>2 DEF IInv, RmInv
<1>12. JobInv'
  <2>1. ~Called' /\ ~Rm' /\ ~Settled'
    BY <1>1 DEF Settled, Called, Rm
  <2>2. ~stale /\ trains \in Up =>
          trains \in named' /\ trains \notin mem'.strays
          /\ (disk' # NoRecord => trains \notin disk'.strays)
    BY <1>1, <1>3 DEF IInv, JobInv
  <2>3. trains # NoPod => trains = mem'.pod
    BY <1>1, <1>3 DEF IInv, JobInv
  <2> QED  BY <1>1, <1>2, <2>1, <2>2, <2>3 DEF JobInv
<1> QED  BY <1>6, <1>7, <1>8, <1>9, <1>10, <1>11, <1>12 DEF IInv

-----------------------------------------------------------------------------
(* pod rm, and the sweep of a later train. *)

LEMMA RmStartsKeeps ==
  ASSUME IInv, RmStarts, UNCHANGED lsvars, TypeOK'
  PROVE  IInv'
<1>1. PICK keep \in BOOLEAN :
        /\ pc = "over" /\ mem' = disk /\ keeps' = keep
        /\ keep => Training(disk) # NoPod
        /\ \/ /\ ~keep /\ Training(disk) # NoPod
              /\ pc' = "remove" /\ then' = "rm"
           \/ pc' = "strays" /\ (keep \/ Training(disk) = NoPod)
        /\ asked' = {Training(disk)} \ {NoPod} /\ owed' = Up
        /\ UNCHANGED <<pods, disk, had, named, trains, failed, lsvars>>
  BY DEF RmStarts, Free, Removes
<1>2. Up' = Up /\ Shown' = Shown /\ Up \subseteq Shown
  BY <1>1 DEF Up, Shown
<1>3. pc' = "remove" => disk \in Records /\ disk # NoRecord /\ disk.pod = Training(disk)
  BY <1>1 DEF IInv, TypeOK, PTypeOK, Training
<1>4. Training(disk) # NoPod => Training(disk) \in Shown /\ disk # NoRecord
                                /\ disk.pod = Training(disk)
  BY DEF IInv, CopiesInv, CopyHolds, Training
<1>6. FlowInv'
  BY <1>1, <1>3 DEF IInv, FlowInv, Holding
<1>7. CopiesInv'
  BY <1>1, <1>2, <1>4 DEF IInv, CopiesInv, CopyHolds, FlowInv
<1>8. WalkInv'
  BY <1>1 DEF WalkInv, Training1, Called, Holding
<1>9. HadInv'
  BY <1>1 DEF HadInv, Podless
<1>10. DiskInv'
  BY <1>1, <1>2, <1>3, RecordIs DEF IInv, DiskInv, Holding
<1>11. RmInv'
  BY <1>1, <1>3, <1>4 DEF IInv, RmInv, Training1, Holding
<1>12. JobInv'
  <2>1. ~Called' /\ ~Settled' /\ ~Training1'
    BY <1>1 DEF Settled, Called, Training1, Holding
  <2>2. ~stale /\ trains \in Up => trains \in asked'
    <3>1. ~stale /\ trains \in Up =>
            /\ trains \in Named(disk) /\ trains # NoPod
            /\ disk # NoRecord => trains \notin disk.strays
      BY DEF IInv, JobInv, DiskInv, Up, Attempts, NoPod
    <3>2. ~stale /\ trains \in Up => trains = Training(disk)
      BY <3>1 DEF Named, Training
    <3>3. asked' = {Training(disk)} \ {NoPod}
      BY <1>1
    <3> QED  BY <3>1, <3>2, <3>3
  <2>3. ~stale /\ trains \in Up =>
          /\ trains \in named
          /\ disk # NoRecord => trains \notin disk.strays
          /\ Holding' => trains \notin mem'.strays
    BY <1>1, <1>3 DEF IInv, JobInv, Holding
  <2>4. pc' \notin {"start", "sweepall", "note", "stray", "marked"}
    BY <1>1
  <2>5. UNCHANGED <<pods, disk, named, trains, stale>>
    BY <1>1
  <2> QED  BY <1>2, <2>1, <2>2, <2>3, <2>4, <2>5 DEF JobInv
<1> QED  BY <1>6, <1>7, <1>8, <1>9, <1>10, <1>11, <1>12 DEF IInv

\* The steps of pod rm between its deletes, and the sweep of a later train.
RmMoves == RmRecorded \/ RmReadsStrays \/ RmLists \/ RmEnds \/ ListsKeys \/ SweepsKey

LEMMA RmMovesKeep ==
  ASSUME IInv, RmMoves, UNCHANGED lsvars, TypeOK'
  PROVE  IInv'
<1> USE DEF RmMoves, RmRecorded, RmReadsStrays, RmLists, RmEnds, ListsKeys,
            SweepsKey, Free
<1>1. /\ UNCHANGED <<pods, disk, mem, then, had, named, trains, owed, asked, keeps>>
      /\ Up' = Up /\ Shown' = Shown /\ Up \subseteq Shown
      /\ pc \in {"removed", "unremoved", "strays", "stray", "marked", "over", "sweeping"}
      /\ pc' \in {"strays", "stray", "marked", "keys", "exit", "sweeping"}
  BY DEF Up, Shown
<1>2. /\ ~Called' /\ ~Settled' /\ ~Training1' /\ ~Holding' /\ ~Podless'
      /\ Rm' => Rm
  BY <1>1 DEF Settled, Called, Training1, Holding, Podless, Rm
<1>6. FlowInv'
  BY <1>1, <1>2 DEF IInv, FlowInv
<1>7. CopiesInv'
  <2>1. CopyHolds(disk)' /\ CopyHolds(mem)' /\ CopyHolds(lsCopy)'
    BY <1>1 DEF IInv, CopiesInv, CopyHolds
  <2>2. pc' \in {"stray", "marked"} => todo' \subseteq Shown
    BY <1>1 DEF IInv, CopiesInv, CopyHolds
  <2> QED  BY <1>1, <2>1, <2>2 DEF IInv, CopiesInv
<1>8. WalkInv'
  BY <1>1, <1>2 DEF WalkInv
<1>9. HadInv'
  BY <1>1, <1>2 DEF HadInv
<1>10. DiskInv'
  <2>1. pc' = "sweeping" => Up = {}
    BY <1>1
  <2> QED  BY <1>1, <1>2, <2>1 DEF IInv, DiskInv
<1>11. RmInv'
  BY <1>1, <1>2 DEF IInv, RmInv
<1>12. JobInv'
  <2>1. pc' = "stray" => todo' = IF disk = NoRecord THEN {} ELSE disk.strays
    BY <1>1
  <2>2. pc' = "marked" /\ pc = "stray" => todo' \subseteq Up \ asked
    BY <1>1
  <2>3. pc' = "marked" => Rm
    BY <1>1 DEF Rm
  <2> QED  BY <1>1, <1>2, <2>1, <2>2, <2>3 DEF IInv, JobInv
<1> QED  BY <1>6, <1>7, <1>8, <1>9, <1>10, <1>11, <1>12 DEF IInv

\* A delete of pod rm, and what it saves of it.
LEMMA RmDeletesKeep ==
  ASSUME IInv, RmStray \/ RmMarked, UNCHANGED lsvars, TypeOK'
  PROVE  IInv'
<1>1. PICK a \in todo, left \in SUBSET Up :
        /\ left \subseteq {a}
        /\ pods' = Unconfirmed({a}, left) /\ todo' = todo \ {a}
        /\ left # {} => failed'
        /\ failed => failed'
        /\ \/ UNCHANGED <<disk, named>>
           \/ disk # NoRecord /\ Writes(NoteStrays(disk, {a})) /\ pc = "marked" /\ failed'
           \/ Writes(DropStray(disk, a)) /\ pc = "stray" /\ left = {}
        /\ asked' = asked \cup {a} \/ (pc = "marked" /\ asked' = asked)
        /\ pc \in {"stray", "marked"}
        /\ UNCHANGED <<mem, pc, then, had, trains, keeps, owed, lsvars>>
  <2>1. CASE RmStray
    BY <2>1 DEF RmStray, Edits
  <2>2. CASE RmMarked
    BY <2>2 DEF RmMarked
  <2> QED  BY <2>1, <2>2
<1>2. a \in Attempts /\ a \in Shown /\ Up \subseteq Shown
  BY <1>1 DEF IInv, CopiesInv, Up, Shown
<1>3. /\ Shown' = Shown /\ Up' = Up \ ({a} \ left)
      /\ \A b \in Attempts : (pods'[b] = "none") = (pods[b] = "none")
      /\ \A b \in Attempts : pods[b] = "gone" => pods'[b] = "gone"
  BY <1>1, <1>2, UnconfirmedIs DEF IInv
<1>4. pc = "stray" => disk \in Records /\ disk # NoRecord
  BY <1>1 DEF IInv, FlowInv, TypeOK, PTypeOK
<1>5. disk # NoRecord =>
        /\ disk' \in Records /\ disk' # NoRecord /\ disk'.attempts = disk.attempts
        /\ disk'.pod = disk.pod /\ disk'.state = disk.state
        /\ disk'.strays \subseteq disk.strays \cup {a}
        /\ Named(disk) \ ({a} \ left) \subseteq Named(disk')
        /\ Named(disk') \subseteq Named(disk) \cup {a}
        /\ disk'.strays \subseteq disk.strays \/ pc = "marked"
  <2>1. HAVE disk # NoRecord
  <2>2. disk \in Records
    BY <2>1 DEF IInv, TypeOK, PTypeOK
  <2>3. CASE UNCHANGED <<disk, named>>
    BY <2>2, <2>3, RecordIs
  <2>4. CASE disk' = NoteStrays(disk, {a}) /\ pc = "marked"
    BY <1>2, <2>2, <2>4, NoteIs, RecordIs
  <2>5. CASE disk' = DropStray(disk, a) /\ left = {}
    BY <2>2, <2>5, DropIs, RecordIs
  <2> QED  BY <1>1, <2>3, <2>4, <2>5
<1>6. disk = NoRecord => disk' = NoRecord
  BY <1>1, <1>4
<1>7. /\ ~Called' /\ ~Settled' /\ ~Training1' /\ ~Holding' /\ ~Podless' /\ Rm
  BY <1>1 DEF Settled, Called, Training1, Holding, Podless, Rm
<1>8. FlowInv'
  BY <1>1, <1>4, <1>5, <1>7 DEF IInv, FlowInv
<1>9. CopiesInv'
  <2>1. CopyHolds(mem)' /\ CopyHolds(lsCopy)'
    BY <1>1, <1>3 DEF IInv, CopiesInv, CopyHolds
  <2>2. CopyHolds(disk)'
    BY <1>2, <1>3, <1>5, <1>6 DEF IInv, CopiesInv, CopyHolds
  <2>3. named' \subseteq Shown /\ Named(disk') \subseteq named'
    <3>1. named \subseteq Shown /\ Named(disk) \subseteq named
      BY DEF IInv, CopiesInv
    <3>2. UNCHANGED <<disk, named>> \/ (named' = named \cup Named(disk') /\ disk # NoRecord)
      BY <1>1, <1>4
    <3> QED  BY <1>2, <1>5, <3>1, <3>2
  <2> QED  BY <1>1, <1>2, <1>3, <2>1, <2>2, <2>3 DEF IInv, CopiesInv
<1>10. WalkInv'
  BY <1>1, <1>7 DEF WalkInv
<1>11. HadInv'
  BY <1>1, <1>7 DEF HadInv
<1>12. DiskInv'
  BY <1>1, <1>3, <1>5, <1>6, <1>7 DEF IInv, DiskInv
<1>13. RmInv'
  BY <1>1, <1>3, <1>7 DEF IInv, RmInv
<1>14. JobInv'
  BY <1>1, <1>3, <1>5, <1>6, <1>7 DEF IInv, JobInv, Rm
<1> QED  BY <1>8, <1>9, <1>10, <1>11, <1>12, <1>13, <1>14 DEF IInv

-----------------------------------------------------------------------------
(* pod ls, and the end of a process. *)

LEMMA LsMovesKeep ==
  ASSUME IInv, LsFinds \/ LsReads \/ LsFails \/ LsLooksForPods \/ LsDropsKey,
         TypeOK'
  PROVE  IInv'
<1> USE DEF LsFinds, LsReads, LsFails, LsLooksForPods, LsDropsKey, LsOver
<1>1. /\ UNCHANGED <<pods, disk, mem, pc, then, had, named, trains, rm, stale>>
      /\ Up' = Up /\ Shown' = Shown
  BY DEF Up, Shown, pvars
<1>2. /\ Holding' = Holding /\ Training1' = Training1 /\ Podless' = Podless
      /\ Called' = Called /\ Settled' = Settled /\ Rm' = Rm
  BY <1>1 DEF Holding, Training1, Podless, Called, Settled, Rm
<1>3. Named(disk) # {} => disk # NoRecord
  BY DEF Named
<1>4. FlowInv'
  BY <1>1, <1>2, <1>3 DEF IInv, FlowInv, CopiesInv
<1>5. CopiesInv'
  <2>1. CopyHolds(disk)' /\ CopyHolds(mem)' /\ CopyHolds(lsCopy)'
    BY <1>1 DEF IInv, CopiesInv, CopyHolds
  <2>2. ls' \in {"pod", "stray", "gone", "dropped"} =>
          lsPod' \in Attempts /\ pods[lsPod'] = "gone"
    <3>1. Named(disk) \subseteq Attempts
      BY <1>3, RecordIs DEF IInv, TypeOK, PTypeOK
    <3> QED  BY <3>1 DEF IInv, CopiesInv
  <2>3. ls' = "gone" => lsCopy'.pod = lsPod'
    <3>1. ls' = "gone" => Training(disk) = lsPod /\ lsPod \in Attempts
                          /\ lsCopy' = disk /\ lsPod' = lsPod
      BY DEF IInv, CopiesInv
    <3> QED  BY <3>1 DEF Training, Attempts, NoPod
  <2> QED  BY <1>1, <2>1, <2>2, <2>3 DEF IInv, CopiesInv
<1>6. WalkInv' /\ HadInv' /\ DiskInv'
  BY <1>1, <1>2 DEF IInv, WalkInv, HadInv, DiskInv
<1>7. RmInv' /\ JobInv'
  BY <1>1, <1>2 DEF IInv, RmInv, JobInv
<1> QED  BY <1>4, <1>5, <1>6, <1>7 DEF IInv

LEMMA LsSavesKeeps ==
  ASSUME IInv, LsSaves, TypeOK'
  PROVE  IInv'
<1> USE DEF LsSaves, LsOver
<1>1. /\ UNCHANGED <<pods, mem, pc, then, had, trains, rm>>
      /\ Up' = Up /\ Shown' = Shown
      /\ named' = named \cup Named(disk')
      /\ ls' \in {"keys", "off"} /\ lsCopy' = NoRecord
      /\ ~stale' => ~stale /\ disk = lsCopy
  BY DEF Up, Shown
<1>2. /\ Holding' = Holding /\ Training1' = Training1 /\ Podless' = Podless
      /\ Called' = Called /\ Settled' = Settled /\ Rm' = Rm
  BY <1>1 DEF Holding, Training1, Podless, Called, Settled, Rm
<1>3. /\ lsCopy \in Records /\ lsCopy # NoRecord /\ CopyHolds(lsCopy)
      /\ lsPod \notin Up /\ disk # NoRecord
      /\ ls = "gone" => lsCopy.pod = lsPod
  BY DEF IInv, TypeOK, FlowInv, CopiesInv, Up
<1>4. /\ disk' \in Records /\ disk'.attempts = lsCopy.attempts
      /\ disk'.strays \subseteq lsCopy.strays /\ disk'.pod = lsCopy.pod
      /\ Named(lsCopy) \ {lsPod} \subseteq Named(disk')
      /\ Named(disk') \subseteq Named(lsCopy)
      /\ disk'.state = lsCopy.state \/ disk'.pod = lsPod
  <2>1. CASE disk' = InState(lsCopy, "Deleted") /\ ls = "gone"
    <3>1. /\ disk' \in Records /\ disk'.attempts = lsCopy.attempts
          /\ disk'.strays = lsCopy.strays /\ disk'.pod = lsCopy.pod
          /\ Named(disk') = lsCopy.strays
      BY <1>3, <2>1, StateIs DEF PodStates
    <3>2. /\ Named(lsCopy) \subseteq lsCopy.strays \cup {lsPod}
          /\ lsCopy.strays \subseteq Named(lsCopy)
      BY <1>3, <2>1 DEF Named
    <3> QED  BY <1>3, <2>1, <3>1, <3>2
  <2>2. CASE disk' = DropStray(lsCopy, lsPod)
    BY <1>3, <2>2, DropIs
  <2> QED  BY <2>1, <2>2
<1>5. disk' # NoRecord /\ pc \notin {"start", "key"}
  BY <1>4, RecordIs DEF IInv, FlowInv
<1>6. FlowInv'
  BY <1>1, <1>2, <1>5 DEF IInv, FlowInv
<1>7. CopiesInv'
  <2>1. CopyHolds(mem)' /\ CopyHolds(lsCopy)'
    BY <1>1 DEF IInv, CopiesInv, CopyHolds
  <2>2. CopyHolds(disk)'
    BY <1>1, <1>3, <1>4 DEF CopyHolds
  <2>3. Named(disk') \subseteq Shown
    BY <1>3, <1>4, CopyNames
  <2> QED  BY <1>1, <2>1, <2>2, <2>3 DEF IInv, CopiesInv
<1>8. WalkInv' /\ HadInv'
  BY <1>1, <1>2 DEF IInv, WalkInv, HadInv
<1>9. DiskInv'
  <2>1. SUFFICES ASSUME ~stale' PROVE DiskInv'
    BY DEF DiskInv
  <2>2. disk'.attempts = disk.attempts /\ named' \cap Up = named \cap Up
    BY <1>1, <1>4, <2>1 DEF IInv, CopiesInv
  <2>3. named \cap Up \subseteq Named(disk')
    BY <1>1, <1>3, <1>4, <2>1 DEF IInv, DiskInv
  <2> QED  BY <1>1, <1>2, <1>3, <1>5, <2>1, <2>2, <2>3 DEF IInv, DiskInv
<1>10. RmInv'
  BY <1>1, <1>2 DEF IInv, RmInv
<1>11. JobInv'
  BY <1>1, <1>2, <1>3, <1>4, <1>5 DEF IInv, JobInv
<1> QED  BY <1>6, <1>7, <1>8, <1>9, <1>10, <1>11 DEF IInv

LEMMA ExitKeeps ==
  ASSUME IInv, ExitNext, TypeOK'
  PROVE  IInv'
<1> USE DEF ExitNext, Exits, Ends
<1>1. UNCHANGED <<pods, disk, history, lsvars>> /\ Up' = Up /\ Shown' = Shown
  BY DEF Up, Shown
<1>2. /\ ~Holding' /\ ~Training1' /\ ~Podless' /\ ~Called' /\ ~Settled' /\ ~Rm'
  BY DEF Holding, Training1, Podless, Called, Settled, Rm
<1>3. FlowInv' /\ CopiesInv'
  BY <1>1, <1>2 DEF IInv, FlowInv, CopiesInv, CopyHolds
<1>4. WalkInv' /\ HadInv' /\ DiskInv'
  BY <1>1, <1>2 DEF IInv, WalkInv, HadInv, DiskInv
<1>5. RmInv' /\ JobInv'
  BY <1>1, <1>2 DEF IInv, RmInv, JobInv
<1> QED  BY <1>3, <1>4, <1>5 DEF IInv

-----------------------------------------------------------------------------
(* The types. *)

\* What a step of train makes of its copy of pod.json.
LEMMA CopySteps ==
  ASSUME IInv, StartNext \/ RemoveNext \/ EndNext
  PROVE  /\ mem' \in Records \cup {NoRecord}
         /\ Writes(mem') \/ UNCHANGED <<disk, named>>
<1>1. mem \in Records \cup {NoRecord}
  BY DEF IInv, TypeOK, PTypeOK
<1>2. CASE Moves \/ Sends
  BY <1>1, <1>2 DEF Moves, StoresKey, TakesType, WalkEnds, AnswersPod, LookFails,
     FindsNone, FailsRun, StartsJob, Releases, EndsPod, LooksForPods, DropsKey, Sends
<1>3. CASE SweepMoves
  <2>1. UNCHANGED <<disk, named>> /\ Holding
    BY <1>3 DEF SweepMoves, Finds, SweepsOthers, AfterFailure, SweepsThenForgets, Holding
  <2>2. CASE UNCHANGED mem
    BY <1>1, <2>1, <2>2
  <2>3. CASE \E ids \in SUBSET Up : \E done, noted : Sweeps(ids, done, noted)
    BY <2>1, <2>3, SweptIs DEF SweptBy
  <2> QED  BY <1>3, <2>2, <2>3 DEF SweepMoves, Finds, SweepsOthers, AfterFailure,
              SweepsThenForgets
<1>4. CASE SavesRecord
  BY <1>4, NewIs DEF SavesRecord, Saves
<1>5. CASE Holding /\ ~Moves /\ ~SweepMoves /\ ~Sends /\ ~SavesRecord
  <2>1. mem \in Records
    BY <1>5, HoldsRecord
  <2>2. CASE BeginsCall
    BY <2>1, <2>2, BeginIs DEF BeginsCall, Saves
  <2>3. CASE AnswersNo \/ AnswersUnclear
    <3>1. mem.attempts > 0
      BY <2>3 DEF IInv, WalkInv, Called, AnswersNo, AnswersUnclear
    <3> QED  BY <2>1, <2>3, <3>1, UnclearIs DEF AnswersNo, AnswersUnclear, Saves
  <2>4. CASE RecordsPod
    <3>1. mem.attempts > 0
      BY <2>4 DEF IInv, WalkInv, Called, RecordsPod
    <3> QED  BY <2>1, <2>4, <3>1, CreatedIs DEF RecordsPod
  <2>5. CASE BecomesReady \/ NotReady \/ GivesUp
    BY <2>1, <2>5, StateIs DEF BecomesReady, NotReady, GivesUp, PodStates
  <2>6. CASE SavesDeleting \/ Deletes \/ SavesDeleted
    BY <2>1, <2>6, StateIs DEF SavesDeleting, Deletes, SavesDeleted, Saves, PodStates
  <2>7. CASE Forgets
    BY <2>1, <2>7, ForgetIs DEF Forgets, Saves
  <2>8. CASE JobStarted \/ NotesStrays
    BY <2>1, <2>8, StateIs DEF JobStarted, NotesStrays, Saves, PodStates
  <2> QED  BY <1>5, <2>2, <2>3, <2>4, <2>5, <2>6, <2>7, <2>8
           DEF StartNext, RemoveNext, EndNext, Reconciles, Moves, SweepMoves
<1>6. Holding \/ Moves \/ SweepMoves \/ Sends \/ SavesRecord
  BY DEF StartNext, RemoveNext, EndNext, Reconciles, Moves, SweepMoves, Holding,
     BeginsCall, AnswersNo, AnswersUnclear, RecordsPod, BecomesReady, NotReady,
     GivesUp, SavesDeleting, Deletes, SavesDeleted, Forgets, JobStarted, NotesStrays
<1> QED  BY <1>2, <1>3, <1>4, <1>5, <1>6

\* Another call for the same GPU type is allowed.
Tries ==
  pc \in {"create", "send", "answer", "look1", "look2"} => ambiguous < MAX_AMBIGUOUS

LEMMA TriesStep ==
  ASSUME IInv, Tries, [Next]_vars
  PROVE  Tries'
<1>1. ambiguous \in Nat /\ MAX_AMBIGUOUS \in Nat \ {0}
  BY RecordAssumption DEF IInv, TypeOK, PTypeOK
<1>2. CASE Moves
  <2>1. CASE TakesType
    BY <1>1, <2>1 DEF Tries, TakesType
  <2>2. CASE FindsNone("look1", "look2")
    BY <2>2 DEF Tries, FindsNone
  <2>3. CASE FindsNone("look2", NextTry)
    <3>1. CASE interrupted
      BY <2>3, <3>1 DEF Tries, FindsNone
    <3>2. CASE ~interrupted /\ ambiguous + 1 >= MAX_AMBIGUOUS
      BY <2>3, <3>2 DEF Tries, FindsNone, NextTry
    <3>3. CASE ~interrupted /\ ~(ambiguous + 1 >= MAX_AMBIGUOUS)
      <4>1. ambiguous' = ambiguous + 1 /\ ambiguous + 1 < MAX_AMBIGUOUS
        BY <1>1, <2>3, <3>3 DEF FindsNone, NextTry
      <4> QED  BY <4>1 DEF Tries
    <3> QED  BY <3>1, <3>2, <3>3
  <2>4. CASE StoresKey \/ WalkEnds \/ AnswersPod \/ LookFails \/ FailsRun
    BY <2>4 DEF Tries, StoresKey, WalkEnds, AnswersPod, LookFails, FailsRun
  <2>5. CASE StartsJob \/ Releases \/ EndsPod \/ LooksForPods \/ DropsKey
    BY <2>5 DEF Tries, StartsJob, Releases, EndsPod, LooksForPods, DropsKey, Removes
  <2> QED  BY <1>2, <2>1, <2>2, <2>3, <2>4, <2>5 DEF Moves
<1>3. CASE SweepMoves
  BY <1>3 DEF Tries, SweepMoves, Finds, SweepsOthers, AfterFailure,
     SweepsThenForgets, Sweeps
<1>4. CASE StartNext /\ ~Moves /\ ~SweepMoves
  BY <1>4 DEF Tries, StartNext, Reconciles, Moves, SweepMoves, SavesRecord,
     BeginsCall, Sends, AnswersNo, AnswersUnclear, RecordsPod, BecomesReady,
     NotReady, GivesUp, Saves, Removes
<1>5. CASE RemoveNext
  BY <1>5 DEF Tries, RemoveNext, SavesDeleting, Deletes, SavesDeleted, Forgets,
     Saves, Worked, Failed
<1>6. CASE NotesStrays \/ JobStarted
  BY <1>6 DEF Tries, NotesStrays, JobStarted, Saves, IInv, FlowInv
<1>7. CASE Interrupt \/ PodNext \/ UNCHANGED vars \/ LsNext \/ ExitNext
  BY <1>7 DEF Tries, Interrupt, PodNext, vars, pvars, LsNext, LsFinds, LsReads,
     LsSaves, LsFails, LsLooksForPods, LsDropsKey, ExitNext, Exits, Ends
<1>8. CASE RmNext
  BY <1>8 DEF Tries, RmNext, RmStarts, RmRecorded, RmReadsStrays, RmStray,
     RmLists, RmMarked, RmEnds, ListsKeys, SweepsKey, Removes
<1> QED  BY <1>2, <1>3, <1>4, <1>5, <1>6, <1>7, <1>8
         DEF Next, TrainNext, EndNext, Moves, SweepMoves

LEMMA TypeStep ==
  ASSUME IInv, Tries, [Next]_vars
  PROVE  TypeOK'
<1>1. pods' \in [Attempts -> PodKinds]
  BY PodsGrow DEF IInv
<1>2. /\ mem' \in Records \cup {NoRecord} /\ disk' \in Records \cup {NoRecord}
      /\ named' \subseteq Attempts
  <2>1. /\ mem \in Records \cup {NoRecord} /\ disk \in Records \cup {NoRecord}
        /\ named \subseteq Attempts
    BY DEF IInv, TypeOK, PTypeOK
  <2>2. \A r \in Records \cup {NoRecord} : Named(r) \subseteq Attempts
    BY RecordIs DEF Named
  <2>3. CASE StartNext \/ RemoveNext \/ EndNext
    BY <2>1, <2>2, <2>3, CopySteps
  <2>4. CASE Interrupt \/ PodNext \/ UNCHANGED vars
    BY <2>1, <2>4 DEF Interrupt, PodNext, vars, pvars
  <2>5. CASE ExitNext
    BY <2>1, <2>5 DEF ExitNext, Exits, Ends
  <2>6. CASE RmStarts \/ RmMoves
    BY <2>1, <2>6 DEF RmStarts, RmMoves, RmRecorded, RmReadsStrays, RmLists,
       RmEnds, ListsKeys, SweepsKey
  <2>7. CASE RmStray \/ RmMarked
    <3>1. mem' = mem
      BY <2>7 DEF RmStray, RmMarked
    <3>2. PICK a \in todo : \/ UNCHANGED <<disk, named>>
                            \/ disk # NoRecord /\ Writes(NoteStrays(disk, {a}))
                            \/ Writes(DropStray(disk, a)) /\ pc = "stray"
      BY <2>7 DEF RmStray, RmMarked, Edits
    <3>3. a \in Attempts /\ (pc = "stray" => disk # NoRecord)
      BY DEF IInv, FlowInv, TypeOK
    <3> QED  BY <2>1, <2>2, <3>1, <3>2, <3>3, NoteIs, DropIs
  <2>8. CASE LsNext /\ ~LsSaves
    BY <2>1, <2>8 DEF LsNext, LsFinds, LsReads, LsFails, LsLooksForPods, LsDropsKey, pvars
  <2>9. CASE LsSaves
    <3>1. lsCopy \in Records
      BY <2>9 DEF LsSaves, IInv, TypeOK, FlowInv
    <3> QED  BY <2>1, <2>2, <2>9, <3>1, StateIs, DropIs DEF LsSaves, PodStates
  <2> QED  BY <2>3, <2>4, <2>5, <2>6, <2>7, <2>8, <2>9
           DEF Next, TrainNext, RmNext, RmMoves
<1>3. /\ pc' \in Flow \cup RmFlow /\ then' \in Continuations
      /\ saved' \in BOOLEAN
  <2>1. pc \in Flow \cup RmFlow /\ then \in Continuations /\ saved \in BOOLEAN
    BY DEF IInv, TypeOK, PTypeOK
  <2> USE DEF Flow, Walking, Continuations
  <2>2. CASE StartNext
    <3>1. CASE Moves
      BY <2>1, <3>1 DEF Moves, StoresKey, TakesType, WalkEnds, AnswersPod,
         LookFails, FindsNone, NextTry, FailsRun, StartsJob, Releases, EndsPod,
         LooksForPods, DropsKey, Removes
    <3>2. CASE SweepMoves
      BY <2>1, <3>2 DEF SweepMoves, Finds, SweepsOthers, AfterFailure,
         SweepsThenForgets, Sweeps
    <3>3. CASE StartNext /\ ~Moves /\ ~SweepMoves
      BY <2>1, <3>3 DEF StartNext, Reconciles, Moves, SweepMoves, SavesRecord,
         BeginsCall, Sends, AnswersNo, AnswersUnclear, RecordsPod, BecomesReady,
         NotReady, GivesUp, Saves, Removes
    <3> QED  BY <2>2, <3>1, <3>2, <3>3
  <2>3. CASE RemoveNext
    BY <2>1, <2>3 DEF RemoveNext, SavesDeleting, Deletes, SavesDeleted, Forgets,
       Saves, Worked, Failed
  <2>4. CASE EndNext
    <3>1. CASE NotesStrays
      BY <2>1, <3>1 DEF NotesStrays, Saves, IInv, FlowInv
    <3>2. CASE SweepsThenForgets
      BY <2>1, <3>2 DEF SweepsThenForgets, Sweeps
    <3>3. CASE StartsJob \/ JobStarted \/ Releases \/ EndsPod \/ LooksForPods \/ DropsKey
      BY <2>1, <3>3 DEF StartsJob, JobStarted, Releases, EndsPod, LooksForPods,
         DropsKey, Saves, Removes
    <3> QED  BY <2>4, <3>1, <3>2, <3>3 DEF EndNext
  <2>5. CASE Interrupt \/ PodNext \/ UNCHANGED vars \/ LsNext
    BY <2>1, <2>5 DEF Interrupt, PodNext, vars, pvars, LsNext, LsFinds, LsReads,
       LsSaves, LsFails, LsLooksForPods, LsDropsKey
  <2>6. CASE ExitNext
    BY <2>6 DEF ExitNext, Exits, Ends
  <2>7. CASE RmNext
    BY <2>1, <2>7 DEF RmNext, RmStarts, RmRecorded, RmReadsStrays, RmStray,
       RmLists, RmMarked, RmEnds, ListsKeys, SweepsKey, Removes
  <2> QED  BY <2>2, <2>3, <2>4, <2>5, <2>6, <2>7 DEF Next, TrainNext
<1>4. secret' \in BOOLEAN /\ run' \in {"Preparing", "Running", "Succeeded", "Failed"}
  <2>1. secret \in BOOLEAN /\ run \in {"Preparing", "Running", "Succeeded", "Failed"}
    BY DEF IInv, TypeOK, PTypeOK
  <2>2. CASE UNCHANGED <<secret, run>>
    BY <2>1, <2>2
  <2>3. CASE StoresKey \/ FailsRun \/ StartsJob \/ Releases \/ EndsPod \/ DropsKey
    BY <2>1, <2>3 DEF StoresKey, FailsRun, StartsJob, Releases, EndsPod, DropsKey
  <2>4. CASE RmEnds \/ SweepsKey \/ LsDropsKey
    BY <2>1, <2>4 DEF RmEnds, SweepsKey, LsDropsKey
  <2>5. StartNext => UNCHANGED <<secret, run>> \/ StoresKey \/ FailsRun
    BY DEF StartNext, Reconciles, SavesRecord, TakesType, WalkEnds, BeginsCall,
       Sends, AnswersPod, AnswersNo, AnswersUnclear, Finds, FindsNone, LookFails,
       RecordsPod, BecomesReady, NotReady, GivesUp, SweepsOthers, AfterFailure
  <2>6. RemoveNext => UNCHANGED <<secret, run>>
    BY DEF RemoveNext, SavesDeleting, Deletes, SavesDeleted, Forgets
  <2>7. EndNext => UNCHANGED <<secret, run>> \/ StartsJob \/ Releases \/ EndsPod \/ DropsKey
    BY DEF EndNext, JobStarted, SweepsThenForgets, NotesStrays, LooksForPods
  <2>8. RmNext => UNCHANGED <<secret, run>> \/ RmEnds \/ SweepsKey
    BY DEF RmNext, RmStarts, RmRecorded, RmReadsStrays, RmStray, RmLists,
       RmMarked, ListsKeys
  <2>9. LsNext => UNCHANGED <<secret, run>> \/ LsDropsKey
    BY DEF LsNext, LsFinds, LsReads, LsSaves, LsFails, LsLooksForPods, pvars
  <2>10. Interrupt \/ PodNext \/ ExitNext \/ UNCHANGED vars => UNCHANGED <<secret, run>>
    BY DEF Interrupt, PodNext, ExitNext, Exits, vars, pvars
  <2> QED  BY <2>2, <2>3, <2>4, <2>5, <2>6, <2>7, <2>8, <2>9, <2>10 DEF Next, TrainNext
<1>5. /\ tried' \in 0 .. TYPES /\ ambiguous' \in 0 .. MAX_AMBIGUOUS
      /\ interrupted' \in BOOLEAN
  <2>1. /\ tried \in 0 .. TYPES /\ ambiguous \in 0 .. MAX_AMBIGUOUS
        /\ interrupted \in BOOLEAN /\ TYPES \in Nat /\ MAX_AMBIGUOUS \in Nat
    BY RecordAssumption DEF IInv, TypeOK, PTypeOK
  <2>2. CASE UNCHANGED <<tried, ambiguous, interrupted>>
    BY <2>1, <2>2
  <2>3. CASE TakesType \/ Interrupt \/ ExitNext
    <3>1. CASE TakesType
      <4>1. tried' = tried + 1 /\ tried < TYPES /\ ambiguous' = 0
            /\ interrupted' = interrupted
        BY <3>1 DEF TakesType
      <4> QED  BY <2>1, <4>1
    <3>2. CASE Interrupt
      BY <2>1, <3>2 DEF Interrupt
    <3>3. CASE ExitNext
      <4>1. tried' = 0 /\ ambiguous' = 0 /\ interrupted' = FALSE
        BY <3>3 DEF ExitNext, Exits, Ends
      <4>2. 0 \in 0 .. TYPES /\ 0 \in 0 .. MAX_AMBIGUOUS
        BY <2>1
      <4> QED  BY <4>1, <4>2
    <3> QED  BY <2>3, <3>1, <3>2, <3>3
  <2>4. CASE FindsNone("look1", "look2") \/ FindsNone("look2", NextTry)
    BY <2>1, <2>4 DEF FindsNone, Tries
  <2>5. StartNext => \/ UNCHANGED <<tried, ambiguous, interrupted>>
                     \/ TakesType \/ FindsNone("look1", "look2")
                     \/ FindsNone("look2", NextTry)
    BY DEF StartNext, Reconciles, SavesRecord, StoresKey, WalkEnds, BeginsCall,
       Sends, AnswersPod, AnswersNo, AnswersUnclear, Finds, LookFails,
       RecordsPod, BecomesReady, NotReady, GivesUp, SweepsOthers, AfterFailure,
       FailsRun
  <2>6. RemoveNext => UNCHANGED <<tried, ambiguous, interrupted>>
    BY DEF RemoveNext, SavesDeleting, Deletes, SavesDeleted, Forgets
  <2>7. EndNext => UNCHANGED <<tried, ambiguous, interrupted>>
    BY DEF EndNext, StartsJob, JobStarted, Releases, EndsPod, SweepsThenForgets,
       NotesStrays, LooksForPods, DropsKey
  <2>8. RmNext => UNCHANGED <<tried, ambiguous, interrupted>>
    BY DEF RmNext, RmStarts, RmRecorded, RmReadsStrays, RmStray, RmLists,
       RmMarked, RmEnds, ListsKeys, SweepsKey
  <2>9. LsNext \/ PodNext \/ UNCHANGED vars => UNCHANGED <<tried, ambiguous, interrupted>>
    BY DEF LsNext, LsFinds, LsReads, LsSaves, LsFails, LsLooksForPods,
       LsDropsKey, PodNext, vars, pvars
  <2> QED  BY <2>2, <2>3, <2>4, <2>5, <2>6, <2>7, <2>8, <2>9 DEF Next, TrainNext
<1>6. had' \subseteq Attempts /\ trains' \in Attempts \cup {NoPod}
  <2>1. had \subseteq Attempts /\ trains \in Attempts \cup {NoPod}
    BY DEF IInv, TypeOK, PTypeOK
  <2>2. CASE UNCHANGED <<had, trains>>
    BY <2>1, <2>2
  <2>3. CASE RecordsPod
    <3>1. mem.attempts \in Attempts
      BY <2>3, HoldsRecord, RecordIs DEF RecordsPod, IInv, WalkInv, Called,
         Holding, Attempts
    <3> QED  BY <2>1, <2>3, <3>1 DEF RecordsPod
  <2>4. CASE StartsJob
    <3>1. mem.pod \in Attempts \cup {NoPod}
      BY <2>4, HoldsRecord, RecordIs DEF StartsJob, Holding
    <3> QED  BY <2>1, <2>4, <3>1 DEF StartsJob
  <2>5. StartNext => UNCHANGED <<had, trains>> \/ RecordsPod
    BY DEF StartNext, Reconciles, SavesRecord, StoresKey, TakesType, WalkEnds,
       BeginsCall, Sends, AnswersPod, AnswersNo, AnswersUnclear, Finds, FindsNone,
       LookFails, BecomesReady, NotReady, GivesUp, SweepsOthers, AfterFailure,
       FailsRun
  <2>6. RemoveNext => UNCHANGED <<had, trains>>
    BY DEF RemoveNext, SavesDeleting, Deletes, SavesDeleted, Forgets
  <2>7. EndNext => UNCHANGED <<had, trains>> \/ StartsJob
    BY DEF EndNext, JobStarted, Releases, EndsPod, SweepsThenForgets,
       NotesStrays, LooksForPods, DropsKey
  <2>8. RmNext => UNCHANGED <<had, trains>>
    BY DEF RmNext, RmStarts, RmRecorded, RmReadsStrays, RmStray, RmLists,
       RmMarked, RmEnds, ListsKeys, SweepsKey
  <2>9. LsNext \/ PodNext \/ Interrupt \/ ExitNext \/ UNCHANGED vars => UNCHANGED <<had, trains>>
    BY DEF LsNext, LsFinds, LsReads, LsSaves, LsFails, LsLooksForPods,
       LsDropsKey, PodNext, Interrupt, ExitNext, Exits, vars, pvars
  <2> QED  BY <2>2, <2>3, <2>4, <2>5, <2>6, <2>7, <2>8, <2>9 DEF Next, TrainNext
<1>7. /\ keeps' \in BOOLEAN /\ removed' \in BOOLEAN /\ failed' \in BOOLEAN
      /\ asked' \subseteq Attempts /\ todo' \subseteq Attempts
      /\ owed' \subseteq Attempts
  <2>1. /\ keeps \in BOOLEAN /\ removed \in BOOLEAN /\ failed \in BOOLEAN
        /\ asked \subseteq Attempts /\ todo \subseteq Attempts
        /\ owed \subseteq Attempts /\ Up \subseteq Attempts
    BY DEF IInv, TypeOK, Up
  <2>2. disk # NoRecord =>
          Training(disk) \in Attempts \cup {NoPod} /\ disk.strays \subseteq Attempts
    BY RecordIs DEF IInv, TypeOK, PTypeOK, Training
  <2>3. CASE RmStarts
    BY <2>1, <2>2, <2>3 DEF RmStarts, Training
  <2>4. CASE RmStray \/ RmMarked
    BY <2>1, <2>4 DEF RmStray, RmMarked, Edits
  <2>5. CASE RmMoves
    BY <2>1, <2>2, <2>5 DEF RmMoves, RmRecorded, RmReadsStrays, RmLists, RmEnds,
       ListsKeys, SweepsKey
  <2>6. CASE ExitNext
    BY <2>6 DEF ExitNext
  <2>7. CASE UNCHANGED rm
    BY <2>1, <2>7
  <2>8. TrainNext \/ PodNext \/ LsNext \/ UNCHANGED vars => UNCHANGED rm
    BY DEF TrainNext, PodNext, LsNext, LsFinds, LsReads, LsSaves, LsFails,
       LsLooksForPods, LsDropsKey, vars
  <2> QED  BY <2>3, <2>4, <2>5, <2>6, <2>7, <2>8 DEF Next, RmNext, RmMoves
<1>8. /\ ls' \in {"off", "pod", "stray", "gone", "dropped", "keys", "drop"}
      /\ lsPod' \in Attempts \cup {NoPod} /\ lsCopy' \in Records \cup {NoRecord}
      /\ stale' \in BOOLEAN
  <2>1. /\ ls \in {"off", "pod", "stray", "gone", "dropped", "keys", "drop"}
        /\ lsPod \in Attempts \cup {NoPod} /\ lsCopy \in Records \cup {NoRecord}
        /\ stale \in BOOLEAN /\ disk \in Records \cup {NoRecord}
    BY DEF IInv, TypeOK, PTypeOK
  <2>2. CASE LsFinds
    <3>1. Named(disk) \subseteq Attempts
      BY <2>1, RecordIs DEF Named
    <3> QED  BY <2>1, <2>2, <3>1 DEF LsFinds
  <2>3. CASE LsNext /\ ~LsFinds
    BY <2>1, <2>3 DEF LsNext, LsReads, LsSaves, LsFails, LsLooksForPods,
       LsDropsKey, LsOver
  <2>4. CASE UNCHANGED lsvars
    BY <2>1, <2>4
  <2> QED  BY <2>2, <2>3, <2>4 DEF Next, TrainNext, PodNext, ExitNext, vars
<1> QED  BY <1>1, <1>2, <1>3, <1>4, <1>5, <1>6, <1>7, <1>8 DEF TypeOK, PTypeOK, PodKinds

-----------------------------------------------------------------------------
(* The invariant and the properties. *)

LEMMA InitHolds == Init => IInv /\ Tries
<1> SUFFICES ASSUME Init PROVE IInv /\ Tries
  OBVIOUS
<1> USE DEF Init, PInit
<1>1. Up = {} /\ Named(disk) = {} /\ ~Holding
  BY DEF Up, Named, Holding
<1>2. TypeOK
  <2>1. tried \in 0 .. TYPES /\ ambiguous \in 0 .. MAX_AMBIGUOUS
    BY RecordAssumption
  <2>2. pods \in [Attempts -> {"none", "coming", "up", "gone"}]
    OBVIOUS
  <2>3. pc \in Flow /\ then \in Continuations
    BY DEF Flow, Walking, Continuations
  <2>4. disk \in Records \cup {NoRecord} /\ mem \in Records \cup {NoRecord}
        /\ lsCopy \in Records \cup {NoRecord}
    OBVIOUS
  <2> QED  BY <2>1, <2>2, <2>3, <2>4 DEF TypeOK, PTypeOK
<1>3. FlowInv /\ CopiesInv
  BY <1>1 DEF FlowInv, CopiesInv, CopyHolds
<1>4. WalkInv /\ HadInv /\ DiskInv
  BY <1>1 DEF WalkInv, Training1, Called, HadInv, Podless, DiskInv
<1>5. RmInv /\ JobInv /\ Tries
  BY <1>1 DEF RmInv, JobInv, Settled, Called, Training1, Rm, Tries
<1> QED  BY <1>2, <1>3, <1>4, <1>5 DEF IInv

LEMMA StepKeeps ==
  ASSUME IInv, Tries, [Next]_vars
  PROVE  IInv' /\ Tries'
<1>1. TypeOK' /\ Tries'
  BY TypeStep, TriesStep
<1>2. CASE StartNext /\ UNCHANGED <<rm, lsvars>>
  <2>1. Moves \/ SweepMoves \/ Sends \/ SavesRecord \/ BeginsCall \/ AnswersNo
        \/ AnswersUnclear \/ RecordsPod \/ BecomesReady \/ NotReady \/ GivesUp
    BY <1>2 DEF StartNext, Reconciles, Moves, SweepMoves
  <2> QED  BY <1>1, <1>2, <2>1, MovesKeep, SweepMovesKeep, SendsKeeps,
      SavesRecordKeeps, BeginsCallKeeps, AnswersKeep, RecordsPodKeeps, SettlesKeep
<1>3. CASE RemoveNext /\ UNCHANGED <<rm, lsvars>>
  BY <1>1, <1>3, SavesDeletingKeeps, DeletesKeeps, SavesDeletedKeeps, ForgetsKeeps
     DEF RemoveNext
<1>4. CASE EndNext /\ UNCHANGED <<rm, lsvars>>
  <2>1. Moves \/ SweepMoves \/ JobStarted \/ NotesStrays
    BY <1>4 DEF EndNext, Moves, SweepMoves
  <2> QED  BY <1>1, <1>4, <2>1, MovesKeep, SweepMovesKeep, JobStartedKeeps, NotesStraysKeeps
<1>5. CASE (Interrupt /\ UNCHANGED <<rm, lsvars>>) \/ UNCHANGED vars
  <2>1. UNCHANGED <<pods, disk, mem, pc, then, history, rm, lsvars>>
    BY <1>5 DEF Interrupt, vars, pvars
  <2> QED  BY <1>1, <2>1, QuietKeeps
<1>6. CASE PodNext \/ ExitNext
  BY <1>1, <1>6, PodKeeps, ExitKeeps
<1>7. CASE RmNext /\ UNCHANGED lsvars
  BY <1>1, <1>7, RmStartsKeeps, RmMovesKeep, RmDeletesKeep DEF RmNext, RmMoves
<1>8. CASE LsNext
  BY <1>1, <1>8, LsMovesKeep, LsSavesKeeps DEF LsNext
<1> QED  BY <1>2, <1>3, <1>4, <1>5, <1>6, <1>7, <1>8 DEF Next, TrainNext

THEOREM OInvHolds == Spec => [](IInv /\ Tries)
<1>1. Init => IInv /\ Tries
  BY InitHolds
<1>2. IInv /\ Tries /\ [Next]_vars => (IInv /\ Tries)'
  BY StepKeeps
<1> QED  BY <1>1, <1>2, PTL DEF Spec

\* Every variable stays in its type, for any number of GPU types, of unclear
\* answers and of create calls (provision.rs, orphans.rs, record.rs).
THEOREM OTypeOK == Spec => []TypeOK
<1>1. IInv => TypeOK
  BY DEF IInv
<1> QED  BY <1>1, OInvHolds, PTL

\* provision.rs:600: a pod that may bill is the pod of an attempt that pod.json
\* shows, until an older pod.json replaces it.
THEOREM ORecordedBeforeCall == Spec => []RecordedBeforeCall
<1>1. IInv => RecordedBeforeCall
  BY DEF IInv, DiskInv, RecordedBeforeCall
<1> QED  BY <1>1, OInvHolds, PTL

\* provision.rs:745: no create call while a pod of the walk may still bill.
THEOREM ONoSecondPod == Spec => []NoSecondPod
<1>1. IInv => NoSecondPod
  BY DEF IInv, HadInv, Podless, NoSecondPod
<1> QED  BY <1>1, OInvHolds, PTL

\* record.rs: pod.json never says deleted of a pod that is up, whichever of the
\* processes saved it last.
THEOREM ODeletedIsGone == Spec => []DeletedIsGone
<1>1. IInv => DeletedIsGone
  BY DEF IInv, CopiesInv, CopyHolds, DeletedIsGone
<1> QED  BY <1>1, OInvHolds, PTL

\* record.rs note_strays, forget_pod: a pod that pod.json named stays named
\* while it is up.
THEOREM OStaysNamed == Spec => []StaysNamed
<1>1. IInv => StaysNamed
  BY DEF IInv, DiskInv, StaysNamed
<1> QED  BY <1>1, OInvHolds, PTL

\* orphans.rs remove_checked: a pod rm that reports no failure left none of the
\* pods that were up when it began.
THEOREM ORmComplete == Spec => []RmComplete
<1>1. IInv => RmComplete
  BY DEF IInv, RmInv, RmComplete
<1> QED  BY <1>1, OInvHolds, PTL

\* secret.rs forget_keys: the process that holds the project deletes the secret
\* only when every pod that pod.json named is gone.
THEOREM OKeysStay == Spec => KeysStay
<1>1. ASSUME IInv, [Next]_vars
      PROVE  [secret /\ ~secret' /\ pc' # pc /\ ~stale => named \cap Up = {}]_vars
  <2>1. CASE StoresKey
    <3>1. named = {}
      BY <1>1, <2>1 DEF StoresKey, IInv, FlowInv
    <3> QED  BY <3>1
  <2>2. CASE DropsKey \/ SweepsKey
    BY <1>1, <2>2 DEF DropsKey, SweepsKey, IInv, DiskInv
  <2>3. CASE UNCHANGED secret \/ UNCHANGED pc
    BY <2>3
  <2>4. StartNext => UNCHANGED secret \/ StoresKey
    BY DEF StartNext, Reconciles, SavesRecord, TakesType, WalkEnds, BeginsCall,
       Sends, AnswersPod, AnswersNo, AnswersUnclear, Finds, FindsNone, LookFails,
       RecordsPod, BecomesReady, NotReady, GivesUp, SweepsOthers, AfterFailure, FailsRun
  <2>5. RemoveNext => UNCHANGED secret
    BY DEF RemoveNext, SavesDeleting, Deletes, SavesDeleted, Forgets
  <2>6. EndNext => UNCHANGED secret \/ DropsKey
    BY DEF EndNext, StartsJob, JobStarted, Releases, EndsPod, SweepsThenForgets,
       NotesStrays, LooksForPods
  <2>7. RmNext => UNCHANGED secret \/ SweepsKey
    BY DEF RmNext, RmStarts, RmRecorded, RmReadsStrays, RmStray, RmLists,
       RmMarked, RmEnds, ListsKeys
  <2>8. LsNext => UNCHANGED pc
    BY DEF LsNext, LsFinds, LsReads, LsSaves, LsFails, LsLooksForPods,
       LsDropsKey, pvars
  <2>9. Interrupt \/ PodNext \/ ExitNext \/ UNCHANGED vars => UNCHANGED secret
    BY DEF Interrupt, PodNext, ExitNext, Exits, vars, pvars
  <2> QED  BY <1>1, <2>1, <2>2, <2>3, <2>4, <2>5, <2>6, <2>7, <2>8, <2>9
           DEF Next, TrainNext
<1> QED  BY <1>1, OInvHolds, PTL DEF Spec, KeysStay

\* orphans.rs:606: pod rm without --force never deletes the pod of a training.
THEOREM ORmKeepsTraining == Spec => RmKeepsTraining
<1>1. ASSUME IInv, [Next]_vars
      PROVE  [keeps /\ (pc' # pc \/ todo' # todo) /\ ~stale /\ trains \in Up =>
                trains \in Up']_vars
  <2>1. SUFFICES ASSUME keeps, ~stale, trains \in Up, pc' # pc \/ todo' # todo
                 PROVE  trains \in Up'
    OBVIOUS
  <2>2. pc \in {"strays", "stray", "marked", "exit"}
    BY <1>1, <2>1 DEF IInv, RmInv
  <2>3. CASE RmStray \/ RmMarked
    <3>1. trains \notin todo
      BY <1>1, <2>1, <2>3 DEF IInv, JobInv, RmStray, RmMarked
    <3>2. PICK a, left : a \in todo /\ pods' = Unconfirmed({a}, left)
      BY <2>3 DEF RmStray, RmMarked
    <3> QED  BY <2>1, <3>1, <3>2 DEF Unconfirmed, Up
  <2>4. CASE UNCHANGED pods
    BY <2>1, <2>4 DEF Up
  <2>5. ~StartNext /\ ~RemoveNext /\ ~EndNext
    BY <2>2 DEF StartNext, RemoveNext, EndNext, Reconciles, SavesRecord, StoresKey,
       TakesType, WalkEnds, BeginsCall, Sends, AnswersPod, AnswersNo, AnswersUnclear,
       Finds, FindsNone, LookFails, RecordsPod, BecomesReady, NotReady, GivesUp,
       SweepsOthers, AfterFailure, FailsRun, SavesDeleting, Deletes, SavesDeleted,
       Forgets, StartsJob, JobStarted, Releases, EndsPod, SweepsThenForgets,
       NotesStrays, LooksForPods, DropsKey
  <2>6. RmNext => UNCHANGED pods \/ RmStray \/ RmMarked
    BY DEF RmNext, RmStarts, RmRecorded, RmReadsStrays, RmLists, RmEnds,
       ListsKeys, SweepsKey
  <2>7. ~PodNext
    BY <2>1 DEF PodNext
  <2>8. Interrupt \/ ExitNext \/ LsNext \/ UNCHANGED vars => UNCHANGED pods
    BY DEF Interrupt, ExitNext, Exits, LsNext, LsFinds, LsReads, LsSaves,
       LsFails, LsLooksForPods, LsDropsKey, vars, pvars
  <2> QED  BY <1>1, <2>3, <2>4, <2>5, <2>6, <2>7, <2>8 DEF Next, TrainNext
<1> QED  BY <1>1, OInvHolds, PTL DEF Spec, RmKeepsTraining

-----------------------------------------------------------------------------
(* The promise of PodAccount. *)

\* The host key is stored before the first create call.
KeyFirst == pc \in {"start", "key"} => \A a \in Attempts : pods[a] = "none"

\* Where the steps lead that do not end a process at work.
LEMMA KeyFirstStep ==
  ASSUME IInv, Tries, KeyFirst, [Next]_vars
  PROVE  KeyFirst'
<1>1. SUFFICES ASSUME pc' \in {"start", "key"} PROVE KeyFirst'
  BY DEF KeyFirst
<1>2. pc \in {"start", "key"} /\ ~Sends
  <2>1. CASE StartNext
    <3>1. CASE SweepMoves
      <4>1. pc' \in {pc, "created", "ready", "fail", "keys", "exit", "note"}
        BY <3>1 DEF SweepMoves, Finds, SweepsOthers, AfterFailure, SweepsThenForgets, Sweeps
      <4> QED  BY <1>1, <3>1, <4>1 DEF SweepMoves, Finds, SweepsOthers, AfterFailure,
                 SweepsThenForgets, Sends
    <3>2. CASE StartNext /\ ~SweepMoves
      BY <1>1, <3>2 DEF StartNext, Reconciles, SweepMoves, SavesRecord, StoresKey,
         TakesType, WalkEnds, BeginsCall, Sends, AnswersPod, AnswersNo,
         AnswersUnclear, FindsNone, NextTry, LookFails, RecordsPod, BecomesReady,
         NotReady, GivesUp, FailsRun, Saves, Removes
    <3> QED  BY <2>1, <3>1, <3>2
  <2>2. CASE RemoveNext
    BY <1>1, <2>2 DEF RemoveNext, SavesDeleting, Deletes, SavesDeleted, Forgets,
       Saves, Worked, Failed
  <2>3. CASE EndNext
    BY <1>1, <2>3 DEF EndNext, StartsJob, JobStarted, Releases, EndsPod,
       SweepsThenForgets, Sweeps, NotesStrays, LooksForPods, DropsKey, Saves, Removes,
       IInv, FlowInv
  <2>4. CASE RmNext
    BY <1>1, <2>4 DEF RmNext, RmStarts, RmRecorded, RmReadsStrays, RmStray, RmLists,
       RmMarked, RmEnds, ListsKeys, SweepsKey, Removes
  <2>5. CASE Interrupt \/ PodNext \/ LsNext \/ UNCHANGED vars
    <3>1. UNCHANGED pc
      BY <2>5 DEF Interrupt, PodNext, LsNext, LsFinds, LsReads, LsSaves, LsFails,
         LsLooksForPods, LsDropsKey, vars, pvars
    <3> QED  BY <1>1, <3>1 DEF Sends
  <2>6. ~ExitNext
    BY <1>1 DEF ExitNext, Exits, Ends
  <2> QED  BY <2>1, <2>2, <2>3, <2>4, <2>5, <2>6 DEF Next, TrainNext
<1>3. \A a \in Attempts : pods[a] = "none" => pods'[a] = "none"
  BY <1>2, PodsGrow DEF IInv
<1> QED  BY <1>2, <1>3 DEF KeyFirst

\* pod.json's history: what was ever named stays so.
LEMMA NamedGrows ==
  ASSUME IInv, [Next]_vars
  PROVE  named \subseteq named'
<1>1. CASE StartNext \/ RemoveNext \/ EndNext
  BY <1>1, CopySteps
<1>2. CASE RmNext
  BY <1>2 DEF RmNext, RmStarts, RmRecorded, RmReadsStrays, RmStray, RmLists,
     RmMarked, RmEnds, ListsKeys, SweepsKey, Edits
<1>3. CASE LsNext \/ UNCHANGED vars
  BY <1>3 DEF LsNext, LsFinds, LsReads, LsSaves, LsFails, LsLooksForPods,
     LsDropsKey, vars, pvars
<1>4. CASE Interrupt \/ PodNext \/ ExitNext
  BY <1>4 DEF Interrupt, PodNext, ExitNext, Exits
<1> QED  BY <1>1, <1>2, <1>3, <1>4 DEF Next, TrainNext

\* The copy that the process saves shows as many calls, or more.
LEMMA CopyCounts ==
  ASSUME IInv, Holding, StartNext \/ RemoveNext \/ EndNext
  PROVE  /\ mem' \in Records /\ mem.attempts <= mem'.attempts
         /\ Writes(mem') \/ UNCHANGED disk
<1>1. /\ mem \in Records /\ mem.attempts \in Nat
  BY HoldsRecord, RecordIs
<1>2. Writes(mem') \/ UNCHANGED disk
  BY CopySteps
<1>3. CASE UNCHANGED mem
  BY <1>1, <1>2, <1>3
<1>4. CASE SweepMoves
  <2>1. CASE \E ids \in SUBSET Up : \E done, noted : Sweeps(ids, done, noted)
    <3>1. PICK ids \in SUBSET Up : \E done, noted : Sweeps(ids, done, noted)
      BY <2>1
    <3>2. PICK lost \in SUBSET ids : mem' = NoteStrays(mem, lost)
      BY <3>1 DEF Sweeps
    <3>3. lost \in SUBSET Attempts
      BY DEF Up
    <3> QED  BY <1>1, <1>2, <3>2, <3>3, NoteIs
  <2> QED  BY <1>3, <1>4, <2>1 DEF SweepMoves, Finds, SweepsOthers, AfterFailure,
              SweepsThenForgets
<1>5. CASE BeginsCall
  BY <1>1, <1>2, <1>3, <1>5, BeginIs DEF BeginsCall, Saves
<1>6. CASE AnswersUnclear \/ RecordsPod
  <2>1. mem.attempts > 0
    BY <1>6 DEF IInv, WalkInv, Called, AnswersUnclear, RecordsPod
  <2>2. /\ EndUnclear(mem) \in Records /\ EndUnclear(mem).attempts = mem.attempts
        /\ Created(mem) \in Records /\ Created(mem).attempts = mem.attempts
    BY <1>1, <2>1, UnclearIs, CreatedIs
  <2>3. mem' = EndUnclear(mem) \/ mem' = Created(mem)
    BY <1>6 DEF AnswersUnclear, RecordsPod, Saves
  <2> QED  BY <1>1, <1>2, <2>2, <2>3
<1>7. CASE BecomesReady \/ SavesDeleting \/ Deletes \/ JobStarted
  <2>1. \A s \in PodStates :
          InState(mem, s) \in Records /\ InState(mem, s).attempts = mem.attempts
    BY <1>1, StateIs
  <2>2. UNCHANGED mem \/ \E s \in PodStates : mem' = InState(mem, s)
    BY <1>7 DEF BecomesReady, SavesDeleting, Deletes, JobStarted, Saves, PodStates
  <2> QED  BY <1>1, <1>2, <1>3, <2>1, <2>2
<1>8. CASE Forgets
  BY <1>1, <1>2, <1>8, ForgetIs DEF Forgets, Saves
<1>9. StartNext \/ RemoveNext \/ EndNext =>
        \/ UNCHANGED mem \/ SweepMoves \/ BeginsCall \/ AnswersUnclear \/ RecordsPod
        \/ BecomesReady \/ SavesDeleting \/ Deletes \/ JobStarted \/ Forgets
  BY DEF Holding, StartNext, RemoveNext, EndNext, Reconciles, SweepMoves, SavesRecord,
     StoresKey, TakesType, WalkEnds, Sends, AnswersPod, AnswersNo, FindsNone,
     LookFails, NotReady, GivesUp, FailsRun, SavesDeleted, StartsJob, Releases,
     EndsPod, NotesStrays, LooksForPods, DropsKey, Saves
<1> QED  BY <1>3, <1>4, <1>5, <1>6, <1>7, <1>8, <1>9

\* pod.json never shows fewer calls, unless an older one replaced it.
LEMMA CallsGrow ==
  ASSUME IInv, IInv', [Next]_vars
  PROVE  Calls \in Nat /\ Calls' \in Nat /\ (~stale' => Calls <= Calls')
<1>1. /\ disk \in Records \cup {NoRecord} /\ disk' \in Records \cup {NoRecord}
      /\ lsCopy \in Records \cup {NoRecord}
  BY DEF IInv, TypeOK, PTypeOK
<1>2. Calls \in Nat /\ Calls' \in Nat
  BY <1>1, RecordIs DEF Calls
<1>3. SUFFICES ASSUME ~stale' PROVE Calls <= Calls'
  BY <1>2
<1>4. CASE UNCHANGED disk
  BY <1>2, <1>4 DEF Calls
<1>5. CASE (StartNext \/ RemoveNext \/ EndNext) /\ Holding /\ UNCHANGED stale
  <2>1. /\ mem' \in Records /\ mem.attempts <= mem'.attempts
        /\ disk' = mem' \/ UNCHANGED disk
    BY <1>5, CopyCounts
  <2>2. disk # NoRecord => disk.attempts <= mem.attempts
    BY <1>3, <1>5 DEF IInv, DiskInv
  <2>3. mem \in Records /\ mem.attempts \in Nat
    BY <1>5, HoldsRecord, RecordIs
  <2>4. mem' # NoRecord /\ mem'.attempts \in Nat
    BY <2>1, RecordIs
  <2> QED  BY <1>1, <1>2, <1>4, <2>1, <2>2, <2>3, <2>4 DEF Calls
<1>6. CASE SavesRecord
  <2>1. Calls = 0
    BY <1>6 DEF SavesRecord, IInv, FlowInv, Calls
  <2> QED  BY <1>2, <2>1
<1>7. CASE RmStray \/ RmMarked
  <2>1. PICK a \in todo : \/ UNCHANGED disk
                          \/ disk # NoRecord /\ disk' = DropStray(disk, a)
                          \/ disk # NoRecord /\ disk' = NoteStrays(disk, {a})
    BY <1>7 DEF RmStray, RmMarked, Edits, IInv, FlowInv
  <2>2. a \in Attempts
    BY DEF IInv, TypeOK
  <2>3. disk # NoRecord => /\ DropStray(disk, a) \in Records
                           /\ DropStray(disk, a).attempts = disk.attempts
                           /\ NoteStrays(disk, {a}) \in Records
                           /\ NoteStrays(disk, {a}).attempts = disk.attempts
    BY <1>1, <2>2, DropIs, NoteIs
  <2> QED  BY <1>1, <1>2, <1>4, <2>1, <2>3, RecordIs DEF Calls
<1>8. CASE LsSaves
  <2>1. /\ disk = lsCopy /\ disk \in Records
        /\ disk' = InState(disk, "Deleted") \/ disk' = DropStray(disk, lsPod)
    BY <1>1, <1>3, <1>8 DEF LsSaves, LsOver, IInv, FlowInv
  <2>2. disk' \in Records /\ disk'.attempts = disk.attempts
    BY <2>1, StateIs, DropIs DEF PodStates
  <2> QED  BY <1>2, <2>1, <2>2, RecordIs DEF Calls
<1>9. StartNext \/ RemoveNext \/ EndNext => Holding \/ SavesRecord \/ UNCHANGED disk
  BY DEF StartNext, RemoveNext, EndNext, Reconciles, Holding, StoresKey, TakesType,
     WalkEnds, BeginsCall, Sends, AnswersPod, AnswersNo, AnswersUnclear, Finds,
     FindsNone, LookFails, RecordsPod, BecomesReady, NotReady, GivesUp, SweepsOthers,
     AfterFailure, FailsRun, SavesDeleting, Deletes, SavesDeleted, Forgets, StartsJob,
     JobStarted, Releases, EndsPod, SweepsThenForgets, NotesStrays, LooksForPods, DropsKey
<1>10. RmNext => UNCHANGED disk \/ RmStray \/ RmMarked
  BY DEF RmNext, RmStarts, RmRecorded, RmReadsStrays, RmLists, RmEnds, ListsKeys, SweepsKey
<1>11. LsNext \/ PodNext \/ ExitNext \/ Interrupt \/ UNCHANGED vars =>
         UNCHANGED disk \/ LsSaves
  BY DEF LsNext, LsFinds, LsReads, LsFails, LsLooksForPods, LsDropsKey, PodNext,
     ExitNext, Exits, Interrupt, vars, pvars
<1> QED  BY <1>4, <1>5, <1>6, <1>7, <1>8, <1>9, <1>10, <1>11 DEF Next, TrainNext

\* What every step makes of the rest of what PodAccount sees: of the secret, of
\* the pods the walk was given, and of pod ls.
LEMMA QuietSteps ==
  ASSUME [Next]_vars
  PROVE  /\ StoresKey \/ DropsKey \/ SweepsKey \/ LsDropsKey \/ UNCHANGED secret
         /\ RecordsPod \/ UNCHANGED had
         /\ LsSaves \/ UNCHANGED stale
         /\ LsLooksForPods \/ LsDropsKey \/ UNCHANGED (ls = "drop")
<1>1. CASE StartNext /\ UNCHANGED lsvars
  BY <1>1 DEF StartNext, Reconciles, SavesRecord, TakesType, WalkEnds, BeginsCall,
     Sends, AnswersPod, AnswersNo, AnswersUnclear, Finds, FindsNone, LookFails,
     BecomesReady, NotReady, GivesUp, SweepsOthers, AfterFailure, FailsRun, StoresKey,
     RecordsPod
<1>2. CASE RemoveNext /\ UNCHANGED lsvars
  BY <1>2 DEF RemoveNext, SavesDeleting, Deletes, SavesDeleted, Forgets
<1>3. CASE EndNext /\ UNCHANGED lsvars
  BY <1>3 DEF EndNext, StartsJob, JobStarted, Releases, EndsPod, SweepsThenForgets,
     NotesStrays, LooksForPods, DropsKey
<1>4. CASE RmNext /\ UNCHANGED lsvars
  BY <1>4 DEF RmNext, RmStarts, RmRecorded, RmReadsStrays, RmStray, RmLists,
     RmMarked, RmEnds, ListsKeys, SweepsKey
<1>5. CASE LsNext
  BY <1>5 DEF LsNext, LsFinds, LsReads, LsSaves, LsFails, LsLooksForPods,
     LsDropsKey, LsOver, pvars
<1>6. CASE (Interrupt /\ UNCHANGED lsvars) \/ PodNext \/ ExitNext \/ UNCHANGED vars
  BY <1>6 DEF Interrupt, PodNext, ExitNext, Exits, vars, pvars
<1> QED  BY <1>1, <1>2, <1>3, <1>4, <1>5, <1>6 DEF Next, TrainNext

\* The steps that PodAccount has an action of its own for.
Special ==
  \/ StoresKey \/ DropsKey \/ SweepsKey \/ Sends \/ (PodNext /\ PodShows)
  \/ LsSaves \/ LsLooksForPods \/ LsDropsKey

\* A save, or nothing: what it may make of pod.json.
LEMMA SavesAllowed ==
  ASSUME IInv, IInv', [Next]_vars, UNCHANGED stale
  PROVE  Account!Saves
<1>1. Calls' \in Nat /\ (~stale => Calls' >= Calls)
  BY CallsGrow
<1>2. Named(disk') \subseteq Shown'
  BY DEF IInv, CopiesInv
<1>3. ~stale => Named(disk) \cap Up' \subseteq Named(disk')
  <2>1. Named(disk) \subseteq named'
    BY NamedGrows DEF IInv, CopiesInv
  <2>2. ~stale => named' \cap Up' \subseteq Named(disk')
    BY DEF IInv, DiskInv
  <2> QED  BY <2>1, <2>2
<1> QED  BY <1>1, <1>2, <1>3 DEF Account!Saves, Account!Up, Account!Shown, Up, Shown

\* The pods go, or stay.
LEMMA PodsGo ==
  ASSUME IInv, UNCHANGED pods \/ Unconfirms \/ PodDies
  PROVE  \E gone \in SUBSET Up :
           pods' = [a \in Attempts |-> IF a \in gone THEN "gone" ELSE pods[a]]
<1>1. pods \in [Attempts -> PodKinds]
  BY DEF IInv, TypeOK, PTypeOK, PodKinds
<1>2. CASE UNCHANGED pods
  <2>1. pods' = [a \in Attempts |-> IF a \in {} THEN "gone" ELSE pods[a]]
    BY <1>1, <1>2
  <2>2. {} \in SUBSET Up
    OBVIOUS
  <2> QED  BY <2>1, <2>2, Zenon
<1>3. CASE Unconfirms
  <2>1. PICK ids, left : ids \cap Attempts \subseteq Shown /\ pods' = Unconfirmed(ids, left)
    BY <1>3 DEF Unconfirms
  <2> DEFINE gone == (ids \ left) \cap Up
  <2>2. ASSUME NEW a \in Attempts
        PROVE  (IF a \in ids \ left THEN "gone" ELSE pods[a])
                 = (IF a \in gone THEN "gone" ELSE pods[a])
    <3>1. a \in ids => pods[a] \in {"up", "gone"}
      BY <2>1 DEF Shown
    <3> QED  BY <3>1 DEF Up
  <2> HIDE DEF gone
  <2>3. pods' = [a \in Attempts |-> IF a \in gone THEN "gone" ELSE pods[a]]
    BY <2>1, <2>2, Zenon DEF Unconfirmed
  <2> QED  BY <2>3 DEF gone
<1>4. CASE PodDies
  <2>1. PICK a \in Up : pods' = [pods EXCEPT ![a] = "gone"]
    BY <1>4 DEF PodDies
  <2>2. pods' = [b \in Attempts |-> IF b \in {a} THEN "gone" ELSE pods[b]]
    BY <1>1, <2>1 DEF Up
  <2>3. {a} \in SUBSET Up
    BY <2>1
  <2> QED  BY <2>2, <2>3
<1> QED  BY <1>2, <1>3, <1>4

LEMMA WorksAllowed ==
  ASSUME IInv, IInv', [Next]_vars, ~Special
  PROVE  Account!Works
<1>1. UNCHANGED <<secret, stale>> /\ UNCHANGED (ls = "drop")
  BY QuietSteps DEF Special
<1>2. UNCHANGED pods \/ Unconfirms \/ PodDies
  <2>1. UNCHANGED vars => UNCHANGED pods
    BY DEF vars, pvars
  <2> QED  BY <2>1, PodSteps DEF Special, IInv, PodNext
<1>3. Account!Saves
  BY <1>1, SavesAllowed
<1>4. had \subseteq had' /\ had' \subseteq had \cup Shown
  <2>1. CASE RecordsPod
    <3>1. had' = had \cup {mem.attempts} /\ mem.attempts \in Shown
      BY <2>1 DEF RecordsPod, IInv, WalkInv
    <3> QED  BY <3>1
  <2> QED  BY <2>1, QuietSteps
<1>5. PICK gone \in SUBSET Up :
        pods' = [a \in Attempts |-> IF a \in gone THEN "gone" ELSE pods[a]]
  BY <1>2, PodsGo
<1> QED  BY <1>1, <1>3, <1>4, <1>5
         DEF Account!Works, Account!Up, Account!Shown, Up, Shown

LEMMA SpecialAllowed ==
  ASSUME IInv, IInv', KeyFirst, [Next]_vars, Special
  PROVE  Account!Next \/ UNCHANGED Account!vars
<1> USE DEF Account!vars
<1>0. Account!Up = Up /\ Account!Shown = Shown
  BY DEF Account!Up, Account!Shown, Up, Shown
<1>1. CASE StoresKey /\ UNCHANGED lsvars
  <2>1. \A a \in Attempts : pods[a] = "none"
    BY <1>1 DEF StoresKey, KeyFirst
  <2>2. secret' \in BOOLEAN
    BY DEF IInv, TypeOK, PTypeOK
  <2>3. Account!StoresKey
    BY <1>1, <2>1, <2>2 DEF StoresKey, Account!StoresKey, Calls
  <2> QED  BY <2>3 DEF Account!Next
<1>2. CASE (DropsKey \/ SweepsKey) /\ UNCHANGED lsvars
  <2>1. /\ UNCHANGED <<pods, disk, had, lsvars>> /\ secret' \in {secret, FALSE}
        /\ stale \/ named \cap Up = {}
    BY <1>2 DEF DropsKey, SweepsKey, IInv, DiskInv
  <2>2. stale \/ Named(disk) \cap Up = {}
    BY <2>1 DEF IInv, CopiesInv
  <2>3. secret \in BOOLEAN
    BY DEF IInv, TypeOK, PTypeOK
  <2>4. CASE UNCHANGED secret
    BY <2>1, <2>4 DEF Calls
  <2>5. CASE secret /\ ~secret'
    <3>1. secret = TRUE /\ secret' = FALSE
      BY <2>1, <2>3, <2>5
    <3>2. Account!DropsKey
      BY <1>0, <2>1, <2>2, <3>1 DEF Account!DropsKey, Calls
    <3> QED  BY <3>2 DEF Account!Next
  <2> QED  BY <2>1, <2>3, <2>4, <2>5
<1>3. CASE LsDropsKey
  <2>1. Account!DropsLate
    BY <1>3 DEF LsDropsKey, LsOver, Account!DropsLate, Calls
  <2> QED  BY <2>1 DEF Account!Next
<1>4. CASE LsLooksForPods
  <2>1. UNCHANGED <<pods, disk, had, secret, stale>> /\ ls = "keys"
    BY <1>4 DEF LsLooksForPods, pvars
  <2>2. CASE NoPodLeft(disk)
    <3>1. Named(disk) = {} /\ ls' = "drop"
      BY <1>4, <2>2 DEF LsLooksForPods, NoPodLeft, Named
    <3>2. Account!Clears
      BY <2>1, <3>1 DEF Account!Clears, Calls
    <3> QED  BY <3>2 DEF Account!Next
  <2>3. CASE ~NoPodLeft(disk)
    <3>1. ls' = "off"
      BY <1>4, <2>3 DEF LsLooksForPods, LsOver
    <3> QED  BY <2>1, <3>1 DEF Calls
  <2> QED  BY <2>2, <2>3
<1>5. CASE Sends /\ UNCHANGED lsvars
  <2>1. UNCHANGED <<disk, had, secret, lsvars>>
    BY <1>5 DEF Sends
  <2>2. mem \in Records /\ mem.attempts \in Nat /\ mem.attempts \in Attempts
    BY <1>5, HoldsRecord, RecordIs DEF Sends, Holding, IInv, WalkInv, Called, Attempts
  <2>3. PICK got \in {"none", "coming", "up"} : pods' = [pods EXCEPT ![mem.attempts] = got]
    BY <1>5 DEF Sends
  <2>4. pods[mem.attempts] = "none" /\ had \cap Up = {}
    BY <1>5 DEF Sends, IInv, WalkInv, HadInv, Podless
  <2>5. CASE got = "none"
    <3>1. pods \in [Attempts -> PodKinds]
      BY DEF IInv, TypeOK, PTypeOK, PodKinds
    <3>2. pods' = pods
      BY <2>2, <2>3, <2>4, <2>5, <3>1
    <3> QED  BY <2>1, <3>2 DEF Calls
  <2>6. CASE got \in {"coming", "up"}
    <3>1. stale \/ mem.attempts = Calls
      <4>1. ~stale => /\ disk # NoRecord /\ disk.attempts <= mem.attempts
                      /\ mem.attempts <= disk.attempts
        BY <1>5 DEF Sends, IInv, DiskInv, Holding
      <4>2. disk # NoRecord => disk.attempts \in Nat
        BY RecordIs DEF IInv, TypeOK, PTypeOK
      <4> QED  BY <2>2, <4>1, <4>2 DEF Calls
    <3>2. UNCHANGED <<Calls, Named(disk)>>
      BY <2>1 DEF Calls
    <3>3. Account!Asks
      BY <1>0, <2>1, <2>2, <2>3, <2>4, <2>6, <3>1, <3>2 DEF Account!Asks
    <3> QED  BY <3>3 DEF Account!Next
  <2> QED  BY <2>3, <2>5, <2>6
<1>6. CASE PodNext /\ PodShows
  <2>1. Account!Shows
    BY <1>6 DEF PodNext, PodShows, Account!Shows, Calls
  <2> QED  BY <2>1 DEF Account!Next
<1>7. CASE LsSaves
  <2>1. /\ UNCHANGED <<pods, secret, had>> /\ stale' = (stale \/ disk # lsCopy)
        /\ ls # "drop" /\ ls' # "drop"
    BY <1>7 DEF LsSaves, LsOver
  <2>2. CASE UNCHANGED stale
    <3>1. Account!Saves
      BY <2>2, SavesAllowed
    <3>2. PICK gone \in SUBSET Up :
            pods' = [a \in Attempts |-> IF a \in gone THEN "gone" ELSE pods[a]]
      BY <2>1, PodsGo
    <3>3. Account!Works
      BY <1>0, <2>1, <2>2, <3>1, <3>2 DEF Account!Works
    <3> QED  BY <3>3 DEF Account!Next
  <2>3. CASE stale' = TRUE
    <3>1. Calls' \in Nat
      BY CallsGrow
    <3>2. Named(disk') \subseteq Shown
      BY <2>1 DEF IInv, CopiesInv, Shown
    <3>3. Account!Overwrites
      BY <1>0, <2>1, <2>3, <3>1, <3>2 DEF Account!Overwrites
    <3> QED  BY <3>3 DEF Account!Next
  <2>4. stale \in BOOLEAN /\ stale' \in BOOLEAN
    BY DEF IInv, TypeOK
  <2> QED  BY <2>1, <2>2, <2>3, <2>4
<1>8. UNCHANGED lsvars \/ UNCHANGED pc
  BY DEF Next, TrainNext, ExitNext, PodNext, LsNext, LsFinds, LsReads, LsSaves,
     LsFails, LsLooksForPods, LsDropsKey, vars, pvars
<1>9. StoresKey \/ DropsKey \/ SweepsKey \/ Sends => pc' # pc
  BY DEF StoresKey, DropsKey, SweepsKey, Sends
<1> QED  BY <1>1, <1>2, <1>3, <1>4, <1>5, <1>6, <1>7, <1>8, <1>9 DEF Special

\* pod.json and the calls of every process, with any failure, keep the promise of
\* PodAccount (record.rs, provision.rs, orphans.rs, secret.rs).
THEOREM OImplements == Spec => ImplementsAccount
<1>1. Init => KeyFirst /\ Account!Init
  BY DEF Init, PInit, KeyFirst, Account!Init, Calls, Named
<1>2. IInv /\ Tries /\ KeyFirst /\ [Next]_vars => KeyFirst'
  BY KeyFirstStep
<1>3. IInv /\ IInv' /\ KeyFirst /\ [Next]_vars => [Account!Next]_(Account!vars)
  BY WorksAllowed, SpecialAllowed DEF Account!Next
<1> QED  BY <1>1, <1>2, <1>3, OInvHolds, PTL DEF Spec, ImplementsAccount, Account!Spec

=============================================================================
