------------------------------- MODULE Compare -------------------------------
(***************************************************************************)
(* What becomes of a trained run: its export to a GGUF (src/export/mod.rs  *)
(* and src/cli/export.rs), the compare job that serves it and asks it the  *)
(* questions of data/eval.jsonl (src/compare, src/cli/compare.rs), and the *)
(* judge of its answers, whose verdicts are appended to a file one by one  *)
(* so that a later --rejudge goes on from them.                            *)
(*                                                                         *)
(* One process holds the project lock at a time.  It may be interrupted or *)
(* die at any point; the job on the target goes on without it.             *)
(***************************************************************************)
EXTENDS Split

CONSTANTS
  Setting,      \* the targets and concurrencies to choose from
  line,         \* the order of eval.jsonl: by topic, subtopic and hash
  MaxExports,   \* bound: how often the run is exported
  MaxQuestions  \* bound: how many questions --limit leaves

VARIABLES
  setting,   \* the run's target, and [pipeline] concurrency
  \* The export. A GGUF is the number of the export that made it, 0 for none.
  gguf,      \* the file in the run directory
  exported,  \* what the newest export.json names
  on_target, \* the file in the run directory on the target
  parted,    \* for the properties: the file is not the one recorded
  \* The compare and its job.
  asked,     \* the questions of setup.json, none before a compare
  sha,       \* the GGUF setup.json names
  job,       \* the job on the target
  served,    \* the GGUF it serves
  replies,   \* child_answers.jsonl, in the job's directory
  answers,   \* child_answers.jsonl, in the compare's directory here
  \* The judge.
  verdicts,  \* what judge_all knows of each question
  unended,   \* the question of a last line without its newline, if whole
  torn,      \* the verdicts file ends with a part of a line
  broken,    \* a complete line of it does not parse
  todo,      \* the questions this judge run has no verdict of
  known,     \* those it has a child's answer to
  flying,    \* those the judge is being asked
  report     \* the verdicts of compare.json

exportVars == <<gguf, exported, on_target, parted>>
jobVars == <<asked, sha, job, served, replies, answers>>
fileVars == <<verdicts, unended, torn, broken>>
judgeVars == <<fileVars, todo, known, flying, report>>
vars == <<splitVars, trained, pc, setting, exportVars, jobVars, judgeVars>>

Target == {"local", "ssh", "pod"}
GGUF == 0 .. MaxExports
Reply == {"none", "answer", "error"}
Verdict == {"none", "judged", "error"}

ASSUME SettingAssumption ==
  Setting \subseteq [target : Target, concurrency : Nat]

ASSUME ExportsAssumption == MaxExports \in Nat

TypeOK ==
  /\ SplitTypeOK
  /\ pc \in {"idle", "split", "deliver", "start", "follow", "answered", "judge"}
  /\ setting \in Setting
  /\ gguf \in GGUF /\ exported \in GGUF /\ on_target \in GGUF
  /\ parted \in BOOLEAN
  /\ asked \in SUBSET Example /\ sha \in GGUF /\ served \in GGUF
  /\ job \in {"none", "running", "succeeded", "failed", "cancelled"}
  /\ replies \in [Example -> Reply] /\ answers \in [Example -> Reply]
  /\ verdicts \in [Example -> Verdict] /\ report \in [Example -> Verdict]
  /\ unended \in SUBSET Example /\ torn \in BOOLEAN /\ broken \in BOOLEAN
  /\ todo \in SUBSET asked /\ known \in SUBSET Example
  /\ flying \in SUBSET todo
  /\ pc # "judge" => todo = {}

Nothing == [e \in Example |-> "none"]

Init ==
  /\ SplitInit
  /\ setting \in Setting
  /\ gguf = 0 /\ exported = 0 /\ on_target = 0 /\ parted = FALSE
  /\ asked = {} /\ sha = 0 /\ job = "none" /\ served = 0
  /\ replies = Nothing /\ answers = Nothing
  /\ verdicts = Nothing /\ unended = {} /\ torn = FALSE /\ broken = FALSE
  /\ todo = {} /\ known = {} /\ flying = {} /\ report = Nothing

Goes(from, to) == pc = from /\ pc' = to

-----------------------------------------------------------------------------
(* The export. *)

\* deliver, as far as the rename: the GGUF of an export that succeeded replaces
\* the run's, of the same quantize type. One made in the training job is in the
\* run directory on the target too, which a local target shares.
Deliver ==
  /\ Goes("idle", "deliver") /\ trained # {} /\ gguf < MaxExports
  /\ gguf' = gguf + 1 /\ parted' = TRUE
  /\ \/ setting.target = "local" /\ on_target' = gguf'
     \/ setting.target # "local" /\ gguf = 0 /\ on_target' = gguf'
     \/ setting.target # "local" /\ on_target' = on_target
  /\ UNCHANGED <<splitVars, trained, setting, exported, jobVars, judgeVars>>

\* Its end: export.json names it.
Record ==
  /\ Goes("deliver", "idle")
  /\ exported' = gguf /\ parted' = FALSE
  /\ UNCHANGED <<splitVars, trained, setting, gguf, on_target, jobVars,
                 judgeVars>>

-----------------------------------------------------------------------------
(* The compare. *)

\* plan, setup_of: the newest export on record, and the first questions of
\* eval.jsonl as it is now, up to --limit. One compare of the run is modelled.
CompareStart ==
  /\ Goes("idle", "start") /\ asked = {} /\ exported # 0
  /\ \E limit \in 1 .. MaxQuestions :
       asked' = {q \in eval :
                   Cardinality({e \in eval : line[e] < line[q]}) < limit}
  /\ asked' # {}
  /\ sha' = exported
  /\ UNCHANGED <<splitVars, trained, setting, exportVars, job, served, replies,
                 answers, judgeVars>>

\* Mutant: whatever GGUF the target has is served.
gguf_on_target_Any == IF on_target # 0 THEN on_target ELSE gguf

\* The GGUF of the run directory on the target, uploaded when it is missing or
\* not the one recorded; a pod is always given the local one.
gguf_on_target ==
  IF setting.target # "pod" /\ on_target = sha THEN on_target ELSE gguf

JobStarts ==
  /\ Goes("start", "follow")
  /\ served' = gguf_on_target /\ job' = "running"
  /\ on_target' = IF setting.target = "pod" THEN on_target ELSE gguf_on_target
  /\ UNCHANGED <<splitVars, trained, setting, gguf, exported, parted, asked,
                 sha, replies, answers, judgeVars>>

\* The target cannot be prepared, or the upload or the launch fails.
StartFails ==
  /\ Goes("start", "idle")
  /\ UNCHANGED <<splitVars, trained, setting, exportVars, jobVars, judgeVars>>

\* On a local target the job writes in the compare's directory itself.
Shared(now) == answers' = IF setting.target = "local" THEN now ELSE answers

\* compare_client.py: one question at a time, each answer flushed.
JobAnswers ==
  /\ job = "running"
  /\ \E q \in asked, reply \in {"answer", "error"} :
       /\ replies[q] = "none"
       /\ replies' = [replies EXCEPT ![q] = reply]
  /\ Shared(replies')
  /\ UNCHANGED <<splitVars, trained, pc, setting, exportVars, asked, sha, job,
                 served, judgeVars>>

\* It ends with every question answered, or with its server before.
JobEnds ==
  /\ job = "running"
  /\ \/ job' = "succeeded" /\ \A q \in asked : replies[q] # "none"
     \/ job' = "failed"
  /\ UNCHANGED <<splitVars, trained, pc, setting, exportVars, asked, sha,
                 served, replies, answers, judgeVars>>

\* The answers there are come back with any end of the job, or not at all.
Collects == answers' \in {answers, replies}

\* watch, then generated: only the answers of a job that succeeded are judged.
FollowEnds ==
  /\ pc = "follow" /\ job \notin {"none", "running"}
  /\ Collects
  /\ pc' = IF job = "succeeded" THEN "answered" ELSE "idle"
  /\ UNCHANGED <<splitVars, trained, setting, exportVars, asked, sha, job,
                 served, replies, judgeVars>>

\* Ctrl-C: the job is cancelled, and what it answered comes back.
Interrupt ==
  /\ Goes("follow", "idle") /\ Collects
  /\ job' = IF job = "running" THEN "cancelled" ELSE job
  /\ UNCHANGED <<splitVars, trained, setting, exportVars, asked, sha, served,
                 replies, judgeVars>>

-----------------------------------------------------------------------------
(* The judge. *)

\* Mutant: every question is judged, whatever the file holds.
Todo_All == asked

Todo == {q \in asked : verdicts[q] = "none"}

\* judge_and_report of a compare whose answers are here, or --rejudge of any:
\* refused without an answer, or with a verdicts file that does not read.
JudgeStart ==
  /\ pc \in {"answered", "idle"} /\ pc' = "judge"
  /\ ~broken /\ \E q \in asked : answers[q] # "none"
  /\ todo' = Todo
  /\ known' = {q \in asked : answers[q] = "answer"}
  /\ UNCHANGED <<splitVars, trained, setting, exportVars, jobVars, fileVars,
                 flying, report>>

\* concurrency.max(1).
pool == IF setting.concurrency = 0 THEN 1 ELSE setting.concurrency

Ask ==
  /\ pc = "judge" /\ Cardinality(flying) < pool
  /\ \E q \in todo \ flying : flying' = flying \cup {q}
  /\ UNCHANGED <<splitVars, trained, pc, setting, exportVars, jobVars, fileVars,
                 todo, known, report>>

\* judge_one: a question without an answer of the child is not judged.
VerdictOf(q) == IF q \in known THEN "judged" ELSE "error"

\* append_verdict: the line goes after whatever the file ends with.
Append(q) ==
  /\ verdicts' = [verdicts EXCEPT ![q] = VerdictOf(q)]
  /\ broken' = (broken \/ torn \/ unended # {})
  /\ torn' = FALSE /\ unended' = {}

Save ==
  /\ pc = "judge"
  /\ \E q \in flying :
       /\ Append(q)
       /\ todo' = todo \ {q} /\ flying' = flying \ {q}
  /\ UNCHANGED <<splitVars, trained, pc, setting, exportVars, jobVars, known,
                 report>>

\* The memory of a judge run is gone.
JudgeOver == todo' = {} /\ flying' = {} /\ known' = {}

\* A crash or a failed write inside a line. A whole line is read as it is when
\* it stands alone; otherwise the last line is skipped, with all it held.
SaveCut ==
  /\ Goes("judge", "idle")
  /\ \E q \in flying :
       \/ /\ ~torn /\ unended = {}
          /\ verdicts' = [verdicts EXCEPT ![q] = VerdictOf(q)]
          /\ unended' = {q} /\ UNCHANGED torn
       \/ /\ verdicts' = [e \in Example |->
                            IF e \in unended THEN "none" ELSE verdicts[e]]
          /\ torn' = TRUE /\ unended' = {}
  /\ JudgeOver
  /\ UNCHANGED <<splitVars, trained, setting, exportVars, jobVars, broken,
                 report>>

\* Mutant: a judge run that fails reports what it has.
JudgeFails_Reported ==
  /\ Goes("judge", "idle")
  /\ report' = verdicts
  /\ JudgeOver
  /\ UNCHANGED <<splitVars, trained, setting, exportVars, jobVars, fileVars>>

\* A request fails for good, or Ctrl-C: those in flight are dropped.
JudgeFails ==
  /\ Goes("judge", "idle")
  /\ JudgeOver
  /\ UNCHANGED <<splitVars, trained, setting, exportVars, jobVars, fileVars,
                 report>>

\* build_report, write_report.
Report ==
  /\ Goes("judge", "idle") /\ todo = {}
  /\ report' = [q \in Example |-> IF q \in asked THEN verdicts[q] ELSE "none"]
  /\ JudgeOver
  /\ UNCHANGED <<splitVars, trained, setting, exportVars, jobVars, fileVars>>

\* The process dies.
Crash ==
  /\ pc \notin {"idle", "split"} /\ pc' = "idle"
  /\ JudgeOver
  /\ UNCHANGED <<splitVars, trained, setting, exportVars, jobVars, fileVars,
                 report>>

-----------------------------------------------------------------------------

\* Bound: the dataset changes before the export, which does not read it.
DataNext ==
  /\ gguf = 0 /\ pc \in {"idle", "split"} /\ SplitNext
  /\ UNCHANGED <<setting, exportVars, jobVars, judgeVars>>

JudgeNext == Ask \/ Save \/ Report

Next ==
  \/ DataNext
  \/ Deliver \/ Record
  \/ CompareStart \/ JobStarts \/ StartFails \/ JobAnswers \/ JobEnds
  \/ FollowEnds \/ Interrupt
  \/ JudgeStart \/ JudgeNext \/ SaveCut \/ JudgeFails
  \/ Crash

Spec == Init /\ [][Next]_vars

-----------------------------------------------------------------------------
(* Properties. *)

\* cli/compare.rs plan: as long as train.jsonl is what the run trained on, and
\* its split was whole, no question of the compare is one it trained on.
HeldOut ==
  [][asked = {} /\ asked' # {} /\ train = trained /\ ~cut
       => asked' \cap trained = {}]_vars

\* cli/compare.rs gguf_on_target: the child asked is the GGUF setup.json names,
\* unless a delivery stopped between the file and its record.
ServedAsRecorded ==
  [][job = "none" /\ job' = "running" /\ ~parted => served' = sha]_vars

\* judge.rs judge_all: after any interruption and any crash inside a write, no
\* question whose verdict can be read is judged again.
JudgedOnce == \A q \in flying : verdicts[q] = "none"

\* report.rs build: a report counts every question of the compare, judged only
\* where the child answered.
ReportIsWhole ==
  report # Nothing =>
    \A q \in asked :
      /\ report[q] # "none"
      /\ report[q] = "judged" => answers[q] = "answer"

-----------------------------------------------------------------------------
(* What the code says of itself, and does not do. *)

\* cli/compare.rs judge_and_report: "the verdicts so far are kept; resume with
\* --rejudge". A verdict appended to a line cut short ends that for good.
VerdictsResume == ~broken

=============================================================================
