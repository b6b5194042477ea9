------------------------------- MODULE Dataset -------------------------------
(***************************************************************************)
(* The data files of one topic, the edits of the terminal UI and the       *)
(* stages that fill them (src/src/dataset, src/src/pipeline).              *)
(*                                                                         *)
(* One process at a time holds the project lock, and it runs one stage or  *)
(* saves one edit at a time.  What is hard is inside a stage, where        *)
(* several requests are in flight, and between two of them: a file is      *)
(* appended to line by line or replaced by a rename, an edit touches up to *)
(* four of them, and what a crash, a failed write or an interrupt leaves   *)
(* is what the next stage or edit reads.                                   *)
(*                                                                         *)
(* A name or a text stands for all its spellings: an ID is a hash of the   *)
(* normalized content (dataset/id.rs), so an edit that keeps the ID writes *)
(* the files back without changing them here.                              *)
(***************************************************************************)
EXTENDS Naturals, Sequences, FiniteSets

CONSTANTS
  Names,          \* subtopic names, normalized
  Texts,          \* question texts, normalized
  Wanted,         \* topic.subtopics
  Target,         \* topic.questions_per_subtopic
  Batch,          \* pipeline.question_batch_size
  Patience,       \* batches without a new question before a fill gives up
  Concurrency,    \* pipeline.concurrency
  None,           \* no fill holds the deduplicator
  MaxEdits,       \* edits saved (a bound of the model)
  MaxStops        \* writes cut by a crash or an error (a bound of the model)

ASSUME DatasetAssumption ==
  /\ {Wanted, Target, MaxEdits, MaxStops} \subseteq Nat
  /\ {Batch, Patience, Concurrency} \subseteq Nat \ {0}
  /\ None \notin Names
  /\ IsFiniteSet(Names) /\ IsFiniteSet(Texts)

Ids   == Names \X Texts
Files == {"subtopics", "questions", "answers", "rejected"}

VARIABLES
  subtopics,  \* data/subtopics.jsonl: how many records each name has
  questions,  \* data/questions.jsonl: how many records each ID has
  answers,    \* data/answers.jsonl: the same
  rejected,   \* data/rejected.jsonl: the names and the questions deleted
  tail,       \* how the last line of each file ends
  broken,     \* the files with a complete line that is no record
  stage,      \* what the process holding the project lock does
  plan,       \* the edit being saved: the contents and the writes left
  fills,      \* questions stage: the fill of each subtopic
  lock,       \* questions stage: the fill holding the topic's deduplicator
  dedup,      \* questions stage: the texts the deduplicator knows
  asks,       \* answers stage: the request of each question
  gone,       \* history: names and texts the user deleted from the files
  loose,      \* history: a change was left half done, or a stage was forced
  edits, stops

files   == <<subtopics, questions, answers, rejected, tail, broken>>
filling == <<fills, lock, dedup>>
history == <<gone, loose, edits, stops>>
vars    == <<files, stage, plan, filling, asks, history>>

------------------------------------------------------------------------------
(* Contents: how many records of each key a file holds *)

Empty(S)     == [x \in S |-> 0]
Stored(f)    == {x \in DOMAIN f : f[x] > 0}
With(f, S)   == [x \in DOMAIN f |-> IF x \in S THEN f[x] + 1 ELSE f[x]]
Without(f, S) == [x \in DOMAIN f |-> IF x \in S THEN 0 ELSE f[x]]
Held(f)      == Cardinality(Stored(f))  \* no two records share an ID (UniqueIds)
InSubtopic(f, n) == Cardinality({t \in Texts : f[<<n, t>>] > 0})
TextsOf(S)   == {id[2] : id \in S}

(* The questions `keys' of subtopic n, moved to subtopic m. *)
Rekeyed(f, keys, n, m) ==
  [id \in Ids |->
     IF id \in keys THEN 0
     ELSE IF id[1] = m /\ <<n, id[2]>> \in keys THEN f[id] + f[<<n, id[2]>>]
     ELSE f[id]]

Fill(pc, accepted) == [pc |-> pc, accepted |-> accepted, stalls |-> 0, batch |-> {}]
NoFill == Fill("off", 0)

(* An edit to save: the writes to do, in order, and the contents they write. *)
Plan(todo, subs, quests, answs, rejects, lost) ==
  [todo |-> todo, begun |-> FALSE, subtopics |-> subs, questions |-> quests,
   answers |-> answs, rejected |-> rejects, gone |-> lost]

Nobody == [names |-> {}, ids |-> {}]
Nothing == [names |-> {}, texts |-> {}]
NoPlan == Plan(<<>>, Empty(Names), Empty(Ids), Empty(Ids), Nobody, Nothing)

Init ==
  /\ subtopics = Empty(Names)
  /\ questions = Empty(Ids)
  /\ answers = Empty(Ids)
  /\ rejected = Nobody
  /\ tail = [f \in Files |-> "ended"]
  /\ broken = {}
  /\ stage = "idle"
  /\ plan = NoPlan
  /\ fills = [n \in Names |-> NoFill]
  /\ lock = None
  /\ dedup = {}
  /\ asks = [id \in Ids |-> "none"]
  /\ gone = Nothing
  /\ loose = FALSE
  /\ edits = 0
  /\ stops = 0

------------------------------------------------------------------------------
(* Files *)

(* `read' skips an incomplete last line and fails on any other bad line. *)
Readable(S) == S \cap broken = {}

\* Mutant: the file is opened without looking at its last line.
EndLastLine_Blind(f) == tail

(* Appender::open ends the last line, or removes it when it is incomplete. *)
EndLastLine(f) == [tail EXCEPT ![f] = "ended"]

(* A line appended to a file whose last line was not ended runs into it. *)
BrokenBy(f) == IF tail[f] = "ended" THEN broken ELSE broken \cup {f}

(* A write cut short: nothing, the start of a line, or all but its newline. *)
CutTails == {"ended", "torn", "unended"}

------------------------------------------------------------------------------
(* Edits: tui/tasks.rs `save' reads the files, applies one edit and saves it *)

Begin(new) ==
  /\ stage = "idle"
  /\ edits < MaxEdits
  /\ Readable(Files)
  /\ stage' = "saving"
  /\ plan' = new
  /\ edits' = edits + 1
  /\ UNCHANGED <<files, filling, asks, gone, loose, stops>>

When(c, f) == IF c THEN <<f>> ELSE <<>>

EditQuestion(n, t, u) ==
  LET id == <<n, t>>
      to == <<n, u>>
  IN /\ questions[id] > 0
     /\ to = id \/ questions[to] = 0
     /\ Begin(Plan(<<"questions">> \o When(answers[id] > 0, "answers"), subtopics,
                   [questions EXCEPT ![id] = @ - 1, ![to] = @ + 1],
                   IF to = id THEN answers ELSE Without(answers, {id}),
                   rejected, Nothing))

EditAnswer(id) ==
  /\ answers[id] > 0
  /\ Begin(Plan(<<"answers">>, subtopics, questions, answers, rejected, Nothing))

(* The recomputed IDs already used by a question or an answer not re-keyed. *)
Taken(n, m) ==
  {t \in Texts : /\ questions[<<n, t>>] > 0
                 /\ questions[<<m, t>>] > 0 \/ answers[<<m, t>>] > 0}

(* The records of deleted questions, moved to subtopic m. *)
Renamed(recorded, m) ==
  [rejected EXCEPT !.ids = (@ \ recorded) \cup {<<m, id[2]>> : id \in recorded}]

RenameSubtopic(n, m) ==
  LET keys == {id \in Stored(questions) : id[1] = n}
      recorded == {id \in rejected.ids : id[1] = n}
  IN /\ subtopics[n] > 0
     /\ m # n => subtopics[m] = 0 /\ Taken(n, m) = {}
     /\ IF m = n
        THEN Begin(Plan(<<"subtopics", "questions", "answers">>,
                        subtopics, questions, answers, rejected, Nothing))
        ELSE Begin(Plan(When(recorded # {}, "rejected") \o <<"subtopics", "questions", "answers">>,
                        [subtopics EXCEPT ![n] = @ - 1, ![m] = @ + 1],
                        Rekeyed(questions, keys, n, m), Rekeyed(answers, keys, n, m),
                        Renamed(recorded, m), Nothing))

\* Mutant: what is deleted is recorded after it is gone.
DeletionWrites_RecordLast(names, ids, doomed, record) ==
  When(names # {}, "subtopics") \o When(ids # {}, "questions")
    \o When(doomed # {}, "answers") \o When(record, "append")

(* The writes of a deletion, in order: what it deletes is recorded first.   *)
DeletionWrites(names, ids, doomed, record) ==
  When(record, "append") \o When(names # {}, "subtopics")
    \o When(ids # {}, "questions") \o When(doomed # {}, "answers")

(* A deleted subtopic is recorded without its questions. *)
Recorded(names, ids) ==
  IF names # {} THEN [rejected EXCEPT !.names = @ \cup names]
                ELSE [rejected EXCEPT !.ids = @ \cup ids]

(* A deletion removes subtopics and questions with their answers, and other *)
(* answers; `record' says whether they go to rejected.jsonl.                *)
Delete(names, ids, others, record) ==
  LET doomed == Stored(answers) \cap (ids \cup others)
      named == [names |-> names, texts |-> IF names = {} THEN TextsOf(ids) ELSE {}]
  IN Begin(Plan(DeletionWrites(names, ids, doomed, record),
                Without(subtopics, names), Without(questions, ids), Without(answers, doomed),
                IF record THEN Recorded(names, ids) ELSE rejected,
                IF record THEN named ELSE Nothing))

DeleteSubtopic(n) ==
  /\ subtopics[n] > 0
  /\ Delete({n}, {id \in Stored(questions) : id[1] = n}, {}, TRUE)

DeleteQuestion(id) == questions[id] > 0 /\ Delete({}, {id}, {}, TRUE)
DeleteAnswer(id)   == answers[id] > 0 /\ Delete({}, {}, {id}, FALSE)

MissingSubtopic == {id \in Stored(questions) : subtopics[id[1]] = 0}
DeleteMissing   == MissingSubtopic # {} /\ Delete({}, MissingSubtopic, {}, FALSE)

Edit ==
  \/ \E n \in Names, t, u \in Texts : EditQuestion(n, t, u)
  \/ \E id \in Ids : EditAnswer(id) \/ DeleteQuestion(id) \/ DeleteAnswer(id)
  \/ \E n, m \in Names : RenameSubtopic(n, m)
  \/ \E n \in Names : DeleteSubtopic(n)
  \/ DeleteMissing

(* The next write of Dataset::save: the rejected records are appended, then *)
(* the files are renamed over the old ones.                                 *)
AppendRejected ==
  /\ rejected' = plan.rejected
  /\ tail' = EndLastLine("rejected")
  /\ UNCHANGED <<subtopics, questions, answers, broken, gone>>

RenameOver(f) ==
  /\ subtopics' = IF f = "subtopics" THEN plan.subtopics ELSE subtopics
  /\ questions' = IF f = "questions" THEN plan.questions ELSE questions
  /\ answers' = IF f = "answers" THEN plan.answers ELSE answers
  /\ rejected' = IF f = "rejected" THEN plan.rejected ELSE rejected
  /\ tail' = [tail EXCEPT ![f] = "ended"]
  /\ broken' = broken \ {f}
  /\ gone' = [names |-> gone.names \cup IF f = "subtopics" THEN plan.gone.names ELSE {},
              texts |-> gone.texts \cup IF f = "questions" THEN plan.gone.texts ELSE {}]

SaveNext ==
  /\ stage = "saving"
  /\ plan.todo # <<>>
  /\ IF Head(plan.todo) = "append" THEN AppendRejected ELSE RenameOver(Head(plan.todo))
  /\ IF Tail(plan.todo) = <<>>
     THEN plan' = NoPlan /\ stage' = "idle"
     ELSE /\ plan' = [plan EXCEPT !.todo = Tail(@),
                                 !.begun = @ \/ Head(plan.todo) # "append"]
          /\ UNCHANGED stage
  /\ UNCHANGED <<filling, asks, loose, edits, stops>>

(* A crash or a failed write in the middle: the writes left never happen. *)
SaveStops ==
  /\ stage = "saving"
  /\ plan.todo # <<>>
  /\ stops < MaxStops
  /\ stops' = stops + 1
  /\ \/ UNCHANGED <<rejected, tail>>
     \/ /\ Head(plan.todo) = "append"
        /\ \E cut \in CutTails : tail' = [tail EXCEPT !["rejected"] = cut]
        /\ rejected' = IF tail'["rejected"] = "unended" THEN plan.rejected ELSE rejected
  /\ stage' = "idle"
  /\ plan' = NoPlan
  /\ loose' = (loose \/ plan.begun)
  /\ UNCHANGED <<subtopics, questions, answers, broken, filling, asks, gone, edits>>

------------------------------------------------------------------------------
(* Stages *)

StageOver ==
  /\ stage' = "idle"
  /\ fills' = [n \in Names |-> NoFill]
  /\ lock' = None
  /\ dedup' = {}
  /\ asks' = [id \in Ids |-> "none"]

(* An interrupt, a crash between two writes, or (outside the answers, which *)
(* have their own way out) a provider error that fails every request.       *)
StageStops ==
  /\ stage \in {"subtopics", "seeding", "questions", "answers", "stopping"}
  /\ StageOver
  /\ UNCHANGED <<files, plan, gone, loose, edits, stops>>

Forced(force) == loose' = (loose \/ force)

------------------------------------------------------------------------------
(* Subtopics: one request, its new names appended *)

StartSubtopics(force) ==
  /\ stage = "idle"
  /\ Readable({"subtopics", "rejected"})
  /\ stage' = "subtopics"
  /\ subtopics' = IF force THEN Empty(Names) ELSE subtopics
  /\ tail' = EndLastLine("subtopics")
  /\ Forced(force)
  /\ UNCHANGED <<questions, answers, rejected, broken, plan, filling, asks,
                 gone, edits, stops>>

Missing  == IF Held(subtopics) < Wanted THEN Wanted - Held(subtopics) ELSE 0
NewNames == Names \ (Stored(subtopics) \cup rejected.names)

AppendSubtopics ==
  /\ stage = "subtopics"
  /\ \E fresh \in SUBSET NewNames :
       /\ Cardinality(fresh) <= Missing
       /\ subtopics' = With(subtopics, fresh)
       /\ broken' = IF fresh = {} THEN broken ELSE BrokenBy("subtopics")
  /\ StageOver
  /\ UNCHANGED <<questions, answers, rejected, tail, plan, gone, loose, edits, stops>>

SubtopicsCut ==
  /\ stage = "subtopics"
  /\ stops < MaxStops
  /\ stops' = stops + 1
  /\ \E fresh \in SUBSET NewNames, cut \in CutTails :
       /\ Cardinality(fresh) <= Missing
       /\ cut = "unended" => fresh # {}
       /\ cut = "torn" => Cardinality(fresh) < Missing
       /\ subtopics' = With(subtopics, fresh)
       /\ tail' = [tail EXCEPT !["subtopics"] = cut]
       /\ broken' = IF fresh = {} THEN broken ELSE BrokenBy("subtopics")
  /\ StageOver
  /\ UNCHANGED <<questions, answers, rejected, plan, gone, loose, edits>>

------------------------------------------------------------------------------
(* Questions: several subtopics filled at a time, one deduplicator *)

StartQuestions(force) ==
  /\ stage = "idle"
  /\ Readable({"subtopics", "questions", "rejected"})
  /\ stage' = "seeding"
  /\ questions' = IF force THEN Empty(Ids) ELSE questions
  /\ tail' = IF force THEN [tail EXCEPT !["questions"] = "ended"] ELSE tail
  /\ Forced(force)
  /\ UNCHANGED <<subtopics, answers, rejected, broken, plan, filling, asks,
                 gone, edits, stops>>

Slots == {n \in Stored(subtopics) : InSubtopic(questions, n) < Target}

(* A topic whose known texts cannot be embedded is left out. *)
Seed ==
  /\ stage = "seeding"
  /\ \E left_out \in BOOLEAN :
       fills' = [n \in Names |->
         IF n \in Slots /\ ~left_out
         THEN Fill("waiting", InSubtopic(questions, n))
         ELSE NoFill]
  /\ dedup' = IF Slots = {} THEN {} ELSE TextsOf(Stored(questions)) \cup TextsOf(rejected.ids)
  /\ tail' = EndLastLine("questions")
  /\ stage' = "questions"
  /\ UNCHANGED <<subtopics, questions, answers, rejected, broken, plan, lock, asks, history>>

Running == {n \in Names : fills[n].pc \in {"asking", "replied", "embedding"}}
Left(n) == Target - fills[n].accepted
Count(n) == IF Batch < Left(n) THEN Batch ELSE Left(n)

FillStarts(n) ==
  /\ stage = "questions"
  /\ fills[n].pc = "waiting"
  /\ Cardinality(Running) < Concurrency
  /\ fills' = [fills EXCEPT ![n].pc = "asking"]
  /\ UNCHANGED <<files, stage, plan, lock, dedup, asks, history>>

Reply(n) ==
  /\ stage = "questions"
  /\ fills[n].pc = "asking"
  /\ \E batch \in SUBSET Texts :
       /\ Cardinality(batch) <= Count(n)
       /\ fills' = [fills EXCEPT ![n].pc = "replied", ![n].batch = batch]
  /\ UNCHANGED <<files, stage, plan, lock, dedup, asks, history>>

\* Mutant: the deduplicator is not held across the embedding request.
TakeDedup_Unlocked(n) ==
  /\ stage = "questions"
  /\ fills[n].pc = "replied"
  /\ lock' = n
  /\ fills' = [fills EXCEPT ![n].pc = "embedding", ![n].batch = @ \ dedup]
  /\ UNCHANGED <<files, stage, plan, dedup, asks, history>>

(* The lock is taken for a whole batch: the lexical filter looks at what is *)
(* known before the embedding request, and records what was kept after it.  *)
TakeDedup(n) ==
  /\ stage = "questions"
  /\ fills[n].pc = "replied"
  /\ lock = None
  /\ lock' = n
  /\ fills' = [fills EXCEPT ![n].pc = "embedding", ![n].batch = @ \ dedup]
  /\ UNCHANGED <<files, stage, plan, dedup, asks, history>>

Filled(n, kept) ==
  LET stalls == IF kept = {} THEN fills[n].stalls + 1 ELSE 0
      accepted == fills[n].accepted + Cardinality(kept)
  IN [pc |-> IF accepted < Target /\ stalls < Patience THEN "asking" ELSE "done",
      accepted |-> accepted, stalls |-> stalls, batch |-> {}]

(* The embedding filter may drop more of the batch; what is kept is written. *)
Admit(n) ==
  /\ stage = "questions"
  /\ fills[n].pc = "embedding"
  /\ \E kept \in SUBSET fills[n].batch :
       /\ dedup' = dedup \cup kept
       /\ questions' = With(questions, {n} \X kept)
       /\ broken' = IF kept = {} THEN broken ELSE BrokenBy("questions")
       /\ fills' = [fills EXCEPT ![n] = Filled(n, kept)]
  /\ lock' = None
  /\ UNCHANGED <<subtopics, answers, rejected, tail, stage, plan, asks, history>>

\* Mutant: the deduplicator stays taken when its embedding request fails.
Released_Never(n) == lock

(* The guard of the deduplicator is dropped with the request that held it. *)
Released(n) == IF lock = n THEN None ELSE lock

(* A request that fails for this subtopic only ends its fill. *)
FillFails(n) ==
  /\ stage = "questions"
  /\ fills[n].pc \in {"asking", "embedding"}
  /\ lock' = Released(n)
  /\ fills' = [fills EXCEPT ![n] = Fill("done", 0)]
  /\ UNCHANGED <<files, stage, plan, dedup, asks, history>>

QuestionsCut(n) ==
  /\ stage = "questions"
  /\ fills[n].pc = "embedding"
  /\ stops < MaxStops
  /\ stops' = stops + 1
  /\ \E written \in SUBSET fills[n].batch, cut \in CutTails :
       /\ cut = "unended" => written # {}
       /\ cut = "torn" => written # fills[n].batch
       /\ questions' = With(questions, {n} \X written)
       /\ tail' = [tail EXCEPT !["questions"] = cut]
       /\ broken' = IF written = {} THEN broken ELSE BrokenBy("questions")
  /\ StageOver
  /\ UNCHANGED <<subtopics, answers, rejected, plan, gone, loose, edits>>

QuestionsEnd ==
  /\ stage = "questions"
  /\ \A n \in Names : fills[n].pc \in {"off", "done"}
  /\ StageOver
  /\ UNCHANGED <<files, plan, gone, loose, edits, stops>>

------------------------------------------------------------------------------
(* Answers: one request per question without an answer, saved as it is joined *)

\* Mutant: answered questions are asked again.
Pending_All(kept) == Stored(questions)

Pending(kept) == {id \in Stored(questions) : kept[id] = 0}

StartAnswers(force) ==
  LET kept == IF force THEN Empty(Ids) ELSE answers
  IN /\ stage = "idle"
     /\ Readable({"questions", "answers"})
     /\ stage' = "answers"
     /\ answers' = kept
     /\ tail' = EndLastLine("answers")
     /\ asks' = [id \in Ids |-> IF id \in Pending(kept) THEN "queued" ELSE "none"]
     /\ UNCHANGED <<subtopics, questions, rejected, broken, plan, filling, history>>

InFlight == {id \in Ids : asks[id] = "asking"}

Ask(id) ==
  /\ stage = "answers"
  /\ asks[id] = "queued"
  /\ Cardinality(InFlight) < Concurrency
  /\ asks' = [asks EXCEPT ![id] = "asking"]
  /\ UNCHANGED <<files, stage, plan, filling, history>>

(* A request that fails for this question only leaves it for the next run. *)
Finish(id) ==
  /\ stage = "answers"
  /\ asks[id] = "asking"
  /\ \E how \in {"finished", "none", "fatal"} : asks' = [asks EXCEPT ![id] = how]
  /\ UNCHANGED <<files, stage, plan, filling, history>>

(* The stage joins an answered request and saves it; once it stops on a     *)
(* fatal error (keep_finished), it does so with those that had finished.    *)
Join(id) ==
  /\ stage \in {"answers", "stopping"}
  /\ asks[id] = "finished"
  /\ asks' = [asks EXCEPT ![id] = "none"]
  /\ answers' = With(answers, {id})
  /\ broken' = BrokenBy("answers")
  /\ UNCHANGED <<subtopics, questions, rejected, tail, stage, plan, filling, history>>

\* Mutant: a fatal error drops what is not joined yet.
Aborted_All(late) == [id \in Ids |-> "none"]

(* A fatal error aborts the others; those that had finished, and those that *)
(* end before they notice, keep what they got.                              *)
Aborted(late) ==
  [id \in Ids |-> IF asks[id] = "finished" \/ id \in late THEN "finished" ELSE "none"]

JoinFatal(id) ==
  /\ stage = "answers"
  /\ asks[id] = "fatal"
  /\ \E late \in SUBSET InFlight : asks' = Aborted(late)
  /\ stage' = "stopping"
  /\ UNCHANGED <<files, plan, filling, history>>

AnswersCut(id) ==
  /\ stage \in {"answers", "stopping"}
  /\ asks[id] = "finished"
  /\ stops < MaxStops
  /\ stops' = stops + 1
  /\ \E cut \in CutTails :
       /\ tail' = [tail EXCEPT !["answers"] = cut]
       /\ answers' = IF cut = "unended" THEN With(answers, {id}) ELSE answers
       /\ broken' = IF cut = "unended" THEN BrokenBy("answers") ELSE broken
  /\ StageOver
  /\ UNCHANGED <<subtopics, questions, rejected, plan, gone, loose, edits>>

AnswersEnd ==
  /\ stage \in {"answers", "stopping"}
  /\ \A id \in Ids : asks[id] = "none"
  /\ StageOver
  /\ UNCHANGED <<files, plan, gone, loose, edits, stops>>

------------------------------------------------------------------------------

Start == \E force \in BOOLEAN :
           StartSubtopics(force) \/ StartQuestions(force) \/ StartAnswers(force)

(* What the program does by itself once a stage or an edit has begun. *)
Work ==
  \/ SaveNext
  \/ AppendSubtopics
  \/ Seed \/ QuestionsEnd
  \/ \E n \in Names : FillStarts(n) \/ Reply(n) \/ TakeDedup(n) \/ Admit(n) \/ FillFails(n)
  \/ \E id \in Ids : Ask(id) \/ Finish(id) \/ Join(id) \/ JoinFatal(id)
  \/ AnswersEnd

Fault ==
  \/ SaveStops \/ StageStops \/ SubtopicsCut
  \/ \E n \in Names : QuestionsCut(n)
  \/ \E id \in Ids : AnswersCut(id)

Next == Start \/ Edit \/ Work \/ Fault
Spec == Init /\ [][Next]_vars
------------------------------------------------------------------------------
(* Properties *)

NamesAndIds == [names : SUBSET Names, ids : SUBSET Ids]
NamesAndTexts == [names : SUBSET Names, texts : SUBSET Texts]

PlanType ==
  [todo : Seq(Files \cup {"append"}), begun : BOOLEAN,
   subtopics : [Names -> Nat], questions : [Ids -> Nat], answers : [Ids -> Nat],
   rejected : NamesAndIds, gone : NamesAndTexts]

FillType == [pc : {"off", "waiting", "asking", "replied", "embedding", "done"},
             accepted : Nat, stalls : Nat, batch : SUBSET Texts]

(* Every file holds records of known keys, and the working state is that of *)
(* the stage running.                                                       *)
TypeOK ==
  /\ subtopics \in [Names -> Nat]
  /\ questions \in [Ids -> Nat]
  /\ answers \in [Ids -> Nat]
  /\ rejected \in NamesAndIds
  /\ tail \in [Files -> CutTails]
  /\ broken \in SUBSET Files
  /\ stage \in {"idle", "saving", "subtopics", "seeding", "questions", "answers", "stopping"}
  /\ plan \in PlanType
  /\ fills \in [Names -> FillType]
  /\ lock \in Names \cup {None}
  /\ dedup \in SUBSET Texts
  /\ asks \in [Ids -> {"none", "queued", "asking", "finished", "fatal"}]
  /\ gone \in NamesAndTexts
  /\ loose \in BOOLEAN
  /\ edits \in 0..MaxEdits
  /\ stops \in 0..MaxStops

(* No file ever gets two records of one ID, whatever edits, stages and cuts *)
(* came before: the IDs are what every stage resumes by and what an edit    *)
(* names its record with.                                                   *)
UniqueIds ==
  /\ \A n \in Names : subtopics[n] <= 1
  /\ \A id \in Ids : questions[id] <= 1 /\ answers[id] <= 1

(* A cut never makes a file unreadable: an incomplete last line is ended or *)
(* removed before anything is appended to it.                               *)
NeverUnreadable == broken = {}

(* As long as no change was cut between two of its renames and no stage     *)
(* threw its output away, every question has its subtopic and every answer  *)
(* its question, while nothing is being saved.                              *)
Whole ==
  ~loose /\ stage # "saving" =>
    /\ \A id \in Stored(questions) : subtopics[id[1]] > 0
    /\ Stored(answers) \subseteq Stored(questions)

(* The files stay usable: each can be read, holds every ID once, and refers *)
(* to nothing missing, whatever edits, stages, cuts and crashes came.       *)
FilesHold == UniqueIds /\ NeverUnreadable /\ Whole

(* A question in flight has no answer on disk: nothing answered is paid for *)
(* again, even when the answers were cut in the middle.                     *)
AskedOnce == \A id \in Ids : asks[id] # "none" => answers[id] = 0

(* What the user deleted is never generated again, not even when the        *)
(* deletion was cut as soon as its file was replaced.                       *)
NeverRegenerated ==
  [][/\ stage = "subtopics" => \A n \in gone.names : subtopics'[n] <= subtopics[n]
     /\ stage = "questions" =>
          \A id \in Ids : id[2] \in gone.texts => ~(questions'[id] > questions[id])]_vars

(* Subtopics filled at the same time never keep the same question: what the *)
(* stage adds is new in the whole topic.                                    *)
NewInTopic ==
  [][stage = "questions" =>
       \A id \in Ids : questions'[id] > questions[id] =>
         id[2] \notin TextsOf(Stored(questions))]_vars

(* A stage resumed any number of times stops at the configured counts: it   *)
(* adds nothing that takes the topic or a subtopic past them.               *)
WithinTarget ==
  [][/\ stage = "subtopics" /\ subtopics' # subtopics =>
          Cardinality(Stored(subtopics')) <= Wanted
     /\ stage = "questions" =>
          \A id \in Stored(questions') \ Stored(questions) :
            InSubtopic(questions', id[1]) <= Target]_vars

(* A stage adds only what is new in its topic and within its target.        *)
StageAdds == NewInTopic /\ WithinTarget

(* A fatal error loses no answer that had finished: only an interrupt, a    *)
(* crash or a failed write does.                                            *)
KeptFinished ==
  [][\A id \in Ids : asks[id] = "finished" /\ asks'[id] # "finished" /\ ~Fault
        => answers'[id] = answers[id] + 1]_vars

(* How far a fill and a request are from their end. *)
FillRank(f) ==
  IF f.pc \in {"off", "done"} THEN 0
  ELSE 4 * ((Target - f.accepted) * (Patience + 1) + (Patience - f.stalls))
         + CASE f.pc = "waiting" -> 4 [] f.pc = "asking" -> 3
             [] f.pc = "replied" -> 2 [] f.pc = "embedding" -> 1
AskRank(ask) == CASE ask = "queued" -> 3 [] ask = "asking" -> 2 [] ask = "none" -> 0 [] OTHER -> 1

(* A stage cannot run for ever: each of its steps brings a fill or a        *)
(* request nearer to its end and none further from it, though a batch that  *)
(* brings something new resets the count of those that brought nothing.     *)
StageAdvances ==
  [][/\ stage = "questions" /\ stage' = "questions" =>
          /\ \A n \in Names : FillRank(fills'[n]) <= FillRank(fills[n])
          /\ \E n \in Names : FillRank(fills'[n]) < FillRank(fills[n])
     /\ stage \in {"answers", "stopping"} /\ stage' # "idle" =>
          /\ \A id \in Ids : AskRank(asks'[id]) <= AskRank(asks[id])
          /\ \E id \in Ids : AskRank(asks'[id]) < AskRank(asks[id])]_vars

(* Nor can it hang: whatever the fills and requests wait for (a slot, the   *)
(* deduplicator, each other's end), one of them can go on. So every stage   *)
(* ends, unless the process does.                                           *)
StageEnds == [](stage # "idle" => ENABLED Work) /\ StageAdvances

=============================================================================
