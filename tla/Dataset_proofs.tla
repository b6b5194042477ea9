---------------------------- MODULE Dataset_proofs ----------------------------
(***************************************************************************)
(* What the files of a topic keep for any number of names and texts, of    *)
(* edits, of stages and of cuts.                                           *)
(***************************************************************************)
EXTENDS Dataset, FiniteSetTheorems, TLAPS

Writes == Files \cup {"append"}

------------------------------------------------------------------------------
(* Contents and plans *)

LEMMA EmptyType ==
  /\ Empty(Names) \in [Names -> Nat]
  /\ Empty(Ids) \in [Ids -> Nat]
  /\ Nobody \in NamesAndIds
  /\ Nothing \in NamesAndTexts
  /\ NoFill \in FillType
BY DEF Empty, Nobody, Nothing, NamesAndIds, NamesAndTexts, NoFill, Fill, FillType

LEMMA PlanHasType ==
  ASSUME NEW todo \in Seq(Writes), NEW subs \in [Names -> Nat], NEW quests \in [Ids -> Nat],
         NEW answs \in [Ids -> Nat], NEW rejects \in NamesAndIds, NEW lost \in NamesAndTexts
  PROVE  Plan(todo, subs, quests, answs, rejects, lost) \in PlanType
BY DEF Plan, PlanType, Writes

LEMMA NoPlanType == NoPlan \in PlanType
<1>1. <<>> \in Seq(Writes)
  OBVIOUS
<1> QED  BY <1>1, EmptyType, PlanHasType DEF NoPlan

LEMMA WhenType ==
  ASSUME NEW c, NEW f \in Writes
  PROVE  When(c, f) \in Seq(Writes)
BY DEF When

\* What an operator on contents returns is contents.
LEMMA ContentsType ==
  ASSUME NEW D, NEW f \in [D -> Nat], NEW S
  PROVE  With(f, S) \in [D -> Nat] /\ Without(f, S) \in [D -> Nat] /\ Stored(f) \in SUBSET D
BY DEF With, Without, Stored

LEMMA RekeyedType ==
  ASSUME NEW f \in [Ids -> Nat], NEW keys \in SUBSET Ids, NEW n \in Names, NEW m \in Names
  PROVE  Rekeyed(f, keys, n, m) \in [Ids -> Nat]
<1>1. \A id \in Ids : <<n, id[2]>> \in Ids
  BY DEF Ids
<1> QED  BY <1>1 DEF Rekeyed

LEMMA InSubtopicType ==
  ASSUME NEW f, NEW n
  PROVE  InSubtopic(f, n) \in Nat
<1>1. IsFiniteSet({t \in Texts : f[<<n, t>>] > 0})
  BY DatasetAssumption, FS_Subset
<1> QED  BY <1>1, FS_CardinalityType DEF InSubtopic

LEMMA TextsType ==
  ASSUME NEW S \in SUBSET Ids
  PROVE  TextsOf(S) \in SUBSET Texts
BY DEF TextsOf, Ids

LEMMA RecordedType ==
  ASSUME TypeOK, NEW names \in SUBSET Names, NEW ids \in SUBSET Ids
  PROVE  Recorded(names, ids) \in NamesAndIds
BY DEF TypeOK, Recorded, NamesAndIds

LEMMA RenamedType ==
  ASSUME TypeOK, NEW recorded \in SUBSET Ids, NEW m \in Names
  PROVE  Renamed(recorded, m) \in NamesAndIds
<1>1. \A id \in Ids : <<m, id[2]>> \in Ids
  BY DEF Ids
<1> QED  BY <1>1 DEF TypeOK, Renamed, NamesAndIds

------------------------------------------------------------------------------
(* Types *)

\* An edit that begins changes nothing but the plan.
LEMMA BeginType ==
  ASSUME TypeOK, NEW new \in PlanType, Begin(new)
  PROVE  TypeOK'
<1>1. edits' \in 0..MaxEdits
  BY DatasetAssumption DEF TypeOK, Begin
<1> QED  BY <1>1 DEF TypeOK, Begin, files, filling

LEMMA EditQuestionType ==
  ASSUME TypeOK, NEW n \in Names, NEW t \in Texts, NEW u \in Texts, EditQuestion(n, t, u)
  PROVE  TypeOK'
<1> DEFINE id == <<n, t>>
           to == <<n, u>>
           todo == <<"questions">> \o When(answers[id] > 0, "answers")
           quests == [questions EXCEPT ![id] = @ - 1, ![to] = @ + 1]
           answs == IF to = id THEN answers ELSE Without(answers, {id})
<1>1. id \in Ids /\ to \in Ids
  BY DEF Ids
<1>2. questions[id] > 0 /\ Begin(Plan(todo, subtopics, quests, answs, rejected, Nothing))
  BY DEF EditQuestion
<1>3. quests \in [Ids -> Nat]
  BY <1>1, <1>2 DEF TypeOK
<1>4. answs \in [Ids -> Nat]
  BY ContentsType DEF TypeOK
<1>5. todo \in Seq(Writes)
  <2>1. When(answers[id] > 0, "answers") \in Seq(Writes) /\ <<"questions">> \in Seq(Writes)
    BY WhenType DEF Writes, Files
  <2> QED  BY <2>1
<1>6. Plan(todo, subtopics, quests, answs, rejected, Nothing) \in PlanType
  BY <1>3, <1>4, <1>5, PlanHasType, EmptyType DEF TypeOK
<1> QED  BY <1>2, <1>6, BeginType

LEMMA EditAnswerType ==
  ASSUME TypeOK, NEW id \in Ids, EditAnswer(id)
  PROVE  TypeOK'
<1>1. <<"answers">> \in Seq(Writes)
  BY DEF Writes, Files
<1>2. Plan(<<"answers">>, subtopics, questions, answers, rejected, Nothing) \in PlanType
  BY <1>1, PlanHasType, EmptyType DEF TypeOK
<1> QED  BY <1>2, BeginType DEF EditAnswer

LEMMA RenameType ==
  ASSUME TypeOK, NEW n \in Names, NEW m \in Names, RenameSubtopic(n, m)
  PROVE  TypeOK'
<1> DEFINE keys == {id \in Stored(questions) : id[1] = n}
           recorded == {id \in rejected.ids : id[1] = n}
           all == <<"subtopics", "questions", "answers">>
           todo == When(recorded # {}, "rejected") \o all
           subs == [subtopics EXCEPT ![n] = @ - 1, ![m] = @ + 1]
           quests == Rekeyed(questions, keys, n, m)
           answs == Rekeyed(answers, keys, n, m)
<1>1. all \in Seq(Writes) /\ todo \in Seq(Writes)
  <2>1. all \in Seq(Writes) /\ When(recorded # {}, "rejected") \in Seq(Writes)
    BY WhenType DEF Writes, Files
  <2> QED  BY <2>1
<1>2. CASE m = n
  <2>1. Begin(Plan(all, subtopics, questions, answers, rejected, Nothing))
    BY <1>2 DEF RenameSubtopic
  <2>2. Plan(all, subtopics, questions, answers, rejected, Nothing) \in PlanType
    BY <1>1, PlanHasType, EmptyType DEF TypeOK
  <2> QED  BY <2>1, <2>2, BeginType
<1>3. CASE m # n
  <2>1. subtopics[n] > 0 /\ Begin(Plan(todo, subs, quests, answs, Renamed(recorded, m), Nothing))
    BY <1>3 DEF RenameSubtopic
  <2>2. subs \in [Names -> Nat]
    BY <2>1 DEF TypeOK
  <2>3. keys \in SUBSET Ids /\ recorded \in SUBSET Ids
    BY DEF TypeOK, Stored, NamesAndIds
  <2>4. quests \in [Ids -> Nat] /\ answs \in [Ids -> Nat]
    BY <2>3, RekeyedType DEF TypeOK
  <2>5. Renamed(recorded, m) \in NamesAndIds
    BY <2>3, RenamedType
  <2>6. Plan(todo, subs, quests, answs, Renamed(recorded, m), Nothing) \in PlanType
    BY <1>1, <2>2, <2>4, <2>5, PlanHasType, EmptyType
  <2> QED  BY <2>1, <2>6, BeginType
<1> QED  BY <1>2, <1>3

LEMMA DeleteType ==
  ASSUME TypeOK, NEW names \in SUBSET Names, NEW ids \in SUBSET Ids, NEW others \in SUBSET Ids,
         NEW record \in BOOLEAN, Delete(names, ids, others, record)
  PROVE  TypeOK'
<1> DEFINE doomed == Stored(answers) \cap (ids \cup others)
           named == [names |-> names, texts |-> IF names = {} THEN TextsOf(ids) ELSE {}]
           todo == DeletionWrites(names, ids, doomed, record)
           rejects == IF record THEN Recorded(names, ids) ELSE rejected
           lost == IF record THEN named ELSE Nothing
           new == Plan(todo, Without(subtopics, names), Without(questions, ids),
                       Without(answers, doomed), rejects, lost)
<1>1. Begin(new)
  BY DEF Delete
<1>2. todo \in Seq(Writes)
  <2>1. /\ When(record, "append") \in Seq(Writes)
        /\ When(names # {}, "subtopics") \in Seq(Writes)
        /\ When(ids # {}, "questions") \in Seq(Writes)
        /\ When(doomed # {}, "answers") \in Seq(Writes)
    BY WhenType DEF Writes, Files
  <2> QED  BY <2>1 DEF DeletionWrites
<1>3. /\ Without(subtopics, names) \in [Names -> Nat]
      /\ Without(questions, ids) \in [Ids -> Nat]
      /\ Without(answers, doomed) \in [Ids -> Nat]
  BY ContentsType DEF TypeOK
<1>4. rejects \in NamesAndIds
  BY RecordedType DEF TypeOK
<1>5. lost \in NamesAndTexts
  BY EmptyType DEF TextsOf, NamesAndTexts, Ids
<1>6. new \in PlanType
  BY <1>2, <1>3, <1>4, <1>5, PlanHasType
<1> QED  BY <1>1, <1>6, BeginType

LEMMA EditType ==
  ASSUME TypeOK, Edit
  PROVE  TypeOK'
<1>1. ASSUME NEW n \in Names, DeleteSubtopic(n)  PROVE TypeOK'
  <2>1. {id \in Stored(questions) : id[1] = n} \in SUBSET Ids
    BY DEF TypeOK, Stored
  <2> QED  BY <1>1, <2>1, DeleteType DEF DeleteSubtopic
<1>2. ASSUME NEW id \in Ids, DeleteQuestion(id) \/ DeleteAnswer(id)  PROVE TypeOK'
  BY <1>2, DeleteType DEF DeleteQuestion, DeleteAnswer
<1>3. ASSUME DeleteMissing  PROVE TypeOK'
  <2>1. MissingSubtopic \in SUBSET Ids
    BY DEF TypeOK, Stored, MissingSubtopic
  <2> QED  BY <1>3, <2>1, DeleteType DEF DeleteMissing
<1> QED  BY <1>1, <1>2, <1>3, EditQuestionType, EditAnswerType, RenameType DEF Edit

LEMMA SaveType ==
  ASSUME TypeOK, SaveNext \/ SaveStops
  PROVE  TypeOK'
<1> USE DEF TypeOK
<1>0. "rejected" \in Files /\ CutTails = {"ended", "torn", "unended"}
  BY DEF Files, CutTails
<1>1. CASE SaveNext
  <2>1. plan.todo \in Seq(Writes) /\ plan.todo # <<>>
    BY <1>1 DEF SaveNext, PlanType, Writes
  <2>2. Head(plan.todo) \in Writes /\ Tail(plan.todo) \in Seq(Writes)
    BY <2>1
  <2>3. plan' \in PlanType /\ stage' \in {"idle", "saving"}
    <3>1. CASE Tail(plan.todo) = <<>>
      BY <1>1, <3>1, NoPlanType DEF SaveNext
    <3>2. CASE Tail(plan.todo) # <<>>
      <4>1. \A b \in BOOLEAN : [plan EXCEPT !.todo = Tail(@), !.begun = b] \in PlanType
        BY <2>2 DEF PlanType, Writes
      <4>2. PICK b \in BOOLEAN : plan' = [plan EXCEPT !.todo = Tail(@), !.begun = b]
        BY <1>1, <3>2 DEF SaveNext
      <4> QED  BY <1>1, <3>2, <4>1, <4>2 DEF SaveNext
    <3> QED  BY <3>1, <3>2
  <2>4. /\ subtopics' \in [Names -> Nat] /\ questions' \in [Ids -> Nat] /\ answers' \in [Ids -> Nat]
        /\ rejected' \in NamesAndIds /\ gone' \in NamesAndTexts
        /\ tail' \in [Files -> CutTails] /\ broken' \in SUBSET Files
    <3>1. CASE Head(plan.todo) = "append"
      BY <1>0, <1>1, <3>1 DEF SaveNext, AppendRejected, EndLastLine, PlanType
    <3>2. CASE Head(plan.todo) # "append"
      <4>1. RenameOver(Head(plan.todo))
        BY <1>1, <3>2 DEF SaveNext
      <4>2. gone' \in NamesAndTexts
        BY <4>1 DEF RenameOver, PlanType, NamesAndTexts
      <4> QED  BY <1>0, <4>1, <4>2 DEF RenameOver, PlanType
    <3> QED  BY <3>1, <3>2
  <2> QED  BY <1>1, <2>3, <2>4 DEF SaveNext, filling
<1>2. CASE SaveStops
  <2>1. stops' \in 0..MaxStops
    BY <1>2, DatasetAssumption DEF SaveStops
  <2>2. tail' \in [Files -> CutTails] /\ rejected' \in NamesAndIds
    <3>1. CASE UNCHANGED <<rejected, tail>>
      BY <3>1
    <3>2. CASE ~UNCHANGED <<rejected, tail>>
      <4>1. PICK cut \in CutTails : tail' = [tail EXCEPT !["rejected"] = cut]
        BY <1>2, <3>2 DEF SaveStops
      <4> QED  BY <1>0, <1>2, <3>2, <4>1 DEF SaveStops, PlanType
    <3> QED  BY <3>1, <3>2
  <2>3. plan' \in PlanType
    BY <1>2, NoPlanType DEF SaveStops
  <2>4. loose' \in BOOLEAN /\ stage' = "idle"
    BY <1>2 DEF SaveStops, PlanType
  <2> QED  BY <1>2, <2>1, <2>2, <2>3, <2>4 DEF SaveStops, filling
<1> QED  BY <1>1, <1>2

LEMMA OverType ==
  ASSUME StageOver
  PROVE  /\ stage' = "idle" /\ lock' = None /\ dedup' = {}
         /\ fills' \in [Names -> FillType]
         /\ asks' \in [Ids -> {"none", "queued", "asking", "finished", "fatal"}]
BY EmptyType DEF StageOver

LEMMA SubtopicsType ==
  ASSUME TypeOK, (\E force \in BOOLEAN : StartSubtopics(force)) \/ AppendSubtopics \/ SubtopicsCut
  PROVE  TypeOK'
<1> USE DEF TypeOK
<1>0. "subtopics" \in Files /\ CutTails = {"ended", "torn", "unended"}
  BY DEF Files, CutTails
<1>1. ASSUME NEW force \in BOOLEAN, StartSubtopics(force)  PROVE TypeOK'
  BY <1>0, <1>1, EmptyType DEF StartSubtopics, EndLastLine, Forced, filling
<1>2. CASE AppendSubtopics
  <2>1. subtopics' \in [Names -> Nat] /\ broken' \in SUBSET Files
    BY <1>0, <1>2, ContentsType DEF AppendSubtopics, BrokenBy
  <2> QED  BY <1>2, <2>1, OverType DEF AppendSubtopics
<1>3. CASE SubtopicsCut
  <2>1. subtopics' \in [Names -> Nat] /\ broken' \in SUBSET Files /\ tail' \in [Files -> CutTails]
    BY <1>0, <1>3, ContentsType DEF SubtopicsCut, BrokenBy
  <2>2. stops' \in 0..MaxStops
    BY <1>3, DatasetAssumption DEF SubtopicsCut
  <2> QED  BY <1>3, <2>1, <2>2, OverType DEF SubtopicsCut
<1> QED  BY <1>1, <1>2, <1>3

LEMMA FilledType ==
  ASSUME TypeOK, NEW n \in Names, NEW kept \in SUBSET Texts
  PROVE  Filled(n, kept) \in FillType
<1>1. Cardinality(kept) \in Nat
  BY DatasetAssumption, FS_Subset, FS_CardinalityType
<1>2. fills[n].stalls \in Nat /\ fills[n].accepted \in Nat
  BY DEF TypeOK, FillType
<1> QED  BY <1>1, <1>2 DEF Filled, FillType

LEMMA QuestionsType ==
  ASSUME TypeOK,
         \/ \E force \in BOOLEAN : StartQuestions(force)
         \/ Seed \/ QuestionsEnd
         \/ \E n \in Names : FillStarts(n) \/ Reply(n) \/ TakeDedup(n) \/ Admit(n)
                               \/ FillFails(n) \/ QuestionsCut(n)
  PROVE  TypeOK'
<1> USE DEF TypeOK, files, filling, history
<1>0. "questions" \in Files /\ CutTails = {"ended", "torn", "unended"}
  BY DEF Files, CutTails
<1>1. ASSUME NEW force \in BOOLEAN, StartQuestions(force)  PROVE TypeOK'
  BY <1>0, <1>1, EmptyType DEF StartQuestions, Forced
<1>2. CASE Seed
  <2>1. fills' \in [Names -> FillType]
    <3>1. \A k \in Nat : Fill("waiting", k) \in FillType
      BY DEF Fill, FillType
    <3> QED  BY <1>2, <3>1, EmptyType, InSubtopicType DEF Seed
  <2>2. dedup' \in SUBSET Texts
    BY <1>2, TextsType, ContentsType DEF Seed, NamesAndIds
  <2> QED  BY <1>0, <1>2, <2>1, <2>2 DEF Seed, EndLastLine
<1>3. CASE QuestionsEnd
  BY <1>3, OverType DEF QuestionsEnd
<1>4. ASSUME NEW n \in Names, FillStarts(n) \/ Reply(n) \/ TakeDedup(n)  PROVE TypeOK'
  <2>1. fills' \in [Names -> FillType]
    BY <1>4 DEF FillStarts, Reply, TakeDedup, FillType
  <2> QED  BY <1>4, <2>1 DEF FillStarts, Reply, TakeDedup
<1>5. ASSUME NEW n \in Names, FillFails(n)  PROVE TypeOK'
  <2>1. fills' \in [Names -> FillType]
    BY <1>5 DEF FillFails, FillType, NoFill, Fill
  <2>2. lock' \in Names \cup {None}
    BY <1>5 DEF FillFails, Released
  <2> QED  BY <1>5, <2>1, <2>2 DEF FillFails
<1>6. ASSUME NEW n \in Names, Admit(n)  PROVE TypeOK'
  <2>1. fills[n].batch \in SUBSET Texts
    BY DEF FillType
  <2>2. PICK kept \in SUBSET fills[n].batch :
          /\ dedup' = dedup \cup kept
          /\ questions' = With(questions, {n} \X kept)
          /\ broken' = IF kept = {} THEN broken ELSE BrokenBy("questions")
          /\ fills' = [fills EXCEPT ![n] = Filled(n, kept)]
    BY <1>6 DEF Admit
  <2>3. fills' \in [Names -> FillType]
    BY <2>1, <2>2, FilledType
  <2>4. questions' \in [Ids -> Nat]
    BY <2>2, ContentsType
  <2>5. dedup' \in SUBSET Texts /\ broken' \in SUBSET Files
    BY <1>0, <2>1, <2>2 DEF BrokenBy
  <2> QED  BY <1>6, <2>3, <2>4, <2>5 DEF Admit
<1>7. ASSUME NEW n \in Names, QuestionsCut(n)  PROVE TypeOK'
  <2>1. questions' \in [Ids -> Nat] /\ broken' \in SUBSET Files /\ tail' \in [Files -> CutTails]
    BY <1>0, <1>7, ContentsType DEF QuestionsCut, BrokenBy
  <2>2. stops' \in 0..MaxStops
    BY <1>7, DatasetAssumption DEF QuestionsCut
  <2> QED  BY <1>7, <2>1, <2>2, OverType DEF QuestionsCut
<1> QED  BY <1>1, <1>2, <1>3, <1>4, <1>5, <1>6, <1>7

LEMMA AnswersType ==
  ASSUME TypeOK,
         \/ \E force \in BOOLEAN : StartAnswers(force)
         \/ AnswersEnd
         \/ \E id \in Ids : Ask(id) \/ Finish(id) \/ Join(id) \/ JoinFatal(id) \/ AnswersCut(id)
  PROVE  TypeOK'
<1> USE DEF TypeOK, files, filling, history
<1>0. "answers" \in Files /\ CutTails = {"ended", "torn", "unended"}
  BY DEF Files, CutTails
<1>1. ASSUME NEW force \in BOOLEAN, StartAnswers(force)  PROVE TypeOK'
  BY <1>0, <1>1, EmptyType DEF StartAnswers, EndLastLine
<1>2. CASE AnswersEnd
  BY <1>2, OverType DEF AnswersEnd
<1>3. ASSUME NEW id \in Ids, Ask(id) \/ Finish(id) \/ JoinFatal(id)  PROVE TypeOK'
  BY <1>3 DEF Ask, Finish, JoinFatal, Aborted
<1>4. ASSUME NEW id \in Ids, Join(id)  PROVE TypeOK'
  <2>1. answers' \in [Ids -> Nat] /\ broken' \in SUBSET Files
    BY <1>0, <1>4, ContentsType DEF Join, BrokenBy
  <2> QED  BY <1>4, <2>1 DEF Join
<1>5. ASSUME NEW id \in Ids, AnswersCut(id)  PROVE TypeOK'
  <2>1. answers' \in [Ids -> Nat] /\ broken' \in SUBSET Files /\ tail' \in [Files -> CutTails]
    BY <1>0, <1>5, ContentsType DEF AnswersCut, BrokenBy
  <2>2. stops' \in 0..MaxStops
    BY <1>5, DatasetAssumption DEF AnswersCut
  <2> QED  BY <1>5, <2>1, <2>2, OverType DEF AnswersCut
<1> QED  BY <1>1, <1>2, <1>3, <1>4, <1>5

LEMMA TypeStep == TypeOK /\ [Next]_vars => TypeOK'
<1> SUFFICES ASSUME TypeOK, [Next]_vars  PROVE TypeOK'
  OBVIOUS
<1>1. CASE StageStops
  BY <1>1, OverType DEF TypeOK, StageStops, files
<1>2. CASE UNCHANGED vars
  BY <1>2 DEF TypeOK, vars, files, filling, history
<1> QED  BY <1>1, <1>2, EditType, SaveType, SubtopicsType, QuestionsType, AnswersType
         DEF Next, Start, Work, Fault

LEMMA TypeInit == Init => TypeOK
<1>1. 0 \in 0..MaxEdits /\ 0 \in 0..MaxStops
  BY DatasetAssumption
<1>2. [f \in Files |-> "ended"] \in [Files -> CutTails]
  BY DEF CutTails
<1> QED  BY <1>1, <1>2, EmptyType, NoPlanType DEF Init, TypeOK

\* What the files hold and what the stages keep in memory have their types.
THEOREM TypeCorrect == Spec => []TypeOK
BY TypeInit, TypeStep, PTL DEF Spec

------------------------------------------------------------------------------
(* What a stage finds, and what it keeps in memory *)

\* A stage appends to a file it has ended.
TailInv ==
  /\ broken = {}
  /\ stage = "subtopics" => tail["subtopics"] = "ended"
  /\ stage = "questions" => tail["questions"] = "ended"
  /\ stage \in {"answers", "stopping"} => tail["answers"] = "ended"

\* Fills and requests are those of the stage running, and the fill with the
\* embedding request is the one that holds the deduplicator.
StageInv ==
  /\ stage # "questions" => \A n \in Names : fills[n] = NoFill
  /\ \A n \in Names : fills[n].pc = "embedding" <=> lock = n
  /\ stage \notin {"answers", "stopping"} => \A id \in Ids : asks[id] = "none"

LEMMA OverInv ==
  ASSUME StageOver
  PROVE  StageInv'
BY DatasetAssumption DEF StageOver, StageInv, NoFill, Fill

LEMMA EditBegins ==
  ASSUME Edit
  PROVE  \E new : Begin(new)
<1>1. ASSUME NEW n \in Names, NEW t \in Texts, NEW u \in Texts, EditQuestion(n, t, u)
      PROVE  \E new : Begin(new)
  BY <1>1 DEF EditQuestion
<1>2. ASSUME NEW n \in Names, NEW m \in Names, RenameSubtopic(n, m)
      PROVE  \E new : Begin(new)
  BY <1>2 DEF RenameSubtopic
<1>3. ASSUME NEW names, NEW ids, NEW others, NEW record, Delete(names, ids, others, record)
      PROVE  \E new : Begin(new)
  BY <1>3 DEF Delete
<1> QED  BY <1>1, <1>2, <1>3
         DEF Edit, EditAnswer, DeleteQuestion, DeleteAnswer, DeleteSubtopic, DeleteMissing

\* What an edit leaves as it was when it begins.
LEMMA EditKeeps ==
  ASSUME Edit
  PROVE  /\ stage = "idle" /\ stage' = "saving"
         /\ UNCHANGED <<files, filling, asks, gone, loose, stops>>
BY EditBegins DEF Begin

LEMMA TailStep == TypeOK /\ TailInv /\ [Next]_vars => TailInv'
<1> SUFFICES ASSUME TypeOK, TailInv, [Next]_vars  PROVE TailInv'
  OBVIOUS
<1> USE DEF TailInv
<1>0. {"subtopics", "questions", "answers", "rejected"} \subseteq Files /\ tail \in [Files -> CutTails]
  BY DEF Files, TypeOK
<1>1. CASE Edit
  BY <1>1, EditKeeps DEF files
<1>2. CASE SaveNext
  <2>1. broken' = {} /\ stage' \in {"saving", "idle"}
    BY <1>2 DEF SaveNext, AppendRejected, RenameOver
  <2> QED  BY <2>1
<1>3. CASE SaveStops
  BY <1>3 DEF SaveStops
<1>4. ASSUME NEW force \in BOOLEAN, StartSubtopics(force)  PROVE TailInv'
  BY <1>0, <1>4 DEF StartSubtopics, EndLastLine
<1>5. CASE AppendSubtopics \/ SubtopicsCut
  BY <1>5 DEF AppendSubtopics, SubtopicsCut, StageOver, BrokenBy
<1>6. ASSUME NEW force \in BOOLEAN, StartQuestions(force)  PROVE TailInv'
  BY <1>6 DEF StartQuestions
<1>7. CASE Seed
  BY <1>0, <1>7 DEF Seed, EndLastLine
<1>8. ASSUME NEW n \in Names, FillStarts(n) \/ Reply(n) \/ TakeDedup(n) \/ FillFails(n)
      PROVE  TailInv'
  BY <1>8 DEF FillStarts, Reply, TakeDedup, FillFails, files
<1>9. ASSUME NEW n \in Names, Admit(n) \/ QuestionsCut(n)  PROVE TailInv'
  BY <1>9 DEF Admit, QuestionsCut, BrokenBy, StageOver
<1>10. ASSUME NEW force \in BOOLEAN, StartAnswers(force)  PROVE TailInv'
  BY <1>0, <1>10 DEF StartAnswers, EndLastLine
<1>11. ASSUME NEW id \in Ids, Ask(id) \/ Finish(id) \/ JoinFatal(id)  PROVE TailInv'
  BY <1>11 DEF Ask, Finish, JoinFatal, files
<1>12. ASSUME NEW id \in Ids, Join(id) \/ AnswersCut(id)  PROVE TailInv'
  BY <1>12 DEF Join, AnswersCut, BrokenBy, StageOver
<1>13. CASE QuestionsEnd \/ AnswersEnd \/ StageStops
  BY <1>13 DEF QuestionsEnd, AnswersEnd, StageStops, StageOver, files
<1>14. CASE UNCHANGED vars
  BY <1>14 DEF vars, files
<1> QED  BY <1>1, <1>2, <1>3, <1>4, <1>5, <1>6, <1>7, <1>8, <1>9, <1>10, <1>11, <1>12, <1>13, <1>14
         DEF Next, Start, Work, Fault

LEMMA StageStep == TypeOK /\ StageInv /\ [Next]_vars => StageInv'
<1> SUFFICES ASSUME TypeOK, StageInv, [Next]_vars  PROVE StageInv'
  OBVIOUS
<1> USE DEF StageInv
<1>0. fills \in [Names -> FillType] /\ asks \in [Ids -> {"none", "queued", "asking", "finished", "fatal"}]
  BY DEF TypeOK
<1>1. CASE Edit
  BY <1>1, EditKeeps DEF filling
<1>2. CASE SaveNext \/ SaveStops
  BY <1>2 DEF SaveNext, SaveStops, filling
<1>3. CASE AppendSubtopics \/ SubtopicsCut \/ QuestionsEnd \/ AnswersEnd \/ StageStops
           \/ (\E n \in Names : QuestionsCut(n)) \/ (\E id \in Ids : AnswersCut(id))
  BY <1>3, OverInv DEF AppendSubtopics, SubtopicsCut, QuestionsEnd, AnswersEnd, StageStops,
                       QuestionsCut, AnswersCut
<1>4. ASSUME NEW force \in BOOLEAN, StartSubtopics(force) \/ StartQuestions(force) \/ StartAnswers(force)
      PROVE  StageInv'
  BY <1>4 DEF StartSubtopics, StartQuestions, StartAnswers, filling
<1>5. CASE Seed
  <2>1. \A n \in Names : fills'[n].pc \in {"off", "waiting"}
    BY <1>5 DEF Seed, NoFill, Fill
  <2>2. \A n \in Names : lock # n
    BY <1>5 DEF Seed, NoFill, Fill
  <2> QED  BY <1>5, <2>1, <2>2 DEF Seed
<1>6. ASSUME NEW n \in Names, FillStarts(n) \/ Reply(n) \/ TakeDedup(n)  PROVE StageInv'
  BY <1>0, <1>6, DatasetAssumption DEF FillStarts, Reply, TakeDedup, FillType
<1>7. ASSUME NEW n \in Names, FillFails(n) \/ Admit(n)  PROVE StageInv'
  <2>1. /\ stage = "questions" /\ UNCHANGED <<stage, asks>>
        /\ \A m \in Names : m # n => fills'[m] = fills[m]
    BY <1>0, <1>7 DEF FillFails, Admit
  <2>2. fills'[n].pc # "embedding"
    <3>1. \A kept : Filled(n, kept).pc \in {"asking", "done"}
      BY DEF Filled
    <3>2. Fill("done", 0).pc = "done"
      BY DEF Fill
    <3> QED  BY <1>0, <1>7, <3>1, <3>2 DEF FillFails, Admit
  <2>3. lock' # n /\ \A m \in Names : m # n => (lock' = m <=> lock = m)
    BY <1>7, DatasetAssumption DEF FillFails, Released, Admit
  <2> QED  BY <2>1, <2>2, <2>3
<1>8. ASSUME NEW id \in Ids, Ask(id) \/ Finish(id) \/ JoinFatal(id) \/ Join(id)  PROVE StageInv'
  BY <1>8 DEF Ask, Finish, JoinFatal, Join, filling
<1>9. CASE UNCHANGED vars
  BY <1>9 DEF vars, filling
<1> QED  BY <1>1, <1>2, <1>3, <1>4, <1>5, <1>6, <1>7, <1>8, <1>9 DEF Next, Start, Work, Fault

LEMMA StageInit == Init => TailInv /\ StageInv
BY DatasetAssumption DEF Init, TailInv, StageInv, NoFill, Fill, Files

\* No cut leaves a line that the next append would run into.
THEOREM FilesStayReadable == Spec => []NeverUnreadable
<1>1. TypeOK /\ TailInv /\ [Next]_vars => TailInv'
  BY TailStep
<1>2. TailInv => NeverUnreadable
  BY DEF TailInv, NeverUnreadable
<1> QED  BY <1>1, <1>2, StageInit, TypeCorrect, PTL DEF Spec

------------------------------------------------------------------------------
(* What an edit plans *)

Written(f, todo) == \E i \in 1..Len(todo) : todo[i] = f

\* No two records share an ID in what the plan writes.
PlanUnique ==
  /\ \A n \in Names : plan.subtopics[n] <= 1
  /\ \A id \in Ids : plan.questions[id] <= 1 /\ plan.answers[id] <= 1

\* What the user deleted is in rejected.jsonl.
RecordsNow ==
  /\ gone.names \subseteq rejected.names
  /\ gone.texts \subseteq TextsOf(rejected.ids)

\* So it is in what the plan writes, and it gets there before it is gone.
PlanRecords ==
  /\ gone.names \cup plan.gone.names \subseteq plan.rejected.names
  /\ gone.texts \cup plan.gone.texts \subseteq TextsOf(plan.rejected.ids)
  /\ \/ Head(plan.todo) = "append"
     \/ /\ plan.gone.names \subseteq rejected.names
        /\ plan.gone.texts \subseteq TextsOf(rejected.ids)

\* Every question has its subtopic, every answer its question.
WholeNow ==
  /\ \A id \in Stored(questions) : subtopics[id[1]] > 0
  /\ Stored(answers) \subseteq Stored(questions)

\* So they have in what the plan writes, and what it does not write is the same.
PlanWhole ==
  /\ \A id \in Stored(plan.questions) : plan.subtopics[id[1]] > 0
  /\ Stored(plan.answers) \subseteq Stored(plan.questions)
  /\ Written("subtopics", plan.todo) \/ plan.subtopics = subtopics
  /\ Written("questions", plan.todo) \/ plan.questions = questions
  /\ Written("answers", plan.todo) \/ plan.answers = answers

GoodPlan == PlanUnique /\ PlanRecords /\ (WholeNow => PlanWhole)

LEMMA BeginFields ==
  ASSUME NEW todo, NEW subs, NEW quests, NEW answs, NEW rejects, NEW lost,
         Begin(Plan(todo, subs, quests, answs, rejects, lost))
  PROVE  /\ plan'.todo = todo /\ plan'.begun = FALSE
         /\ plan'.subtopics = subs /\ plan'.questions = quests /\ plan'.answers = answs
         /\ plan'.rejected = rejects /\ plan'.gone = lost
         /\ UNCHANGED <<subtopics, questions, answers, rejected, gone>>
BY DEF Begin, Plan, files

LEMMA WrittenConcat ==
  ASSUME NEW a \in Seq(Writes), NEW b \in Seq(Writes), NEW f,
         Written(f, a) \/ Written(f, b)
  PROVE  Written(f, a \o b)
<1>1. CASE Written(f, a)
  <2>1. PICK i \in 1..Len(a) : a[i] = f
    BY <1>1 DEF Written
  <2>2. i \in 1..Len(a \o b) /\ (a \o b)[i] = f
    BY <2>1
  <2> QED  BY <2>2 DEF Written
<1>2. CASE Written(f, b)
  <2>1. PICK i \in 1..Len(b) : b[i] = f
    BY <1>2 DEF Written
  <2>2. i + Len(a) \in 1..Len(a \o b) /\ (a \o b)[i + Len(a)] = f
    BY <2>1
  <2> QED  BY <2>2 DEF Written
<1> QED  BY <1>1, <1>2

LEMMA WrittenWhen ==
  ASSUME NEW f \in Writes, NEW c, c
  PROVE  Written(f, When(c, f)) /\ Written(f, <<f>>)
BY DEF When, Written

LEMMA StoredIs ==
  ASSUME NEW D, NEW f \in [D -> Nat]
  PROVE  \A x : x \in Stored(f) <=> x \in D /\ f[x] > 0
BY DEF Stored

LEMMA StoredWithout ==
  ASSUME NEW D, NEW f \in [D -> Nat], NEW S
  PROVE  /\ \A x : x \in Stored(Without(f, S)) <=> x \in Stored(f) /\ x \notin S
         /\ Stored(f) \cap S = {} => Without(f, S) = f
BY DEF Stored, Without

LEMMA EditQuestionPlan ==
  ASSUME TypeOK, UniqueIds, RecordsNow,
         NEW n \in Names, NEW t \in Texts, NEW u \in Texts, EditQuestion(n, t, u)
  PROVE  GoodPlan'
<1> DEFINE id == <<n, t>>
           to == <<n, u>>
           todo == <<"questions">> \o When(answers[id] > 0, "answers")
           quests == [questions EXCEPT ![id] = @ - 1, ![to] = @ + 1]
           answs == IF to = id THEN answers ELSE Without(answers, {id})
<1>1. id \in Ids /\ to \in Ids
  BY DEF Ids
<1>2. /\ questions[id] > 0
      /\ to = id \/ questions[to] = 0
      /\ Begin(Plan(todo, subtopics, quests, answs, rejected, Nothing))
  BY DEF EditQuestion
<1>3. /\ plan'.todo = todo /\ plan'.subtopics = subtopics /\ plan'.questions = quests
      /\ plan'.answers = answs /\ plan'.rejected = rejected /\ plan'.gone = Nothing
      /\ UNCHANGED <<subtopics, questions, answers, rejected, gone>>
  BY <1>2, BeginFields
<1>4. questions \in [Ids -> Nat] /\ answers \in [Ids -> Nat] /\ subtopics \in [Names -> Nat]
  BY DEF TypeOK
<1>5. /\ quests \in [Ids -> Nat]
      /\ \A x \in Ids : x # id /\ x # to => quests[x] = questions[x]
      /\ to # id => quests[id] = questions[id] - 1 /\ quests[to] = questions[to] + 1
      /\ to = id => quests = questions
  BY <1>1, <1>2, <1>4
<1>6. answs \in [Ids -> Nat] /\ \A x \in Ids : answs[x] <= 1
  BY <1>4 DEF Without, UniqueIds
<1>7. PlanUnique'
  <2>1. \A x \in Ids : quests[x] <= 1
    BY <1>1, <1>2, <1>4, <1>5 DEF UniqueIds
  <2> HIDE DEF quests, answs
  <2> QED  BY <1>3, <1>6, <2>1 DEF PlanUnique, UniqueIds
<1>8. PlanRecords'
  BY <1>3 DEF PlanRecords, RecordsNow, Nothing
<1>9. ASSUME WholeNow  PROVE PlanWhole'
  <2> HIDE DEF quests
  <2>z. /\ \A x : x \in Stored(questions) <=> x \in Ids /\ questions[x] > 0
        /\ \A x : x \in Stored(quests) <=> x \in Ids /\ quests[x] > 0
    BY <1>4, <1>5, StoredIs
  <2>y. \A x : x \in Stored(Without(answers, {id})) <=> x \in Stored(answers) /\ x # id
    BY <1>4, StoredWithout
  <2>1. \A x \in Stored(quests) : x \in Ids /\ subtopics[x[1]] > 0
    <3>1. TAKE x \in Stored(quests)
    <3>2. x \in Ids /\ (x \in Stored(questions) \/ x = to)
      BY <1>4, <1>5, <2>z
    <3>3. id \in Stored(questions)
      BY <1>1, <1>2, <2>z
    <3> QED  BY <1>9, <3>2, <3>3 DEF WholeNow
  <2>2. Stored(answs) \subseteq Stored(quests)
    <3>1. CASE to = id
      BY <1>5, <1>9, <3>1 DEF WholeNow
    <3>2. CASE to # id
      <4> SUFFICES ASSUME NEW x \in Stored(answs)  PROVE x \in Stored(quests)
        OBVIOUS
      <4>1. x \in Stored(answers) /\ x # id
        BY <2>y, <3>2
      <4>2. x \in Ids /\ questions[x] > 0
        BY <1>9, <2>z, <4>1 DEF WholeNow
      <4> HIDE DEF id, to
      <4>3. quests[x] > 0
        BY <1>1, <1>4, <1>5, <3>2, <4>1, <4>2
      <4> QED  BY <2>z, <4>2, <4>3
    <3> QED  BY <3>1, <3>2
  <2>a. "questions" \in Writes /\ "answers" \in Writes
    BY DEF Writes, Files
  <2>b. When(TRUE, "questions") = <<"questions">>
    BY DEF When
  <2>3. Written("questions", todo)
    BY <2>a, <2>b, WrittenConcat, WrittenWhen, WhenType
  <2>4. Written("answers", todo) \/ answs = answers
    <3>1. CASE answers[id] > 0
      BY <2>a, <2>b, <3>1, WrittenConcat, WrittenWhen, WhenType
    <3>2. CASE ~(answers[id] > 0)
      BY <1>1, <1>4, <3>2, StoredIs, StoredWithout
    <3> QED  BY <3>1, <3>2
  <2> QED  BY <1>3, <2>1, <2>2, <2>3, <2>4 DEF PlanWhole
<1> QED  BY <1>3, <1>7, <1>8, <1>9 DEF GoodPlan, WholeNow

LEMMA EditAnswerPlan ==
  ASSUME TypeOK, UniqueIds, RecordsNow, NEW id \in Ids, EditAnswer(id)
  PROVE  GoodPlan'
<1> DEFINE todo == <<"answers">>
<1>1. Begin(Plan(todo, subtopics, questions, answers, rejected, Nothing))
  BY DEF EditAnswer
<1> HIDE DEF todo
<1>2. /\ plan'.subtopics = subtopics /\ plan'.questions = questions /\ plan'.answers = answers
      /\ plan'.rejected = rejected /\ plan'.gone = Nothing
      /\ UNCHANGED <<subtopics, questions, answers, rejected, gone>>
  BY <1>1, BeginFields
<1> QED  BY <1>2 DEF GoodPlan, PlanUnique, UniqueIds, PlanRecords, RecordsNow, Nothing, PlanWhole, WholeNow

\* What a rename moves: nothing is left behind, and nothing is moved onto another.
LEMMA RekeyedIs ==
  ASSUME NEW f \in [Ids -> Nat], NEW keys \in SUBSET Ids, NEW n \in Names, NEW m \in Names, m # n,
         \A id \in keys : id[1] = n
  PROVE  \A id \in Ids :
           /\ id \in keys => Rekeyed(f, keys, n, m)[id] = 0
           /\ id[1] = m /\ <<n, id[2]>> \in keys =>
                Rekeyed(f, keys, n, m)[id] = f[id] + f[<<n, id[2]>>]
           /\ id \notin keys /\ ~(id[1] = m /\ <<n, id[2]>> \in keys) =>
                Rekeyed(f, keys, n, m)[id] = f[id]
BY DEF Rekeyed

LEMMA RenamedTexts ==
  ASSUME TypeOK, NEW n \in Names, NEW m \in Names
  PROVE  LET recorded == {id \in rejected.ids : id[1] = n}
         IN /\ Renamed(recorded, m).names = rejected.names
            /\ TextsOf(rejected.ids) \subseteq TextsOf(Renamed(recorded, m).ids)
<1> DEFINE recorded == {id \in rejected.ids : id[1] = n}
<1>1. /\ Renamed(recorded, m).names = rejected.names
      /\ Renamed(recorded, m).ids = (rejected.ids \ recorded) \cup {<<m, id[2]>> : id \in recorded}
  BY DEF Renamed, TypeOK, NamesAndIds
<1>2. ASSUME NEW id \in rejected.ids  PROVE id[2] \in TextsOf(Renamed(recorded, m).ids)
  <2>1. CASE id \in recorded
    <3>1. <<m, id[2]>> \in Renamed(recorded, m).ids /\ <<m, id[2]>>[2] = id[2]
      BY <1>1, <2>1
    <3> QED  BY <3>1 DEF TextsOf
  <2>2. CASE id \notin recorded
    BY <1>1, <1>2, <2>2 DEF TextsOf
  <2> QED  BY <2>1, <2>2
<1> QED  BY <1>1, <1>2 DEF TextsOf

LEMMA RenamePlan ==
  ASSUME TypeOK, UniqueIds, RecordsNow, NEW n \in Names, NEW m \in Names, RenameSubtopic(n, m)
  PROVE  GoodPlan'
<1> DEFINE keys == {id \in Stored(questions) : id[1] = n}
           recorded == {id \in rejected.ids : id[1] = n}
           all == <<"subtopics", "questions", "answers">>
           todo == When(recorded # {}, "rejected") \o all
           subs == [subtopics EXCEPT ![n] = @ - 1, ![m] = @ + 1]
           quests == Rekeyed(questions, keys, n, m)
           answs == Rekeyed(answers, keys, n, m)
<1>1. CASE m = n
  <2>1. Begin(Plan(all, subtopics, questions, answers, rejected, Nothing))
    BY <1>1 DEF RenameSubtopic
  <2> HIDE DEF all
  <2>2. /\ plan'.subtopics = subtopics /\ plan'.questions = questions /\ plan'.answers = answers
        /\ plan'.rejected = rejected /\ plan'.gone = Nothing
        /\ UNCHANGED <<subtopics, questions, answers, rejected, gone>>
    BY <2>1, BeginFields
  <2> QED  BY <2>2 DEF GoodPlan, PlanUnique, UniqueIds, PlanRecords, RecordsNow, Nothing, PlanWhole, WholeNow
<1>2. CASE m # n
  <2>1. /\ subtopics[n] > 0 /\ subtopics[m] = 0 /\ Taken(n, m) = {}
        /\ Begin(Plan(todo, subs, quests, answs, Renamed(recorded, m), Nothing))
    BY <1>2 DEF RenameSubtopic
  <2> HIDE DEF todo, subs, quests, answs
  <2>2. /\ plan'.todo = todo /\ plan'.subtopics = subs /\ plan'.questions = quests
        /\ plan'.answers = answs /\ plan'.rejected = Renamed(recorded, m) /\ plan'.gone = Nothing
        /\ UNCHANGED <<subtopics, questions, answers, rejected, gone>>
    BY <2>1, BeginFields
  <2>3. /\ questions \in [Ids -> Nat] /\ answers \in [Ids -> Nat] /\ subtopics \in [Names -> Nat]
        /\ \A x : x \in Stored(questions) <=> x \in Ids /\ questions[x] > 0
        /\ \A x : x \in Stored(answers) <=> x \in Ids /\ answers[x] > 0
    BY StoredIs DEF TypeOK
  <2>4. keys \in SUBSET Ids /\ (\A id \in keys : id[1] = n) /\ (\A id \in Ids : <<n, id[2]>> \in Ids)
    BY <2>3 DEF Ids
  <2>5. \A id \in Ids : id[1] = m /\ <<n, id[2]>> \in keys => questions[id] = 0 /\ answers[id] = 0
    <3> SUFFICES ASSUME NEW id \in Ids, id[1] = m, <<n, id[2]>> \in keys
                 PROVE  questions[id] = 0 /\ answers[id] = 0
      OBVIOUS
    <3>1. id = <<m, id[2]>> /\ id[2] \in Texts
      BY DEF Ids
    <3>2. questions[<<n, id[2]>>] > 0
      BY <2>3
    <3>3. ~(questions[<<m, id[2]>>] > 0 \/ answers[<<m, id[2]>>] > 0)
      BY <2>1, <3>1, <3>2 DEF Taken
    <3> QED  BY <2>3, <3>1, <3>3
  <2>6. /\ quests \in [Ids -> Nat] /\ answs \in [Ids -> Nat] /\ subs \in [Names -> Nat]
        /\ \A x : x \in Stored(quests) <=> x \in Ids /\ quests[x] > 0
        /\ \A x : x \in Stored(answs) <=> x \in Ids /\ answs[x] > 0
    <3>1. quests \in [Ids -> Nat] /\ answs \in [Ids -> Nat] /\ subs \in [Names -> Nat]
      <4>1. subs \in [Names -> Nat]
        BY <2>1, <2>3 DEF subs
      <4> HIDE DEF keys
      <4>2. quests \in [Ids -> Nat] /\ answs \in [Ids -> Nat]
        BY <2>3, <2>4, RekeyedType DEF quests, answs
      <4> QED  BY <4>1, <4>2
    <3> QED  BY <3>1, StoredIs
  <2>7. \A id \in Ids :
          /\ id \in keys => quests[id] = 0 /\ answs[id] = 0
          /\ id[1] = m /\ <<n, id[2]>> \in keys =>
               /\ quests[id] = questions[<<n, id[2]>>]
               /\ answs[id] = answers[<<n, id[2]>>]
          /\ id \notin keys /\ ~(id[1] = m /\ <<n, id[2]>> \in keys) =>
               quests[id] = questions[id] /\ answs[id] = answers[id]
    <3> SUFFICES ASSUME NEW id \in Ids
                 PROVE  /\ id \in keys => quests[id] = 0 /\ answs[id] = 0
                        /\ id[1] = m /\ <<n, id[2]>> \in keys =>
                             /\ quests[id] = questions[<<n, id[2]>>]
                             /\ answs[id] = answers[<<n, id[2]>>]
                        /\ id \notin keys /\ ~(id[1] = m /\ <<n, id[2]>> \in keys) =>
                             quests[id] = questions[id] /\ answs[id] = answers[id]
      OBVIOUS
    <3> HIDE DEF keys
    <3>1. /\ id \in keys => quests[id] = 0
          /\ id[1] = m /\ <<n, id[2]>> \in keys => quests[id] = questions[id] + questions[<<n, id[2]>>]
          /\ id \notin keys /\ ~(id[1] = m /\ <<n, id[2]>> \in keys) => quests[id] = questions[id]
      BY <1>2, <2>3, <2>4, RekeyedIs DEF quests
    <3>2. /\ id \in keys => answs[id] = 0
          /\ id[1] = m /\ <<n, id[2]>> \in keys => answs[id] = answers[id] + answers[<<n, id[2]>>]
          /\ id \notin keys /\ ~(id[1] = m /\ <<n, id[2]>> \in keys) => answs[id] = answers[id]
      BY <1>2, <2>3, <2>4, RekeyedIs DEF answs
    <3>3. questions[<<n, id[2]>>] \in Nat /\ answers[<<n, id[2]>>] \in Nat
      BY <2>3, <2>4
    <3> QED  BY <2>5, <3>1, <3>2, <3>3
  <2>8. subs[n] = subtopics[n] - 1 /\ subs[m] = 1 /\ \A x \in Names : x # n /\ x # m => subs[x] = subtopics[x]
    BY <1>2, <2>1, <2>3 DEF subs
  <2>9. PlanUnique'
    <3>1. \A x \in Names : subs[x] <= 1
      BY <2>3, <2>8 DEF UniqueIds
    <3>2. \A x \in Ids : quests[x] <= 1 /\ answs[x] <= 1
      <4> HIDE DEF keys
      <4> SUFFICES ASSUME NEW x \in Ids  PROVE quests[x] <= 1 /\ answs[x] <= 1
        OBVIOUS
      <4>1. <<n, x[2]>> \in Ids
        BY <2>4
      <4>2. /\ questions[x] <= 1 /\ answers[x] <= 1
            /\ questions[<<n, x[2]>>] <= 1 /\ answers[<<n, x[2]>>] <= 1
        BY <4>1 DEF UniqueIds
      <4> QED  BY <2>7, <4>2
    <3> QED  BY <2>2, <3>1, <3>2 DEF PlanUnique
  <2>10. PlanRecords'
    BY <2>2, RenamedTexts DEF PlanRecords, RecordsNow, Nothing
  <2>11. ASSUME WholeNow  PROVE PlanWhole'
    <3>1. \A x \in Stored(quests) : subs[x[1]] > 0
      <4> SUFFICES ASSUME NEW x \in Stored(quests)  PROVE subs[x[1]] > 0
        OBVIOUS
      <4>1. x \in Ids /\ quests[x] > 0 /\ x \notin keys /\ x[1] \in Names
        BY <2>6, <2>7 DEF Ids
      <4>2. CASE x[1] = m
        BY <2>8, <4>2
      <4>3. CASE x[1] # m
        <5>1. x \in Stored(questions)
          BY <2>3, <2>7, <4>1, <4>3
        <5>2. subtopics[x[1]] > 0 /\ x[1] # n
          BY <2>11, <4>1, <5>1 DEF WholeNow
        <5> QED  BY <2>3, <2>8, <4>1, <4>3, <5>2
      <4> QED  BY <4>2, <4>3
    <3>2. Stored(answs) \subseteq Stored(quests)
      <4> SUFFICES ASSUME NEW x \in Stored(answs)  PROVE x \in Stored(quests)
        OBVIOUS
      <4>1. x \in Ids /\ answs[x] > 0 /\ x \notin keys
        <5>1. x \in Ids /\ answs[x] > 0
          BY <2>6
        <5> HIDE DEF keys
        <5>2. x \in keys => answs[x] = 0
          BY <2>7, <5>1
        <5> QED  BY <5>1, <5>2
      <4>2. CASE x[1] = m /\ <<n, x[2]>> \in keys
        <5>1. quests[x] > 0
          BY <2>3, <2>4, <2>7, <4>1, <4>2
        <5> QED  BY <2>6, <4>1, <5>1
      <4>3. CASE ~(x[1] = m /\ <<n, x[2]>> \in keys)
        <5>1. x \in Stored(answers)
          BY <2>3, <2>7, <4>1, <4>3
        <5>2. questions[x] > 0
          BY <2>11, <2>3, <5>1 DEF WholeNow
        <5> QED  BY <2>6, <2>7, <4>1, <4>3, <5>2
      <4> QED  BY <4>2, <4>3
    <3>3. Written("subtopics", todo) /\ Written("questions", todo) /\ Written("answers", todo)
      <4>1. all \in Seq(Writes) /\ When(recorded # {}, "rejected") \in Seq(Writes)
        BY WhenType DEF Writes, Files
      <4>2. Written("subtopics", all) /\ Written("questions", all) /\ Written("answers", all)
        <5>1. Len(all) = 3 /\ all[1] = "subtopics" /\ all[2] = "questions" /\ all[3] = "answers"
          OBVIOUS
        <5> HIDE DEF all
        <5>2. 1 \in 1..Len(all) /\ 2 \in 1..Len(all) /\ 3 \in 1..Len(all)
          BY <5>1
        <5>3. /\ \E i \in 1..Len(all) : all[i] = "subtopics"
              /\ \E i \in 1..Len(all) : all[i] = "questions"
              /\ \E i \in 1..Len(all) : all[i] = "answers"
          BY <5>1, <5>2, Zenon
        <5> QED  BY <5>3 DEF Written
      <4> QED  BY <4>1, <4>2, WrittenConcat DEF todo
    <3> QED  BY <2>2, <3>1, <3>2, <3>3 DEF PlanWhole
  <2> QED  BY <2>2, <2>9, <2>10, <2>11 DEF GoodPlan, WholeNow
<1> QED  BY <1>1, <1>2

LEMMA HeadConcat ==
  ASSUME NEW a \in Seq(Writes), NEW b \in Seq(Writes), a # <<>>
  PROVE  a \o b \in Seq(Writes) /\ a \o b # <<>> /\ Head(a \o b) = Head(a)
OBVIOUS

LEMMA DeletionWritten ==
  ASSUME NEW names, NEW ids, NEW doomed, NEW record \in BOOLEAN
  PROVE  /\ record => Head(DeletionWrites(names, ids, doomed, record)) = "append"
         /\ names # {} => Written("subtopics", DeletionWrites(names, ids, doomed, record))
         /\ ids # {} => Written("questions", DeletionWrites(names, ids, doomed, record))
         /\ doomed # {} => Written("answers", DeletionWrites(names, ids, doomed, record))
<1> DEFINE w1 == When(record, "append")
           w2 == When(names # {}, "subtopics")
           w3 == When(ids # {}, "questions")
           w4 == When(doomed # {}, "answers")
<1>1. w1 \in Seq(Writes) /\ w2 \in Seq(Writes) /\ w3 \in Seq(Writes) /\ w4 \in Seq(Writes)
  BY WhenType DEF Writes, Files
<1>2. /\ names # {} => Written("subtopics", w2)
      /\ ids # {} => Written("questions", w3)
      /\ doomed # {} => Written("answers", w4)
  BY WrittenWhen DEF Writes, Files
<1>3. DeletionWrites(names, ids, doomed, record) = ((w1 \o w2) \o w3) \o w4
  BY DEF DeletionWrites
<1> HIDE DEF w2, w3, w4
<1>4. record => Head(((w1 \o w2) \o w3) \o w4) = "append"
  <2>1. CASE record
    <3>1. w1 # <<>> /\ Head(w1) = "append"
      BY <2>1 DEF When
    <3> HIDE DEF w1
    <3>2. w1 \o w2 \in Seq(Writes) /\ w1 \o w2 # <<>> /\ Head(w1 \o w2) = "append"
      BY <1>1, <3>1, HeadConcat
    <3>3. /\ (w1 \o w2) \o w3 \in Seq(Writes) /\ (w1 \o w2) \o w3 # <<>>
          /\ Head((w1 \o w2) \o w3) = "append"
      BY <1>1, <3>2, HeadConcat
    <3> QED  BY <1>1, <3>3, HeadConcat
  <2> QED  BY <2>1
<1> HIDE DEF w1
<1>5. w1 \o w2 \in Seq(Writes) /\ (w1 \o w2) \o w3 \in Seq(Writes)
  BY <1>1
<1> QED  BY <1>1, <1>2, <1>3, <1>4, <1>5, WrittenConcat

LEMMA DeletePlan ==
  ASSUME TypeOK, UniqueIds, RecordsNow, NEW names \in SUBSET Names, NEW ids \in SUBSET Ids,
         NEW others \in SUBSET Ids, NEW record \in BOOLEAN, Delete(names, ids, others, record),
         \A id \in Stored(questions) : id[1] \in names => id \in ids
  PROVE  GoodPlan'
<1> DEFINE doomed == Stored(answers) \cap (ids \cup others)
           named == [names |-> names, texts |-> IF names = {} THEN TextsOf(ids) ELSE {}]
           todo == DeletionWrites(names, ids, doomed, record)
           subs == Without(subtopics, names)
           quests == Without(questions, ids)
           answs == Without(answers, doomed)
           rejects == IF record THEN Recorded(names, ids) ELSE rejected
           lost == IF record THEN named ELSE Nothing
<1>1. Begin(Plan(todo, subs, quests, answs, rejects, lost))
  BY DEF Delete
<1> HIDE DEF todo, subs, quests, answs, rejects, lost
<1>2. /\ plan'.todo = todo /\ plan'.subtopics = subs /\ plan'.questions = quests
      /\ plan'.answers = answs /\ plan'.rejected = rejects /\ plan'.gone = lost
      /\ UNCHANGED <<subtopics, questions, answers, rejected, gone>>
  BY <1>1, BeginFields
<1>3. questions \in [Ids -> Nat] /\ answers \in [Ids -> Nat] /\ subtopics \in [Names -> Nat]
  BY DEF TypeOK
<1>4. PlanUnique'
  <2>1. \A x \in Names : subs[x] <= 1
    BY <1>3 DEF subs, Without, UniqueIds
  <2>2. \A x \in Ids : quests[x] <= 1 /\ answs[x] <= 1
    BY <1>3 DEF quests, answs, Without, UniqueIds
  <2> QED  BY <1>2, <2>1, <2>2 DEF PlanUnique
<1>5. PlanRecords'
  <2>1. CASE record
    <3>1. Head(todo) = "append"
      BY <2>1, DeletionWritten DEF todo
    <3>2. lost = named /\ rejects = Recorded(names, ids)
      BY <2>1 DEF lost, rejects
    <3>3. /\ rejected.names \cup named.names \subseteq rejects.names
          /\ TextsOf(rejected.ids) \cup named.texts \subseteq TextsOf(rejects.ids)
      <4>1. rejected \in NamesAndIds
        BY DEF TypeOK
      <4>2. CASE names = {}
        <5>1. rejects.names = rejected.names /\ rejects.ids = rejected.ids \cup ids
          BY <3>2, <4>1, <4>2 DEF Recorded, NamesAndIds
        <5> QED  BY <4>2, <5>1 DEF TextsOf
      <4>3. CASE names # {}
        <5>1. rejects.names = rejected.names \cup names /\ rejects.ids = rejected.ids
          BY <3>2, <4>1, <4>3 DEF Recorded, NamesAndIds
        <5> QED  BY <4>3, <5>1 DEF TextsOf
      <4> QED  BY <4>2, <4>3
    <3> QED  BY <1>2, <3>1, <3>2, <3>3 DEF PlanRecords, RecordsNow
  <2>2. CASE ~record
    BY <1>2, <2>2 DEF PlanRecords, RecordsNow, lost, rejects, Nothing
  <2> QED  BY <2>1, <2>2
<1>6. ASSUME WholeNow  PROVE PlanWhole'
  <2>1. /\ \A x : x \in Stored(questions) <=> x \in Ids /\ questions[x] > 0
        /\ \A x : x \in Stored(quests) <=> x \in Stored(questions) /\ x \notin ids
        /\ \A x : x \in Stored(answs) <=> x \in Stored(answers) /\ x \notin doomed
    BY <1>3, StoredIs, StoredWithout DEF quests, answs
  <2>2. \A x \in Stored(quests) : subs[x[1]] > 0
    <3> SUFFICES ASSUME NEW x \in Stored(quests)  PROVE subs[x[1]] > 0
      OBVIOUS
    <3>1. x \in Stored(questions) /\ x[1] \notin names /\ x[1] \in Names
      BY <2>1 DEF Ids
    <3> QED  BY <1>3, <1>6, <3>1 DEF subs, Without, WholeNow
  <2>3. Stored(answs) \subseteq Stored(quests)
    BY <1>6, <2>1 DEF WholeNow
  <2>4. Written("subtopics", todo) \/ subs = subtopics
    BY <1>3, StoredWithout, DeletionWritten DEF todo, subs
  <2>5. Written("questions", todo) \/ quests = questions
    BY <1>3, StoredWithout, DeletionWritten DEF todo, quests
  <2>6. Written("answers", todo) \/ answs = answers
    BY <1>3, StoredWithout, DeletionWritten DEF todo, answs
  <2> QED  BY <1>2, <2>2, <2>3, <2>4, <2>5, <2>6 DEF PlanWhole
<1> QED  BY <1>2, <1>4, <1>5, <1>6 DEF GoodPlan, WholeNow

LEMMA EditPlan ==
  ASSUME TypeOK, UniqueIds, RecordsNow, Edit
  PROVE  GoodPlan'
<1>1. ASSUME NEW n \in Names, DeleteSubtopic(n)  PROVE GoodPlan'
  <2> DEFINE ids == {id \in Stored(questions) : id[1] = n}
  <2>1. ids \in SUBSET Ids /\ \A id \in Stored(questions) : id[1] \in {n} => id \in ids
    BY DEF TypeOK, Stored
  <2>2. Delete({n}, ids, {}, TRUE)
    BY <1>1 DEF DeleteSubtopic
  <2> HIDE DEF ids
  <2> QED  BY <2>1, <2>2, DeletePlan
<1>2. ASSUME NEW id \in Ids, DeleteQuestion(id)  PROVE GoodPlan'
  <2> DEFINE nobody == {}
             ids == {id}
  <2>1. Delete(nobody, ids, nobody, TRUE)
    BY <1>2 DEF DeleteQuestion
  <2>2. /\ nobody \in SUBSET Names /\ nobody \in SUBSET Ids /\ ids \in SUBSET Ids
        /\ \A x \in Stored(questions) : x[1] \in nobody => x \in ids
    OBVIOUS
  <2> HIDE DEF nobody, ids
  <2> QED  BY <2>1, <2>2, DeletePlan
<1>3. ASSUME NEW id \in Ids, DeleteAnswer(id)  PROVE GoodPlan'
  <2> DEFINE nobody == {}
             ids == {id}
  <2>1. Delete(nobody, nobody, ids, FALSE)
    BY <1>3 DEF DeleteAnswer
  <2>2. /\ nobody \in SUBSET Names /\ nobody \in SUBSET Ids /\ ids \in SUBSET Ids
        /\ \A x \in Stored(questions) : x[1] \in nobody => x \in nobody
    OBVIOUS
  <2> HIDE DEF nobody, ids
  <2> QED  BY <2>1, <2>2, DeletePlan
<1>4. ASSUME DeleteMissing  PROVE GoodPlan'
  <2> DEFINE nobody == {}
  <2>1. /\ nobody \in SUBSET Names /\ nobody \in SUBSET Ids /\ MissingSubtopic \in SUBSET Ids
        /\ \A x \in Stored(questions) : x[1] \in nobody => x \in MissingSubtopic
    BY DEF TypeOK, Stored, MissingSubtopic
  <2>2. Delete(nobody, MissingSubtopic, nobody, FALSE)
    BY <1>4 DEF DeleteMissing
  <2> HIDE DEF nobody
  <2> QED  BY <2>1, <2>2, DeletePlan
<1> QED  BY <1>1, <1>2, <1>3, <1>4, EditQuestionPlan, EditAnswerPlan, RenamePlan DEF Edit

------------------------------------------------------------------------------
(* No record twice *)

UniqueInv == UniqueIds /\ PlanUnique /\ AskedOnce

\* The deduplicator knows what the topic has, and not what the batch it is
\* asked about has left.
DedupInv ==
  /\ stage = "questions" =>
       \/ \A n \in Names : fills[n].pc = "off"
       \/ TextsOf(Stored(questions)) \cup TextsOf(rejected.ids) \subseteq dedup
  /\ \A n \in Names : fills[n].pc = "embedding" => fills[n].batch \cap dedup = {}

LEMMA StoredWith ==
  ASSUME NEW D, NEW f \in [D -> Nat], NEW S
  PROVE  /\ \A x : x \in Stored(With(f, S)) <=> x \in Stored(f) \/ (x \in S /\ x \in D)
         /\ (\A x \in D : f[x] <= 1) /\ Stored(f) \cap S = {} => \A x \in D : With(f, S)[x] <= 1
BY DEF Stored, With

LEMMA NoPlanUnique ==
  /\ \A n \in Names : NoPlan.subtopics[n] <= 1
  /\ \A id \in Ids : NoPlan.questions[id] <= 1 /\ NoPlan.answers[id] <= 1
BY DEF NoPlan, Plan, Empty

\* What an embedding request keeps is new in the topic.
LEMMA BatchIsNew ==
  ASSUME TypeOK, StageInv, DedupInv, NEW n \in Names, stage = "questions", fills[n].pc = "embedding",
         NEW kept \in SUBSET fills[n].batch
  PROVE  /\ kept \in SUBSET Texts
         /\ kept \cap TextsOf(Stored(questions)) = {}
         /\ Stored(questions) \cap ({n} \X kept) = {}
         /\ TextsOf(Stored(questions)) \cup TextsOf(rejected.ids) \subseteq dedup
<1>1. fills[n].batch \in SUBSET Texts
  BY DEF TypeOK, FillType
<1>2. TextsOf(Stored(questions)) \cup TextsOf(rejected.ids) \subseteq dedup /\ fills[n].batch \cap dedup = {}
  BY DEF DedupInv
<1>3. \A t \in kept : <<n, t>> \notin Stored(questions)
  BY <1>2 DEF TextsOf
<1> QED  BY <1>1, <1>2, <1>3

LEMMA UniqueStep ==
  TypeOK /\ StageInv /\ DedupInv /\ RecordsNow /\ UniqueInv /\ [Next]_vars => UniqueInv'
<1> SUFFICES ASSUME TypeOK, StageInv, DedupInv, RecordsNow, UniqueInv, [Next]_vars
             PROVE  UniqueInv'
  OBVIOUS
<1> USE DEF UniqueInv
<1>0. /\ subtopics \in [Names -> Nat] /\ questions \in [Ids -> Nat] /\ answers \in [Ids -> Nat]
      /\ asks \in [Ids -> {"none", "queued", "asking", "finished", "fatal"}]
  BY DEF TypeOK
<1>a. UNCHANGED plan => PlanUnique'
  BY DEF PlanUnique
<1>b. plan' = NoPlan => PlanUnique'
  BY NoPlanUnique DEF PlanUnique
<1>c. /\ UNCHANGED <<subtopics, questions, answers>> => UniqueIds'
      /\ UNCHANGED <<asks, answers>> => AskedOnce'
      /\ (\A id \in Ids : asks'[id] = "none") => AskedOnce'
      /\ StageOver => AskedOnce'
  BY DEF UniqueIds, AskedOnce, StageOver
<1>d. stage \notin {"answers", "stopping"} /\ UNCHANGED asks => AskedOnce'
  BY <1>c DEF StageInv
<1>1. CASE Edit
  BY <1>1, <1>c, EditPlan, EditKeeps DEF GoodPlan, files
<1>2. CASE SaveNext
  <2>1. UniqueIds'
    BY <1>2 DEF SaveNext, AppendRejected, RenameOver, UniqueIds, PlanUnique
  <2>2. PlanUnique'
    <3>1. CASE plan' = NoPlan
      BY <3>1, <1>b
    <3>2. CASE plan' # NoPlan
      <4>1. plan'.subtopics = plan.subtopics /\ plan'.questions = plan.questions /\ plan'.answers = plan.answers
        BY <1>2, <3>2 DEF SaveNext, TypeOK, PlanType
      <4> QED  BY <4>1 DEF PlanUnique
    <3> QED  BY <3>1, <3>2
  <2> QED  BY <1>2, <1>d, <2>1, <2>2 DEF SaveNext
<1>3. CASE SaveStops
  BY <1>3, <1>b, <1>c, <1>d DEF SaveStops
<1>4. ASSUME NEW force \in BOOLEAN, StartSubtopics(force) \/ StartQuestions(force)  PROVE UniqueInv'
  <2>1. UniqueIds'
    BY <1>4 DEF StartSubtopics, StartQuestions, UniqueIds, Empty
  <2> QED  BY <1>4, <2>1, <1>a, <1>d DEF StartSubtopics, StartQuestions
<1>5. CASE AppendSubtopics \/ SubtopicsCut
  <2>1. PICK fresh \in SUBSET NewNames : subtopics' = With(subtopics, fresh)
    BY <1>5 DEF AppendSubtopics, SubtopicsCut
  <2>2. fresh \cap Stored(subtopics) = {}
    BY <2>1 DEF NewNames
  <2>3. UniqueIds'
    BY <1>0, <1>5, <2>1, <2>2, StoredWith DEF AppendSubtopics, SubtopicsCut, UniqueIds
  <2> QED  BY <1>5, <2>3, <1>a, <1>c DEF AppendSubtopics, SubtopicsCut
<1>6. CASE Seed
  BY <1>6, <1>a, <1>c DEF Seed
<1>7. ASSUME NEW n \in Names, FillStarts(n) \/ Reply(n) \/ TakeDedup(n) \/ FillFails(n)
      PROVE  UniqueInv'
  BY <1>7, <1>a, <1>c DEF FillStarts, Reply, TakeDedup, FillFails, files
<1>8. ASSUME NEW n \in Names, Admit(n) \/ QuestionsCut(n)  PROVE UniqueInv'
  <2>1. PICK kept \in SUBSET fills[n].batch : questions' = With(questions, {n} \X kept)
    BY <1>8 DEF Admit, QuestionsCut
  <2>2. Stored(questions) \cap ({n} \X kept) = {}
    BY <1>8, BatchIsNew DEF Admit, QuestionsCut
  <2>3. \A id \in Ids : questions'[id] <= 1
    BY <1>0, <2>1, <2>2, StoredWith DEF UniqueIds
  <2>4. UNCHANGED <<subtopics, answers, plan>> /\ AskedOnce'
    BY <1>8, <1>c DEF Admit, QuestionsCut
  <2> QED  BY <2>3, <2>4, <1>a DEF UniqueIds
<1>9. ASSUME NEW force \in BOOLEAN, StartAnswers(force)  PROVE UniqueInv'
  <2>1. UniqueIds'
    BY <1>9 DEF StartAnswers, UniqueIds, Empty
  <2>2. AskedOnce'
    BY <1>9 DEF StartAnswers, AskedOnce, Pending
  <2> QED  BY <1>9, <2>1, <2>2, <1>a DEF StartAnswers
<1>10. ASSUME NEW id \in Ids, Ask(id) \/ Finish(id)  PROVE UniqueInv'
  <2>1. AskedOnce'
    BY <1>0, <1>10 DEF Ask, Finish, AskedOnce, files
  <2> QED  BY <1>10, <2>1, <1>a, <1>c DEF Ask, Finish, files
<1>11. ASSUME NEW id \in Ids, JoinFatal(id)  PROVE UniqueInv'
  <2>1. AskedOnce'
    BY <1>0, <1>11 DEF JoinFatal, Aborted, InFlight, AskedOnce, files
  <2> QED  BY <1>11, <2>1, <1>a, <1>c DEF JoinFatal, files
<1>12. ASSUME NEW id \in Ids, Join(id) \/ AnswersCut(id)  PROVE UniqueInv'
  <2>1. answers[id] = 0
    BY <1>12 DEF Join, AnswersCut, AskedOnce
  <2>2. answers' \in {answers, With(answers, {id})}
    BY <1>12 DEF Join, AnswersCut
  <2>3. \A x \in Ids : answers'[x] <= 1 /\ (x # id => answers'[x] = answers[x])
    BY <1>0, <2>1, <2>2 DEF With, UniqueIds
  <2>4. AskedOnce'
    <3>1. CASE Join(id)
      BY <1>0, <2>3, <3>1 DEF Join, AskedOnce
    <3>2. CASE AnswersCut(id)
      BY <1>c, <3>2 DEF AnswersCut
    <3> QED  BY <1>12, <3>1, <3>2
  <2> QED  BY <1>12, <2>3, <2>4, <1>a DEF Join, AnswersCut, UniqueIds
<1>13. CASE QuestionsEnd \/ AnswersEnd \/ StageStops
  BY <1>13, <1>a, <1>c DEF QuestionsEnd, AnswersEnd, StageStops, files
<1>14. CASE UNCHANGED vars
  BY <1>14, <1>a, <1>c DEF vars, files
<1> QED  BY <1>1, <1>2, <1>3, <1>4, <1>5, <1>6, <1>7, <1>8, <1>9, <1>10, <1>11, <1>12, <1>13, <1>14
         DEF Next, Start, Work, Fault

LEMMA DedupStep == TypeOK /\ StageInv /\ DedupInv /\ [Next]_vars => DedupInv'
<1> SUFFICES ASSUME TypeOK, StageInv, DedupInv, [Next]_vars  PROVE DedupInv'
  OBVIOUS
<1>0. fills \in [Names -> FillType] /\ questions \in [Ids -> Nat]
  BY DEF TypeOK
<1>a. stage' # "questions" /\ (\A n \in Names : fills'[n] = NoFill) => DedupInv'
  BY DEF DedupInv, NoFill, Fill
<1>1. CASE stage' # "questions"
  <2>1. \A n \in Names : fills'[n] = NoFill
    BY <1>1, StageStep DEF StageInv
  <2> QED  BY <1>1, <1>a, <2>1
<1>2. CASE Seed
  <2>1. \A n \in Names : fills'[n].pc \in {"off", "waiting"}
    BY <1>2 DEF Seed, NoFill, Fill
  <2>2. Slots = {} => \A n \in Names : fills'[n].pc = "off"
    BY <1>2 DEF Seed, NoFill, Fill
  <2>3. Slots # {} => dedup' = TextsOf(Stored(questions)) \cup TextsOf(rejected.ids)
    BY <1>2 DEF Seed
  <2>4. UNCHANGED <<questions, rejected>>
    BY <1>2 DEF Seed
  <2> QED  BY <2>1, <2>2, <2>3, <2>4 DEF DedupInv
<1>3. ASSUME NEW n \in Names, FillStarts(n) \/ Reply(n) \/ TakeDedup(n) \/ FillFails(n)
      PROVE  DedupInv'
  <2>1. /\ stage = "questions" /\ UNCHANGED <<questions, rejected, dedup>>
        /\ \A m \in Names : m # n => fills'[m] = fills[m]
        /\ fills[n].pc # "off"
    BY <1>0, <1>3 DEF FillStarts, Reply, TakeDedup, FillFails, files
  <2>2. fills'[n].pc = "embedding" => fills'[n].batch \cap dedup = {}
    <3>1. CASE TakeDedup(n)
      BY <1>0, <3>1 DEF TakeDedup, FillType
    <3>2. CASE ~TakeDedup(n)
      BY <1>0, <1>3, <3>2 DEF FillStarts, Reply, FillFails, FillType, Fill
    <3> QED  BY <3>1, <3>2
  <2> QED  BY <2>1, <2>2 DEF DedupInv
<1>4. ASSUME NEW n \in Names, Admit(n)  PROVE DedupInv'
  <2>1. PICK kept \in SUBSET fills[n].batch :
          /\ dedup' = dedup \cup kept
          /\ questions' = With(questions, {n} \X kept)
          /\ fills' = [fills EXCEPT ![n] = Filled(n, kept)]
    BY <1>4 DEF Admit
  <2>2. /\ stage = "questions" /\ fills[n].pc = "embedding" /\ UNCHANGED rejected
        /\ TextsOf(Stored(questions)) \cup TextsOf(rejected.ids) \subseteq dedup
    BY <1>4, BatchIsNew DEF Admit
  <2>3. \A m \in Names : fills'[m].pc # "embedding"
    <3>1. Filled(n, kept).pc # "embedding"
      BY DEF Filled
    <3>2. \A m \in Names : fills[m].pc = "embedding" => m = n
      BY <2>2 DEF StageInv
    <3> QED  BY <1>0, <2>1, <3>1, <3>2
  <2>4. TextsOf(Stored(questions')) \subseteq TextsOf(Stored(questions)) \cup kept
    <3>1. \A x : x \in Stored(questions') => x \in Stored(questions) \/ x \in ({n} \X kept)
      BY <1>0, <2>1, StoredWith
    <3> QED  BY <3>1 DEF TextsOf
  <2> QED  BY <2>1, <2>2, <2>3, <2>4 DEF DedupInv
<1>5. CASE UNCHANGED vars
  BY <1>5 DEF vars, files, filling, DedupInv
<1>6. CASE stage' = "questions" /\ ~UNCHANGED vars
  <2>1. Seed \/ \E n \in Names : FillStarts(n) \/ Reply(n) \/ TakeDedup(n) \/ FillFails(n) \/ Admit(n)
    BY <1>6, EditKeeps
       DEF Next, Start, Work, Fault, SaveNext, SaveStops, StartSubtopics, StartQuestions, StartAnswers,
           AppendSubtopics, SubtopicsCut, QuestionsEnd, AnswersEnd, StageStops, QuestionsCut,
           AnswersCut, StageOver, Ask, Finish, Join, JoinFatal
  <2> QED  BY <1>2, <1>3, <1>4, <2>1
<1> QED  BY <1>1, <1>5, <1>6

------------------------------------------------------------------------------
(* What was deleted stays recorded *)

RecordInv == RecordsNow /\ (stage = "saving" => PlanRecords)

LEMMA RecordStep == TypeOK /\ UniqueInv /\ RecordInv /\ [Next]_vars => RecordInv'
<1> SUFFICES ASSUME TypeOK, UniqueInv, RecordInv, [Next]_vars  PROVE RecordInv'
  OBVIOUS
<1>a. UNCHANGED <<rejected, gone>> => RecordsNow'
  BY DEF RecordInv, RecordsNow
<1>1. CASE Edit
  BY <1>1, <1>a, EditPlan, EditKeeps DEF GoodPlan, UniqueInv, RecordInv, files
<1>2. CASE SaveNext
  <2>1. PlanRecords /\ RecordsNow /\ rejected \in NamesAndIds /\ gone \in NamesAndTexts
    BY <1>2 DEF SaveNext, RecordInv, TypeOK
  <2>2. stage' = "saving" => plan'.rejected = plan.rejected /\ plan'.gone = plan.gone
    BY <1>2 DEF SaveNext, TypeOK, PlanType
  <2>3. /\ plan.gone.names \subseteq rejected'.names /\ plan.gone.texts \subseteq TextsOf(rejected'.ids)
        /\ gone.names \subseteq rejected'.names /\ gone.texts \subseteq TextsOf(rejected'.ids)
    <3>1. CASE Head(plan.todo) = "append"
      BY <1>2, <2>1, <3>1 DEF SaveNext, AppendRejected, PlanRecords
    <3>2. CASE Head(plan.todo) # "append"
      <4>1. rejected' \in {rejected, plan.rejected}
        BY <1>2, <3>2 DEF SaveNext, RenameOver
      <4> QED  BY <2>1, <3>2, <4>1 DEF PlanRecords, RecordsNow
    <3> QED  BY <3>1, <3>2
  <2>4. gone'.names \subseteq gone.names \cup plan.gone.names /\ gone'.texts \subseteq gone.texts \cup plan.gone.texts
    <3>1. CASE Head(plan.todo) = "append"
      BY <1>2, <3>1 DEF SaveNext, AppendRejected
    <3>2. CASE Head(plan.todo) # "append"
      <4>1. RenameOver(Head(plan.todo))
        BY <1>2, <3>2 DEF SaveNext
      <4>2. /\ gone'.names = gone.names \cup IF Head(plan.todo) = "subtopics" THEN plan.gone.names ELSE {}
            /\ gone'.texts = gone.texts \cup IF Head(plan.todo) = "questions" THEN plan.gone.texts ELSE {}
        BY <4>1 DEF RenameOver
      <4> QED  BY <4>2
    <3> QED  BY <3>1, <3>2
  <2>5. RecordsNow'
    BY <2>3, <2>4 DEF RecordsNow
  <2>6. stage' = "saving" => PlanRecords'
    BY <2>1, <2>2, <2>3, <2>4 DEF PlanRecords
  <2> QED  BY <2>5, <2>6 DEF RecordInv
<1>3. CASE SaveStops
  <2>1. rejected' \in {rejected, plan.rejected} /\ UNCHANGED gone /\ stage' = "idle" /\ stage = "saving"
    BY <1>3 DEF SaveStops
  <2> QED  BY <2>1 DEF RecordInv, RecordsNow, PlanRecords
<1>4. ASSUME NEW force \in BOOLEAN, StartSubtopics(force) \/ StartQuestions(force) \/ StartAnswers(force)
      PROVE  RecordInv'
  BY <1>4, <1>a DEF StartSubtopics, StartQuestions, StartAnswers, RecordInv, history
<1>5. CASE AppendSubtopics \/ SubtopicsCut \/ Seed \/ QuestionsEnd \/ AnswersEnd \/ StageStops
  BY <1>5, <1>a DEF AppendSubtopics, SubtopicsCut, Seed, QuestionsEnd, AnswersEnd, StageStops, StageOver,
                    RecordInv, files, history
<1>6. ASSUME NEW n \in Names, FillStarts(n) \/ Reply(n) \/ TakeDedup(n) \/ FillFails(n) \/ Admit(n) \/ QuestionsCut(n)
      PROVE  RecordInv'
  BY <1>6, <1>a DEF FillStarts, Reply, TakeDedup, FillFails, Admit, QuestionsCut, StageOver, RecordInv, files, history
<1>7. ASSUME NEW id \in Ids, Ask(id) \/ Finish(id) \/ Join(id) \/ JoinFatal(id) \/ AnswersCut(id)
      PROVE  RecordInv'
  BY <1>7, <1>a DEF Ask, Finish, Join, JoinFatal, AnswersCut, StageOver, RecordInv, files, history
<1>8. CASE UNCHANGED vars
  BY <1>8 DEF vars, files, history, RecordInv, RecordsNow, PlanRecords
<1> QED  BY <1>1, <1>2, <1>3, <1>4, <1>5, <1>6, <1>7, <1>8 DEF Next, Start, Work, Fault

------------------------------------------------------------------------------
(* Nothing hangs in the air *)

WholeInv ==
  /\ ~loose /\ ~(stage = "saving" /\ plan.begun) => WholeNow
  /\ stage = "saving" /\ ~loose => PlanWhole
  /\ \A n \in Names : fills[n].pc # "off" => subtopics[n] > 0
  /\ \A id \in Ids : asks[id] # "none" => questions[id] > 0

LEMMA WrittenTail ==
  ASSUME NEW todo \in Seq(Writes), todo # <<>>, NEW f, Written(f, todo)
  PROVE  f = Head(todo) \/ Written(f, Tail(todo))
<1>1. PICK i \in 1..Len(todo) : todo[i] = f
  BY DEF Written
<1>2. CASE i = 1
  BY <1>1, <1>2
<1>3. CASE i # 1
  <2>1. i - 1 \in 1..Len(Tail(todo)) /\ Tail(todo)[i - 1] = f
    BY <1>1, <1>3
  <2> QED  BY <2>1 DEF Written
<1> QED  BY <1>2, <1>3

LEMMA WrittenNever == \A f : ~Written(f, <<>>)
BY DEF Written

LEMMA SaveWhole ==
  ASSUME TypeOK, StageInv, WholeInv, SaveNext
  PROVE  WholeInv'
<1>1. plan.todo \in Seq(Writes) /\ plan.todo # <<>> /\ stage = "saving"
  BY DEF SaveNext, TypeOK, PlanType, Writes
<1>2. (\A n \in Names : fills'[n].pc = "off") /\ (\A id \in Ids : asks'[id] = "none") /\ UNCHANGED loose
  BY <1>1 DEF SaveNext, StageInv, filling, NoFill, Fill
<1> DEFINE f == Head(plan.todo)
<1>3. /\ f = "subtopics" => subtopics' = plan.subtopics
      /\ f = "questions" => questions' = plan.questions
      /\ f = "answers" => answers' = plan.answers
      /\ f # "subtopics" => subtopics' = subtopics
      /\ f # "questions" => questions' = questions
      /\ f # "answers" => answers' = answers
  BY DEF SaveNext, AppendRejected, RenameOver
<1>4. CASE loose
  BY <1>2, <1>4 DEF WholeInv
<1>5. CASE ~loose
  <2>1. PlanWhole
    BY <1>1, <1>5 DEF WholeInv
  <2>2. /\ subtopics' = plan.subtopics \/ (Written("subtopics", Tail(plan.todo)) /\ subtopics' = subtopics)
        /\ questions' = plan.questions \/ (Written("questions", Tail(plan.todo)) /\ questions' = questions)
        /\ answers' = plan.answers \/ (Written("answers", Tail(plan.todo)) /\ answers' = answers)
    BY <1>1, <1>3, <2>1, WrittenTail DEF PlanWhole
  <2>3. CASE Tail(plan.todo) = <<>>
    <3>1. subtopics' = plan.subtopics /\ questions' = plan.questions /\ answers' = plan.answers
      BY <2>2, <2>3, WrittenNever
    <3>2. WholeNow' /\ stage' = "idle"
      BY <2>1, <2>3, <3>1 DEF PlanWhole, WholeNow, SaveNext
    <3> QED  BY <1>2, <3>2 DEF WholeInv
  <2>4. CASE Tail(plan.todo) # <<>>
    <3>1. /\ stage' = "saving" /\ plan'.todo = Tail(plan.todo) /\ plan'.subtopics = plan.subtopics
          /\ plan'.questions = plan.questions /\ plan'.answers = plan.answers
      BY <1>1, <2>4 DEF SaveNext, TypeOK, PlanType
    <3>2. PlanWhole'
      BY <2>1, <2>2, <3>1 DEF PlanWhole
    <3>3. ~plan'.begun => WholeNow'
      <4>1. plan'.begun = (plan.begun \/ f # "append")
        BY <2>4 DEF SaveNext, TypeOK, PlanType
      <4>2. ~plan'.begun => ~plan.begun /\ f = "append"
        BY <4>1
      <4>3. ~plan'.begun => WholeNow /\ UNCHANGED <<subtopics, questions, answers>>
        BY <1>3, <1>5, <4>2 DEF WholeInv
      <4> QED  BY <4>3 DEF WholeNow
    <3> QED  BY <1>2, <3>1, <3>2, <3>3 DEF WholeInv
  <2> QED  BY <2>3, <2>4
<1> QED  BY <1>4, <1>5

LEMMA WholeStep ==
  TypeOK /\ StageInv /\ UniqueInv /\ RecordInv /\ WholeInv /\ [Next]_vars => WholeInv'
<1> SUFFICES ASSUME TypeOK, StageInv, UniqueInv, RecordInv, WholeInv, [Next]_vars  PROVE WholeInv'
  OBVIOUS
<1>0. /\ subtopics \in [Names -> Nat] /\ questions \in [Ids -> Nat] /\ answers \in [Ids -> Nat]
      /\ asks \in [Ids -> {"none", "queued", "asking", "finished", "fatal"}]
      /\ fills \in [Names -> FillType]
  BY DEF TypeOK
<1>a. UNCHANGED <<subtopics, questions, answers>> => (WholeNow <=> WholeNow')
  BY DEF WholeNow
<1>b. stage = "idle" => \A n \in Names : fills[n].pc = "off"
  BY DEF StageInv, NoFill, Fill
<1>c. stage \notin {"answers", "stopping"} => \A id \in Ids : asks[id] = "none"
  BY DEF StageInv
<1>d. StageOver => /\ stage' = "idle" /\ (\A n \in Names : fills'[n].pc = "off")
                   /\ (\A id \in Ids : asks'[id] = "none")
  BY DEF StageOver, NoFill, Fill
<1>1. CASE Edit
  <2>1. UNCHANGED <<subtopics, questions, answers, fills, asks, loose>> /\ stage' = "saving" /\ stage = "idle"
    BY <1>1, EditKeeps DEF files, filling
  <2>2. WholeNow => PlanWhole'
    <3>1. UniqueIds /\ RecordsNow
      BY DEF UniqueInv, RecordInv
    <3>2. GoodPlan'
      BY <1>1, <3>1, EditPlan
    <3>3. WholeNow' => PlanWhole'
      BY <3>2 DEF GoodPlan
    <3> QED  BY <1>a, <2>1, <3>3
  <2> QED  BY <1>a, <1>b, <1>c, <2>1, <2>2 DEF WholeInv
<1>2. CASE SaveNext
  BY <1>2, SaveWhole
<1>3. CASE SaveStops
  <2>1. /\ UNCHANGED <<subtopics, questions, answers, fills, asks>> /\ stage = "saving" /\ stage' = "idle"
        /\ ~loose' => ~loose /\ ~plan.begun
    BY <1>3 DEF SaveStops, filling
  <2> QED  BY <1>a, <2>1 DEF WholeInv
<1>4. ASSUME NEW force \in BOOLEAN, StartSubtopics(force) \/ StartQuestions(force)  PROVE WholeInv'
  <2>1. /\ UNCHANGED <<fills, asks>> /\ stage = "idle" /\ stage' # "saving"
        /\ ~loose' => ~loose /\ UNCHANGED <<subtopics, questions, answers>>
    BY <1>4 DEF StartSubtopics, StartQuestions, Forced, filling
  <2> QED  BY <1>a, <1>b, <1>c, <2>1 DEF WholeInv
<1>5. CASE AppendSubtopics \/ SubtopicsCut
  <2>1. PICK fresh \in SUBSET NewNames : subtopics' = With(subtopics, fresh)
    BY <1>5 DEF AppendSubtopics, SubtopicsCut
  <2>2. \A n \in Names : subtopics[n] > 0 => subtopics'[n] > 0
    BY <1>0, <2>1 DEF With
  <2>3. UNCHANGED <<questions, answers, loose>> /\ StageOver /\ stage # "saving"
    BY <1>5 DEF AppendSubtopics, SubtopicsCut
  <2>4. WholeNow => WholeNow'
    BY <1>0, <2>2, <2>3 DEF WholeNow, Stored, Ids
  <2> QED  BY <1>d, <2>3, <2>4 DEF WholeInv
<1>6. CASE Seed
  <2>1. \A n \in Names : fills'[n].pc # "off" => subtopics[n] > 0
    BY <1>0, <1>6 DEF Seed, NoFill, Fill, Slots, Stored
  <2>2. /\ UNCHANGED <<subtopics, questions, answers, asks, loose>>
        /\ stage = "seeding" /\ stage' = "questions"
    BY <1>6 DEF Seed, history
  <2> QED  BY <1>a, <1>c, <2>1, <2>2 DEF WholeInv
<1>7. ASSUME NEW n \in Names, FillStarts(n) \/ Reply(n) \/ TakeDedup(n) \/ FillFails(n)
      PROVE  WholeInv'
  <2>1. /\ \A m \in Names : m # n => fills'[m] = fills[m]
        /\ fills[n].pc # "off" /\ stage = "questions" /\ stage' = "questions"
        /\ UNCHANGED <<subtopics, questions, answers, asks, loose>>
    BY <1>0, <1>7 DEF FillStarts, Reply, TakeDedup, FillFails, files, history
  <2> QED  BY <1>a, <2>1 DEF WholeInv
<1>8. ASSUME NEW n \in Names, Admit(n) \/ QuestionsCut(n)  PROVE WholeInv'
  <2>1. PICK kept \in SUBSET fills[n].batch : questions' = With(questions, {n} \X kept)
    BY <1>8 DEF Admit, QuestionsCut
  <2>2. /\ UNCHANGED <<subtopics, answers, loose>> /\ stage = "questions" /\ stage' # "saving"
        /\ fills[n].pc = "embedding" /\ subtopics[n] > 0
    BY <1>8 DEF Admit, QuestionsCut, StageOver, WholeInv, history
  <2>3. WholeNow => WholeNow'
    <3>1. \A x : x \in Stored(questions') => x \in Stored(questions) \/ x \in {n} \X kept
      BY <1>0, <2>1, StoredWith
    <3>2. \A x : x \in Stored(questions) => x \in Stored(questions')
      BY <1>0, <2>1, StoredWith
    <3> QED  BY <2>2, <3>1, <3>2 DEF WholeNow
  <2>4. /\ \A m \in Names : fills'[m].pc # "off" => fills[m].pc # "off"
        /\ \A id \in Ids : asks'[id] = "none"
    <3>1. CASE Admit(n)
      BY <1>0, <1>c, <2>2, <3>1 DEF Admit
    <3>2. CASE QuestionsCut(n)
      BY <1>d, <3>2 DEF QuestionsCut
    <3> QED  BY <1>8, <3>1, <3>2
  <2> QED  BY <2>2, <2>3, <2>4 DEF WholeInv
<1>9. ASSUME NEW force \in BOOLEAN, StartAnswers(force)  PROVE WholeInv'
  <2>1. /\ stage = "idle" /\ stage' = "answers" /\ UNCHANGED <<subtopics, questions, fills, loose>>
        /\ answers' \in {answers, Empty(Ids)}
        /\ \A id \in Ids : asks'[id] # "none" => questions[id] > 0
    BY <1>9 DEF StartAnswers, filling, history, Pending, Stored
  <2>2. WholeNow => WholeNow'
    BY <2>1 DEF WholeNow, Stored, Empty
  <2> QED  BY <1>b, <2>1, <2>2 DEF WholeInv
<1>10. ASSUME NEW id \in Ids, Ask(id) \/ Finish(id) \/ JoinFatal(id)  PROVE WholeInv'
  <2>1. \A x \in Ids : asks'[x] # "none" => asks[x] # "none"
    BY <1>0, <1>10 DEF Ask, Finish, JoinFatal, Aborted, InFlight
  <2>2. UNCHANGED <<subtopics, questions, answers, fills, loose>> /\ stage' # "saving" /\ stage # "saving"
    BY <1>10 DEF Ask, Finish, JoinFatal, files, filling, history
  <2> QED  BY <1>a, <2>1, <2>2 DEF WholeInv
<1>11. ASSUME NEW id \in Ids, Join(id) \/ AnswersCut(id)  PROVE WholeInv'
  <2>1. answers' \in {answers, With(answers, {id})} /\ UNCHANGED <<subtopics, questions, loose>>
    BY <1>11 DEF Join, AnswersCut, history
  <2>2. questions[id] > 0 /\ stage # "saving" /\ stage' # "saving"
    BY <1>11 DEF Join, AnswersCut, WholeInv, StageOver
  <2>3. WholeNow => WholeNow'
    <3>1. \A x : x \in Stored(answers') => x \in Stored(answers) \/ x = id
      BY <1>0, <2>1, StoredWith
    <3>2. id \in Stored(questions)
      BY <1>0, <2>2, StoredIs
    <3> QED  BY <2>1, <3>1, <3>2 DEF WholeNow
  <2>4. /\ \A m \in Names : fills'[m].pc # "off" => fills[m].pc # "off"
        /\ \A x \in Ids : asks'[x] # "none" => asks[x] # "none"
    <3>1. CASE Join(id)
      BY <1>0, <3>1 DEF Join, filling
    <3>2. CASE AnswersCut(id)
      BY <1>d, <3>2 DEF AnswersCut
    <3> QED  BY <1>11, <3>1, <3>2
  <2> QED  BY <2>1, <2>2, <2>3, <2>4 DEF WholeInv
<1>12. CASE QuestionsEnd \/ AnswersEnd \/ StageStops
  <2>1. StageOver /\ UNCHANGED <<subtopics, questions, answers, loose>> /\ stage # "saving"
    BY <1>12 DEF QuestionsEnd, AnswersEnd, StageStops, files
  <2> QED  BY <1>a, <1>d, <2>1 DEF WholeInv
<1>13. CASE UNCHANGED vars
  BY <1>13 DEF vars, files, filling, history, WholeInv, WholeNow, PlanWhole
<1> QED  BY <1>1, <1>2, <1>3, <1>4, <1>5, <1>6, <1>7, <1>8, <1>9, <1>10, <1>11, <1>12, <1>13
         DEF Next, Start, Work, Fault

------------------------------------------------------------------------------
(* What holds of every behaviour *)

Inv ==
  /\ TypeOK /\ StageInv /\ UniqueInv
  /\ DedupInv /\ RecordInv /\ WholeInv

LEMMA InvInit == Init => Inv
<1> SUFFICES ASSUME Init  PROVE Inv
  OBVIOUS
<1>1. TypeOK /\ StageInv
  BY TypeInit, StageInit
<1>2. UniqueInv
  BY NoPlanUnique DEF Init, UniqueInv, UniqueIds, PlanUnique, AskedOnce, Empty
<1>3. DedupInv
  BY DEF Init, DedupInv, NoFill, Fill
<1>4. RecordInv
  BY DEF Init, RecordInv, RecordsNow, Nothing
<1>5. WholeInv
  BY DEF Init, WholeInv, WholeNow, Stored, Empty, NoFill, Fill
<1> QED  BY <1>1, <1>2, <1>3, <1>4, <1>5 DEF Inv

LEMMA InvStep == Inv /\ [Next]_vars => Inv'
<1> SUFFICES ASSUME Inv, [Next]_vars  PROVE Inv'
  OBVIOUS
<1> USE DEF Inv
<1>1. RecordsNow
  BY DEF RecordInv
<1> QED  BY <1>1, TypeStep, StageStep, UniqueStep, DedupStep, RecordStep, WholeStep

LEMMA InvHolds == Spec => []Inv
BY InvInit, InvStep, PTL DEF Spec

\* No edit, stage or cut gives two records of a file the same ID.
THEOREM IdsStayUnique == Spec => []UniqueIds
<1>1. Inv => UniqueIds
  BY DEF Inv, UniqueInv
<1> QED  BY <1>1, InvHolds, PTL

\* No answered question is asked again.
THEOREM NothingAskedTwice == Spec => []AskedOnce
<1>1. Inv => AskedOnce
  BY DEF Inv, UniqueInv
<1> QED  BY <1>1, InvHolds, PTL

\* Questions keep their subtopic and answers their question unless a change
\* was cut between two renames or an output thrown away.
THEOREM FilesStayWhole == Spec => []Whole
<1>1. Inv => Whole
  BY DEF Inv, WholeInv, WholeNow, Whole
<1> QED  BY <1>1, InvHolds, PTL

\* The three files stay readable, without duplicates, and refer to each other.
THEOREM FilesStaySound == Spec => []FilesHold
<1>1. UniqueIds /\ NeverUnreadable /\ Whole => FilesHold
  BY DEF FilesHold
<1> QED  BY <1>1, IdsStayUnique, FilesStayReadable, FilesStayWhole, PTL

\* The only steps of the questions stage that change the questions: what they
\* add comes out of the batch of one subtopic.
LEMMA QuestionsAdded ==
  ASSUME Inv, [Next]_vars, stage = "questions", NEW id \in Ids, questions'[id] > questions[id]
  PROVE  id[2] \notin TextsOf(Stored(questions)) /\ id[2] \notin TextsOf(rejected.ids)
<1>0. TypeOK /\ StageInv /\ DedupInv /\ questions \in [Ids -> Nat]
  BY DEF Inv, TypeOK
<1>1. PICK n \in Names : Admit(n) \/ QuestionsCut(n)
  <2>1. questions' # questions
    BY <1>0
  <2> QED
    BY <2>1, EditKeeps
       DEF Next, Start, Work, Fault, SaveNext, SaveStops, StartSubtopics, StartQuestions, StartAnswers,
           AppendSubtopics, SubtopicsCut, QuestionsEnd, AnswersEnd, StageStops, AnswersCut,
           Ask, Finish, Join, JoinFatal, Seed, FillStarts, Reply, TakeDedup, FillFails, files, vars
<1>2. PICK kept \in SUBSET fills[n].batch : questions' = With(questions, {n} \X kept)
  BY <1>1 DEF Admit, QuestionsCut
<1>3. fills[n].pc = "embedding"
  BY <1>1 DEF Admit, QuestionsCut
<1>4. id \in {n} \X kept
  BY <1>0, <1>2 DEF With
<1>5. kept \cap TextsOf(Stored(questions)) = {} /\ kept \cap TextsOf(rejected.ids) = {}
  <2>1. /\ kept \cap TextsOf(Stored(questions)) = {}
        /\ TextsOf(Stored(questions)) \cup TextsOf(rejected.ids) \subseteq dedup
    BY <1>0, <1>3, BatchIsNew
  <2>2. fills[n].batch \cap dedup = {}
    BY <1>0, <1>3 DEF DedupInv
  <2> QED  BY <2>1, <2>2
<1> QED  BY <1>4, <1>5

\* Two subtopics filled at the same time never keep the same question.
THEOREM QuestionsAreNew == Spec => NewInTopic
<1>1. Inv /\ [Next]_vars =>
        [stage = "questions" =>
           \A id \in Ids : questions'[id] > questions[id] =>
             id[2] \notin TextsOf(Stored(questions))]_vars
  BY QuestionsAdded
<1> QED  BY <1>1, InvHolds, PTL DEF NewInTopic, Spec

\* A name the subtopics stage adds is neither stored nor deleted.
LEMMA SubtopicsAdded ==
  ASSUME Inv, [Next]_vars, stage = "subtopics", NEW n \in rejected.names
  PROVE  subtopics'[n] <= subtopics[n]
<1>0. TypeOK /\ subtopics \in [Names -> Nat] /\ n \in Names
  BY DEF Inv, TypeOK, NamesAndIds
<1>1. CASE AppendSubtopics \/ SubtopicsCut
  <2>1. PICK fresh \in SUBSET NewNames : subtopics' = With(subtopics, fresh)
    BY <1>1 DEF AppendSubtopics, SubtopicsCut
  <2>2. n \notin fresh
    BY DEF NewNames
  <2> QED  BY <1>0, <2>1, <2>2 DEF With
<1>2. CASE ~(AppendSubtopics \/ SubtopicsCut)
  <2>1. UNCHANGED subtopics
    BY <1>2, EditKeeps
       DEF Next, Start, Work, Fault, SaveNext, SaveStops, StartSubtopics, StartQuestions, StartAnswers,
           QuestionsEnd, AnswersEnd, StageStops, AnswersCut, Admit, QuestionsCut,
           Ask, Finish, Join, JoinFatal, Seed, FillStarts, Reply, TakeDedup, FillFails, files, vars
  <2> QED  BY <1>0, <2>1
<1> QED  BY <1>1, <1>2

\* What the user deleted never comes back.
THEOREM DeletedStaysDeleted == Spec => NeverRegenerated
<1>1. Inv /\ [Next]_vars =>
        [/\ stage = "subtopics" => \A n \in gone.names : subtopics'[n] <= subtopics[n]
         /\ stage = "questions" =>
              \A id \in Ids : id[2] \in gone.texts => ~(questions'[id] > questions[id])]_vars
  <2> SUFFICES ASSUME Inv, [Next]_vars
               PROVE  /\ stage = "subtopics" => \A n \in gone.names : subtopics'[n] <= subtopics[n]
                      /\ stage = "questions" =>
                           \A id \in Ids : id[2] \in gone.texts => ~(questions'[id] > questions[id])
    OBVIOUS
  <2>1. gone.names \subseteq rejected.names /\ gone.texts \subseteq TextsOf(rejected.ids)
    BY DEF Inv, RecordInv, RecordsNow
  <2> QED  BY <2>1, SubtopicsAdded, QuestionsAdded
<1> QED  BY <1>1, InvHolds, PTL DEF NeverRegenerated, Spec

\* A fatal error of one request loses no answer that had finished.
THEOREM FinishedIsKept == Spec => KeptFinished
<1>1. Inv /\ [Next]_vars =>
        [\A id \in Ids : asks[id] = "finished" /\ asks'[id] # "finished" /\ ~Fault
           => answers'[id] = answers[id] + 1]_vars
  <2> SUFFICES ASSUME Inv, [Next]_vars, NEW id \in Ids,
                      asks[id] = "finished", asks'[id] # "finished", ~Fault
               PROVE  answers'[id] = answers[id] + 1
    OBVIOUS
  <2>0. /\ asks \in [Ids -> {"none", "queued", "asking", "finished", "fatal"}]
        /\ answers \in [Ids -> Nat]
    BY DEF Inv, TypeOK
  <2>1. stage \in {"answers", "stopping"}
    BY DEF Inv, StageInv
  <2>2. ~\E x \in Ids : x # id /\ Join(x)
    BY <2>0 DEF Join
  <2>3. ~\E x \in Ids : Ask(x) \/ Finish(x) \/ JoinFatal(x)
    BY <2>0 DEF Ask, Finish, JoinFatal, Aborted
  <2>4. ~AnswersEnd
    BY DEF AnswersEnd
  <2>5. Join(id)
    BY <2>1, <2>2, <2>3, <2>4, EditKeeps
       DEF Next, Start, Work, SaveNext, StartSubtopics, StartQuestions, StartAnswers,
           QuestionsEnd, Admit, AppendSubtopics, Seed, FillStarts, Reply, TakeDedup, FillFails, vars
  <2> QED  BY <2>0, <2>5 DEF Join, With
<1> QED  BY <1>1, InvHolds, PTL DEF KeptFinished, Spec

------------------------------------------------------------------------------
(* What a stage adds is within its target, and it ends *)

\* A fill counts the questions its subtopic has, wants more, and asks for no
\* more than are missing; one that gave up or is full is done.
CountInv ==
  \A n \in Names : fills[n].pc \notin {"off", "done"} =>
    /\ fills[n].accepted = InSubtopic(questions, n)
    /\ fills[n].accepted < Target
    /\ fills[n].stalls < Patience
    /\ fills[n].pc \in {"replied", "embedding"} =>
         Cardinality(fills[n].batch) <= Target - fills[n].accepted

\* An edit under way has a write left, and a stage that stops on a fatal error
\* has only what finished to join.
LeftInv ==
  /\ stage = "saving" => plan.todo # <<>>
  /\ stage = "stopping" => \A id \in Ids : asks[id] \in {"none", "finished"}

LEMMA TextsFinite ==
  ASSUME NEW S \in SUBSET Texts
  PROVE  IsFiniteSet(S) /\ Cardinality(S) \in Nat
<1>1. IsFiniteSet(Texts)
  BY DatasetAssumption
<1>2. IsFiniteSet(S)
  BY <1>1, FS_Subset
<1> QED  BY <1>2, FS_CardinalityType

\* The questions of the subtopic they are added to go up by their number, those
\* of the others stay.
LEMMA AddedCount ==
  ASSUME NEW f \in [Ids -> Nat], NEW n \in Names, NEW kept \in SUBSET Texts,
         \A t \in kept : f[<<n, t>>] = 0
  PROVE  /\ InSubtopic(With(f, {n} \X kept), n) = InSubtopic(f, n) + Cardinality(kept)
         /\ \A m \in Names \ {n} : InSubtopic(With(f, {n} \X kept), m) = InSubtopic(f, m)
<1> DEFINE had(m) == {t \in Texts : f[<<m, t>>] > 0}
           has(m) == {t \in Texts : With(f, {n} \X kept)[<<m, t>>] > 0}
<1>0. \A m \in Names, t \in Texts : <<m, t>> \in Ids /\ f[<<m, t>>] \in Nat
  BY DEF Ids
<1>1. \A m \in Names, t \in Texts :
        With(f, {n} \X kept)[<<m, t>>] = IF m = n /\ t \in kept THEN f[<<m, t>>] + 1 ELSE f[<<m, t>>]
  BY <1>0 DEF With
<1>2. has(n) = had(n) \cup kept /\ had(n) \cap kept = {}
  <2>1. ASSUME NEW t \in Texts
        PROVE  With(f, {n} \X kept)[<<n, t>>] > 0 <=> f[<<n, t>>] > 0 \/ t \in kept
    <3>1. f[<<n, t>>] \in Nat
      BY <1>0
    <3>2. With(f, {n} \X kept)[<<n, t>>] = IF t \in kept THEN f[<<n, t>>] + 1 ELSE f[<<n, t>>]
      BY <1>1
    <3> QED  BY <3>1, <3>2
  <2>2. ASSUME NEW t \in had(n)  PROVE t \notin kept
    BY <1>0
  <2> QED  BY <2>1, <2>2
<1>3. \A m \in Names \ {n} : has(m) = had(m)
  BY <1>1
<1>4. Cardinality(has(n)) = Cardinality(had(n)) + Cardinality(kept)
  <2>1. /\ IsFiniteSet(had(n)) /\ Cardinality(had(n)) \in Nat
        /\ IsFiniteSet(kept) /\ Cardinality(kept) \in Nat
    BY TextsFinite
  <2>2. Cardinality(had(n) \cap kept) = 0
    BY <1>2, FS_EmptySet
  <2> HIDE DEF had, has
  <2>3. Cardinality(had(n) \cup kept)
          = Cardinality(had(n)) + Cardinality(kept) - Cardinality(had(n) \cap kept)
    BY <2>1, FS_Union
  <2> QED  BY <1>2, <2>1, <2>2, <2>3
<1> QED  BY <1>3, <1>4 DEF InSubtopic

\* What an embedding request lets through: new in the topic, and no more of it
\* than the subtopic misses.
LEMMA BatchFits ==
  ASSUME TypeOK, StageInv, DedupInv, CountInv, NEW n \in Names, stage = "questions",
         fills[n].pc = "embedding", NEW kept \in SUBSET fills[n].batch
  PROVE  /\ kept \in SUBSET Texts /\ Cardinality(kept) \in Nat
         /\ fills[n].accepted \in Nat /\ fills[n].accepted = InSubtopic(questions, n)
         /\ fills[n].accepted + Cardinality(kept) <= Target
         /\ InSubtopic(With(questions, {n} \X kept), n) = fills[n].accepted + Cardinality(kept)
         /\ \A m \in Names \ {n} : InSubtopic(With(questions, {n} \X kept), m) = InSubtopic(questions, m)
<1>1. fills[n].batch \in SUBSET Texts /\ fills[n].accepted \in Nat /\ questions \in [Ids -> Nat]
  BY DEF TypeOK, FillType
<1>2. kept \in SUBSET Texts /\ Cardinality(kept) \in Nat /\ Cardinality(fills[n].batch) \in Nat
      /\ Cardinality(kept) <= Cardinality(fills[n].batch)
  BY <1>1, TextsFinite, FS_Subset
<1>3. \A t \in kept : questions[<<n, t>>] = 0
  <2>1. Stored(questions) \cap ({n} \X kept) = {}
    BY BatchIsNew
  <2>2. ASSUME NEW t \in kept  PROVE questions[<<n, t>>] = 0
    <3>1. <<n, t>> \in Ids /\ <<n, t>> \in {n} \X kept
      BY <1>2 DEF Ids
    <3>2. questions[<<n, t>>] \in Nat /\ ~(questions[<<n, t>>] > 0)
      BY <1>1, <2>1, <3>1 DEF Stored
    <3> QED  BY <3>2
  <2> QED  BY <2>2
<1>4. /\ fills[n].accepted = InSubtopic(questions, n)
      /\ Cardinality(fills[n].batch) <= Target - fills[n].accepted
  BY DEF CountInv
<1> QED  BY <1>1, <1>2, <1>3, <1>4, AddedCount, DatasetAssumption

LEMMA CountStep == Inv /\ CountInv /\ [Next]_vars => CountInv'
<1> SUFFICES ASSUME Inv, CountInv, [Next]_vars  PROVE CountInv'
  OBVIOUS
<1>0. /\ TypeOK /\ StageInv /\ DedupInv /\ fills \in [Names -> FillType]
      /\ Target \in Nat /\ Batch \in Nat /\ Patience \in Nat \ {0}
  BY DatasetAssumption DEF Inv, TypeOK
<1>1. CASE stage' # "questions"
  <2>1. \A n \in Names : fills'[n] = NoFill
    BY <1>0, <1>1, StageStep DEF StageInv
  <2> QED  BY <2>1 DEF CountInv, NoFill, Fill
<1>2. CASE Seed
  <2>1. ASSUME NEW n \in Names, fills'[n].pc \notin {"off", "done"}
        PROVE  fills'[n] = Fill("waiting", InSubtopic(questions, n)) /\ InSubtopic(questions, n) < Target
    BY <1>2, <2>1 DEF Seed, Slots, NoFill, Fill
  <2>2. questions' = questions
    BY <1>2 DEF Seed
  <2>3. \A k : /\ Fill("waiting", k).pc = "waiting" /\ Fill("waiting", k).accepted = k
               /\ Fill("waiting", k).stalls = 0
    BY DEF Fill
  <2> QED  BY <1>0, <2>1, <2>2, <2>3 DEF CountInv
<1>3. ASSUME NEW n \in Names, FillStarts(n)  PROVE CountInv'
  BY <1>0, <1>3 DEF FillStarts, CountInv, files, FillType
<1>4. ASSUME NEW n \in Names, Reply(n)  PROVE CountInv'
  <2>1. PICK batch \in SUBSET Texts :
          /\ Cardinality(batch) <= Count(n)
          /\ fills' = [fills EXCEPT ![n].pc = "replied", ![n].batch = batch]
    BY <1>4 DEF Reply
  <2>2. Cardinality(batch) \in Nat /\ questions' = questions /\ fills[n].pc = "asking"
    BY <1>4, <2>1, TextsFinite DEF Reply, files
  <2>3. fills[n].accepted \in Nat /\ fills[n].accepted < Target
    BY <1>0, <2>2 DEF CountInv, FillType
  <2>4. Cardinality(batch) <= Target - fills[n].accepted
    BY <1>0, <2>1, <2>2, <2>3 DEF Count, Left
  <2>5. /\ fills'[n].pc = "replied" /\ fills'[n].batch = batch
        /\ fills'[n].accepted = fills[n].accepted /\ fills'[n].stalls = fills[n].stalls
        /\ \A m \in Names \ {n} : fills'[m] = fills[m]
    BY <1>0, <2>1 DEF FillType
  <2> QED  BY <2>2, <2>4, <2>5 DEF CountInv
<1>5. ASSUME NEW n \in Names, TakeDedup(n)  PROVE CountInv'
  <2>1. /\ fills[n].pc = "replied" /\ questions' = questions
        /\ fills'[n].accepted = fills[n].accepted /\ fills'[n].stalls = fills[n].stalls
        /\ fills'[n].batch = fills[n].batch \ dedup
        /\ \A m \in Names \ {n} : fills'[m] = fills[m]
    BY <1>0, <1>5 DEF TakeDedup, files, FillType
  <2>2. Cardinality(fills'[n].batch) <= Target - fills[n].accepted
    <3>1. fills[n].batch \in SUBSET Texts /\ fills[n].accepted \in Nat
      BY <1>0 DEF FillType
    <3>2. /\ Cardinality(fills[n].batch) \in Nat /\ Cardinality(fills'[n].batch) \in Nat
          /\ Cardinality(fills'[n].batch) <= Cardinality(fills[n].batch)
      BY <2>1, <3>1, TextsFinite, FS_Subset
    <3>3. Cardinality(fills[n].batch) <= Target - fills[n].accepted
      BY <2>1 DEF CountInv
    <3> QED  BY <1>0, <3>1, <3>2, <3>3
  <2> QED  BY <2>1, <2>2 DEF CountInv
<1>6. ASSUME NEW n \in Names, Admit(n)  PROVE CountInv'
  <2>1. PICK kept \in SUBSET fills[n].batch :
          questions' = With(questions, {n} \X kept) /\ fills' = [fills EXCEPT ![n] = Filled(n, kept)]
    BY <1>6 DEF Admit
  <2>2. /\ Cardinality(kept) \in Nat /\ fills[n].accepted \in Nat
        /\ InSubtopic(questions', n) = fills[n].accepted + Cardinality(kept)
        /\ \A m \in Names \ {n} : InSubtopic(questions', m) = InSubtopic(questions, m)
    BY <1>0, <1>6, <2>1, BatchFits DEF Admit
  <2>3. fills'[n] = Filled(n, kept) /\ \A m \in Names \ {n} : fills'[m] = fills[m]
    BY <1>0, <2>1
  <2>4. /\ Filled(n, kept).accepted = fills[n].accepted + Cardinality(kept)
        /\ Filled(n, kept).pc \in {"asking", "done"}
        /\ Filled(n, kept).pc = "asking" =>
             Filled(n, kept).accepted < Target /\ Filled(n, kept).stalls < Patience
    BY DEF Filled
  <2> QED  BY <2>2, <2>3, <2>4 DEF CountInv
<1>7. ASSUME NEW n \in Names, FillFails(n)  PROVE CountInv'
  BY <1>0, <1>7 DEF FillFails, CountInv, files, Fill
<1>8. CASE UNCHANGED vars
  BY <1>8 DEF vars, files, filling, CountInv
<1>9. CASE stage' = "questions" /\ ~UNCHANGED vars
  <2>1. Seed \/ \E n \in Names : FillStarts(n) \/ Reply(n) \/ TakeDedup(n) \/ FillFails(n) \/ Admit(n)
    BY <1>9, EditKeeps
       DEF Next, Start, Work, Fault, SaveNext, SaveStops, StartSubtopics, StartQuestions, StartAnswers,
           AppendSubtopics, SubtopicsCut, QuestionsEnd, AnswersEnd, StageStops, QuestionsCut,
           AnswersCut, StageOver, Ask, Finish, Join, JoinFatal
  <2> QED  BY <1>2, <1>3, <1>4, <1>5, <1>6, <1>7, <2>1
<1> QED  BY <1>1, <1>8, <1>9

LEMMA CountHolds == Spec => []CountInv
<1>1. Init => CountInv
  BY DEF Init, CountInv, NoFill, Fill
<1> QED  BY <1>1, CountStep, InvHolds, PTL DEF Spec

\* The only steps of the questions stage that change the questions write what an
\* embedding request let through.
LEMMA QuestionsWritten ==
  ASSUME Inv, [Next]_vars, stage = "questions", questions' # questions
  PROVE  \E n \in Names : /\ fills[n].pc = "embedding"
                          /\ \E kept \in SUBSET fills[n].batch : questions' = With(questions, {n} \X kept)
<1>1. \E n \in Names : Admit(n) \/ QuestionsCut(n)
  BY EditKeeps
     DEF Next, Start, Work, Fault, SaveNext, SaveStops, StartSubtopics, StartQuestions, StartAnswers,
         AppendSubtopics, SubtopicsCut, QuestionsEnd, AnswersEnd, StageStops, AnswersCut,
         Ask, Finish, Join, JoinFatal, Seed, FillStarts, Reply, TakeDedup, FillFails, files, vars
<1> QED  BY <1>1 DEF Admit, QuestionsCut

\* A reply of too many names is cut to those missing.
LEMMA NamesFit ==
  ASSUME TypeOK, NEW fresh \in SUBSET NewNames, Cardinality(fresh) <= Missing, fresh # {}
  PROVE  Cardinality(Stored(With(subtopics, fresh))) <= Wanted
<1>0. subtopics \in [Names -> Nat] /\ Wanted \in Nat /\ IsFiniteSet(Names)
  BY DatasetAssumption DEF TypeOK
<1>1. Stored(subtopics) \in SUBSET Names /\ fresh \in SUBSET Names /\ Stored(subtopics) \cap fresh = {}
  BY <1>0 DEF NewNames, Stored
<1>2. Stored(With(subtopics, fresh)) = Stored(subtopics) \cup fresh
  BY <1>0, <1>1, StoredWith
<1>3. /\ IsFiniteSet(Stored(subtopics)) /\ Cardinality(Stored(subtopics)) \in Nat
      /\ IsFiniteSet(fresh) /\ Cardinality(fresh) \in Nat
  <2>1. IsFiniteSet(Stored(subtopics)) /\ IsFiniteSet(fresh)
    BY <1>0, <1>1, FS_Subset
  <2> QED  BY <2>1, FS_CardinalityType
<1>4. Cardinality(Stored(subtopics) \cup fresh) = Cardinality(Stored(subtopics)) + Cardinality(fresh)
  <2>1. Cardinality(Stored(subtopics) \cup fresh)
          = Cardinality(Stored(subtopics)) + Cardinality(fresh) - Cardinality(Stored(subtopics) \cap fresh)
    BY <1>3, FS_Union
  <2>2. Cardinality(Stored(subtopics) \cap fresh) = 0
    BY <1>1, FS_EmptySet
  <2> QED  BY <1>3, <2>1, <2>2
<1>5. Cardinality(fresh) # 0
  BY <1>3, FS_EmptySet
<1> QED  BY <1>0, <1>2, <1>3, <1>4, <1>5 DEF Missing, Held

\* A stage resumed any number of times adds nothing past the configured counts.
THEOREM TargetsHold == Spec => WithinTarget
<1>1. Inv /\ CountInv /\ [Next]_vars =>
        [/\ stage = "subtopics" /\ subtopics' # subtopics =>
              Cardinality(Stored(subtopics')) <= Wanted
         /\ stage = "questions" =>
              \A id \in Stored(questions') \ Stored(questions) :
                InSubtopic(questions', id[1]) <= Target]_vars
  <2> SUFFICES ASSUME Inv, CountInv, [Next]_vars
               PROVE  /\ stage = "subtopics" /\ subtopics' # subtopics =>
                           Cardinality(Stored(subtopics')) <= Wanted
                      /\ stage = "questions" =>
                           \A id \in Stored(questions') \ Stored(questions) :
                             InSubtopic(questions', id[1]) <= Target
    OBVIOUS
  <2>0. TypeOK /\ StageInv /\ DedupInv /\ questions \in [Ids -> Nat] /\ subtopics \in [Names -> Nat]
    BY DEF Inv, TypeOK
  <2>1. ASSUME stage = "subtopics", subtopics' # subtopics
        PROVE  Cardinality(Stored(subtopics')) <= Wanted
    <3>1. AppendSubtopics \/ SubtopicsCut
      BY <2>1, EditKeeps
         DEF Next, Start, Work, Fault, SaveNext, SaveStops, StartSubtopics, StartQuestions, StartAnswers,
             QuestionsEnd, AnswersEnd, StageStops, AnswersCut, Admit, QuestionsCut,
             Ask, Finish, Join, JoinFatal, Seed, FillStarts, Reply, TakeDedup, FillFails, files, vars
    <3>2. PICK fresh \in SUBSET NewNames :
            Cardinality(fresh) <= Missing /\ subtopics' = With(subtopics, fresh)
      BY <3>1 DEF AppendSubtopics, SubtopicsCut
    <3>3. fresh # {}
      BY <2>0, <2>1, <3>2 DEF With
    <3> QED  BY <2>0, <3>2, <3>3, NamesFit
  <2>2. ASSUME stage = "questions", NEW id \in Stored(questions') \ Stored(questions)
        PROVE  InSubtopic(questions', id[1]) <= Target
    <3>1. PICK n \in Names : /\ fills[n].pc = "embedding"
                             /\ \E kept \in SUBSET fills[n].batch : questions' = With(questions, {n} \X kept)
      BY <2>2, QuestionsWritten
    <3>2. PICK kept \in SUBSET fills[n].batch : questions' = With(questions, {n} \X kept)
      BY <3>1
    <3>3. id \in {n} \X kept
      BY <2>0, <2>2, <3>2, StoredWith
    <3>4. InSubtopic(questions', n) <= Target
      BY <2>0, <2>2, <3>1, <3>2, BatchFits
    <3> QED  BY <3>3, <3>4
  <2> QED  BY <2>1, <2>2
<1> QED  BY <1>1, InvHolds, CountHolds, PTL DEF WithinTarget, Spec

\* What a stage adds is new in its topic and within its target.
THEOREM StagesAddWhatIsWanted == Spec => StageAdds
BY QuestionsAreNew, TargetsHold DEF StageAdds

\* A fill under way is some steps from its end.
LEMMA RankIs ==
  ASSUME NEW f \in FillType, f.accepted < Target, f.stalls < Patience
  PROVE  /\ (Target - f.accepted) * (Patience + 1) + (Patience - f.stalls) \in Nat
         /\ f.pc \notin {"off", "done"} => FillRank(f) \in Nat /\ FillRank(f) > 0
         /\ f.pc = "waiting" => FillRank(f) =
              4 * ((Target - f.accepted) * (Patience + 1) + (Patience - f.stalls)) + 4
         /\ f.pc = "asking" => FillRank(f) =
              4 * ((Target - f.accepted) * (Patience + 1) + (Patience - f.stalls)) + 3
         /\ f.pc = "replied" => FillRank(f) =
              4 * ((Target - f.accepted) * (Patience + 1) + (Patience - f.stalls)) + 2
         /\ f.pc = "embedding" => FillRank(f) =
              4 * ((Target - f.accepted) * (Patience + 1) + (Patience - f.stalls)) + 1
<1> DEFINE far == (Target - f.accepted) * (Patience + 1) + (Patience - f.stalls)
<1>1. far \in Nat
  <2>1. f.accepted \in Nat /\ f.stalls \in Nat /\ Target \in Nat /\ Patience \in Nat
    BY DatasetAssumption DEF FillType
  <2>2. Target - f.accepted \in Nat /\ Patience - f.stalls \in Nat /\ Patience + 1 \in Nat
    BY <2>1
  <2>3. (Target - f.accepted) * (Patience + 1) \in Nat
    BY <2>2
  <2> QED  BY <2>2, <2>3
<1>2. FillRank(f) = IF f.pc \in {"off", "done"} THEN 0
                    ELSE 4 * far + CASE f.pc = "waiting" -> 4 [] f.pc = "asking" -> 3
                                     [] f.pc = "replied" -> 2 [] f.pc = "embedding" -> 1
  BY DEF FillRank
<1>3. f.pc \in {"off", "waiting", "asking", "replied", "embedding", "done"}
  BY DEF FillType
<1> HIDE DEF far
<1> SUFFICES /\ far \in Nat
             /\ f.pc \notin {"off", "done"} => FillRank(f) \in Nat /\ FillRank(f) > 0
             /\ f.pc = "waiting" => FillRank(f) = 4 * far + 4
             /\ f.pc = "asking" => FillRank(f) = 4 * far + 3
             /\ f.pc = "replied" => FillRank(f) = 4 * far + 2
             /\ f.pc = "embedding" => FillRank(f) = 4 * far + 1
  BY DEF far
<1> QED  BY <1>1, <1>2, <1>3

\* A batch that brings something new resets the stalls, and yet ends nearer.
LEMMA RankFalls ==
  ASSUME NEW T \in Nat, NEW a \in Nat, NEW k \in Nat \ {0}, NEW P \in Nat, NEW s \in Nat,
         a + k < T, s < P
  PROVE  4 * ((T - (a + k)) * (P + 1) + P) + 3 < 4 * ((T - a) * (P + 1) + (P - s)) + 1
<1> DEFINE d == T - (a + k)
           x == d * (P + 1)
           y == k * (P + 1)
<1>1. d \in Nat /\ T - a = d + k
  OBVIOUS
<1>2. x \in Nat /\ y \in Nat
  BY <1>1
<1>3. (T - a) * (P + 1) = x + y
  <2>1. (d + k) * (P + 1) = d * (P + 1) + k * (P + 1)
    BY <1>1
  <2> QED  BY <1>1, <2>1
<1>4. y >= P + 1
  OBVIOUS
<1> HIDE DEF x, y
<1>5. 4 * (x + P) + 3 < 4 * ((x + y) + (P - s)) + 1
  BY <1>2, <1>4
<1> QED  BY <1>3, <1>5 DEF x

\* Every step of a fill is one nearer to its end.
LEMMA FillAdvances ==
  ASSUME Inv, CountInv, NEW n \in Names,
         FillStarts(n) \/ Reply(n) \/ TakeDedup(n) \/ Admit(n) \/ FillFails(n)
  PROVE  /\ FillRank(fills'[n]) < FillRank(fills[n])
         /\ \A m \in Names \ {n} : fills'[m] = fills[m]
<1>0. /\ TypeOK /\ StageInv /\ DedupInv /\ fills \in [Names -> FillType]
      /\ Target \in Nat /\ Patience \in Nat \ {0}
  BY DatasetAssumption DEF Inv, TypeOK
<1>1. \A m \in Names \ {n} : fills'[m] = fills[m]
  BY <1>0 DEF FillStarts, Reply, TakeDedup, Admit, FillFails
<1>2. /\ stage = "questions" /\ fills[n].pc \notin {"off", "done"}
      /\ fills[n] \in FillType /\ fills[n].accepted < Target /\ fills[n].stalls < Patience
      /\ fills[n].accepted \in Nat /\ fills[n].stalls \in Nat
  <2>1. stage = "questions" /\ fills[n].pc \notin {"off", "done"}
    BY DEF FillStarts, Reply, TakeDedup, Admit, FillFails
  <2>2. fills[n] \in FillType /\ fills[n].accepted \in Nat /\ fills[n].stalls \in Nat
    BY <1>0 DEF FillType
  <2> QED  BY <2>1, <2>2 DEF CountInv
<1> DEFINE far == (Target - fills[n].accepted) * (Patience + 1) + (Patience - fills[n].stalls)
<1>3. far \in Nat
  BY <1>2, RankIs
<1>4. CASE FillStarts(n) \/ Reply(n) \/ TakeDedup(n)
  <2>1. /\ fills'[n] \in FillType /\ fills'[n].accepted = fills[n].accepted
        /\ fills'[n].stalls = fills[n].stalls
        /\ \/ fills[n].pc = "waiting" /\ fills'[n].pc = "asking"
           \/ fills[n].pc = "asking" /\ fills'[n].pc = "replied"
           \/ fills[n].pc = "replied" /\ fills'[n].pc = "embedding"
    BY <1>0, <1>4 DEF FillStarts, Reply, TakeDedup, FillType
  <2>2. /\ fills[n].pc = "waiting" => FillRank(fills[n]) = 4 * far + 4
        /\ fills[n].pc = "asking" => FillRank(fills[n]) = 4 * far + 3
        /\ fills[n].pc = "replied" => FillRank(fills[n]) = 4 * far + 2
    BY <1>2, RankIs
  <2>3. /\ fills'[n].pc = "asking" => FillRank(fills'[n]) = 4 * far + 3
        /\ fills'[n].pc = "replied" => FillRank(fills'[n]) = 4 * far + 2
        /\ fills'[n].pc = "embedding" => FillRank(fills'[n]) = 4 * far + 1
    BY <1>2, <2>1, RankIs
  <2> HIDE DEF far
  <2> QED  BY <1>1, <1>3, <2>1, <2>2, <2>3
<1>5. CASE Admit(n)
  <2>1. PICK kept \in SUBSET fills[n].batch : fills'[n] = Filled(n, kept)
    BY <1>0, <1>5 DEF Admit
  <2>2. Cardinality(kept) \in Nat /\ kept \in SUBSET Texts /\ fills[n].pc = "embedding"
    BY <1>0, <1>2, <1>5, BatchFits DEF Admit
  <2>3. FillRank(fills[n]) = 4 * far + 1
    BY <1>2, <2>2, RankIs
  <2>4. CASE fills'[n].pc = "done"
    <3>1. FillRank(fills'[n]) = 0
      BY <2>4 DEF FillRank
    <3> HIDE DEF far
    <3> QED  BY <1>1, <1>3, <2>3, <3>1
  <2>5. CASE fills'[n].pc # "done"
    <3> DEFINE k == Cardinality(kept)
               stalls == IF kept = {} THEN fills[n].stalls + 1 ELSE 0
    <3>1. /\ fills'[n].pc = "asking" /\ fills'[n].accepted = fills[n].accepted + k
          /\ fills'[n].stalls = stalls /\ fills'[n].accepted < Target /\ fills'[n].stalls < Patience
      BY <2>1, <2>5 DEF Filled
    <3>2. fills'[n] \in FillType
      BY <1>0, <2>1, <2>2, FilledType
    <3>3. FillRank(fills'[n]) =
            4 * ((Target - fills'[n].accepted) * (Patience + 1) + (Patience - fills'[n].stalls)) + 3
      BY <3>1, <3>2, RankIs
    <3>4. CASE kept = {}
      <4>1. k = 0
        BY <3>4, FS_EmptySet
      <4>2. fills'[n].accepted = fills[n].accepted /\ fills'[n].stalls = fills[n].stalls + 1
        BY <1>2, <3>1, <3>4, <4>1
      <4>3. FillRank(fills'[n]) =
              4 * ((Target - fills[n].accepted) * (Patience + 1) + (Patience - (fills[n].stalls + 1))) + 3
        BY <3>3, <4>2
      <4>4. (Target - fills[n].accepted) * (Patience + 1) \in Nat
        BY <1>0, <1>2
      <4> QED  BY <1>0, <1>1, <1>2, <2>3, <4>3, <4>4
    <3>5. CASE kept # {}
      <4>1. k \in Nat \ {0}
        BY <2>2, <3>5, FS_EmptySet, TextsFinite
      <4>2. fills'[n].accepted = fills[n].accepted + k /\ fills'[n].stalls = 0
        BY <3>1, <3>5
      <4>3. FillRank(fills'[n]) =
              4 * ((Target - (fills[n].accepted + k)) * (Patience + 1) + Patience) + 3
        BY <1>0, <3>3, <4>2
      <4>4. fills[n].accepted + k < Target
        BY <3>1, <4>2
      <4> HIDE DEF k
      <4>5. 4 * ((Target - (fills[n].accepted + k)) * (Patience + 1) + Patience) + 3 < 4 * far + 1
        BY <1>0, <1>2, <4>1, <4>4, RankFalls
      <4> QED  BY <1>1, <2>3, <4>3, <4>5
    <3> QED  BY <3>4, <3>5
  <2> QED  BY <2>4, <2>5
<1>6. CASE FillFails(n)
  <2>1. fills'[n].pc = "done"
    BY <1>0, <1>6 DEF FillFails, Fill
  <2>2. FillRank(fills'[n]) = 0
    BY <2>1 DEF FillRank
  <2>3. FillRank(fills[n]) \in Nat /\ FillRank(fills[n]) > 0
    BY <1>2, RankIs
  <2> QED  BY <1>1, <2>2, <2>3
<1> QED  BY <1>4, <1>5, <1>6

\* Every step of the answers brings a request nearer to its end.
LEMMA AskAdvances ==
  ASSUME Inv, NEW id \in Ids, Ask(id) \/ Finish(id) \/ Join(id) \/ JoinFatal(id)
  PROVE  /\ AskRank(asks'[id]) < AskRank(asks[id])
         /\ \A x \in Ids : AskRank(asks'[x]) <= AskRank(asks[x])
<1>0. asks \in [Ids -> {"none", "queued", "asking", "finished", "fatal"}]
  BY DEF Inv, TypeOK
<1>1. /\ AskRank("queued") = 3 /\ AskRank("asking") = 2 /\ AskRank("none") = 0
      /\ AskRank("finished") = 1 /\ AskRank("fatal") = 1
  BY DEF AskRank
<1>2. \A x \in Ids : AskRank(asks[x]) \in Nat
  BY <1>0, <1>1
<1>3. CASE Ask(id) \/ Finish(id) \/ Join(id)
  <2>1. \A x \in Ids \ {id} : asks'[x] = asks[x]
    BY <1>0, <1>3 DEF Ask, Finish, Join
  <2>2. \/ asks[id] = "queued" /\ asks'[id] = "asking"
        \/ asks[id] = "asking" /\ asks'[id] \in {"finished", "none", "fatal"}
        \/ asks[id] = "finished" /\ asks'[id] = "none"
    BY <1>0, <1>3 DEF Ask, Finish, Join
  <2>3. AskRank(asks'[id]) < AskRank(asks[id])
    BY <1>1, <2>2
  <2>4. AskRank(asks'[id]) <= AskRank(asks[id])
    BY <1>1, <2>2
  <2>5. \A x \in Ids \ {id} : AskRank(asks'[x]) <= AskRank(asks[x])
    BY <1>2, <2>1
  <2> QED  BY <2>3, <2>4, <2>5
<1>4. CASE JoinFatal(id)
  <2>1. PICK late \in SUBSET InFlight : asks' = Aborted(late)
    BY <1>4 DEF JoinFatal
  <2>2. asks[id] = "fatal" /\ asks'[id] = "none"
    BY <1>4, <2>1 DEF JoinFatal, Aborted, InFlight
  <2>3. ASSUME NEW x \in Ids  PROVE AskRank(asks'[x]) <= AskRank(asks[x])
    <3>1. \/ asks'[x] = "none"
          \/ asks'[x] = "finished" /\ asks[x] \in {"finished", "asking"}
      BY <2>1 DEF Aborted, InFlight
    <3> QED  BY <1>1, <1>2, <3>1
  <2> QED  BY <1>1, <2>2, <2>3
<1> QED  BY <1>3, <1>4

\* No stage runs for ever: each of its steps brings one fill or request nearer
\* to its end and none further from it.
THEOREM StagesAdvance == Spec => StageAdvances
<1>1. Inv /\ CountInv /\ [Next]_vars =>
        [/\ stage = "questions" /\ stage' = "questions" =>
              /\ \A n \in Names : FillRank(fills'[n]) <= FillRank(fills[n])
              /\ \E n \in Names : FillRank(fills'[n]) < FillRank(fills[n])
         /\ stage \in {"answers", "stopping"} /\ stage' # "idle" =>
              /\ \A id \in Ids : AskRank(asks'[id]) <= AskRank(asks[id])
              /\ \E id \in Ids : AskRank(asks'[id]) < AskRank(asks[id])]_vars
  <2> SUFFICES ASSUME Inv, CountInv, Next
               PROVE  /\ stage = "questions" /\ stage' = "questions" =>
                           /\ \A n \in Names : FillRank(fills'[n]) <= FillRank(fills[n])
                           /\ \E n \in Names : FillRank(fills'[n]) < FillRank(fills[n])
                      /\ stage \in {"answers", "stopping"} /\ stage' # "idle" =>
                           /\ \A id \in Ids : AskRank(asks'[id]) <= AskRank(asks[id])
                           /\ \E id \in Ids : AskRank(asks'[id]) < AskRank(asks[id])
    OBVIOUS
  <2>1. ASSUME stage = "questions", stage' = "questions"
        PROVE  /\ \A n \in Names : FillRank(fills'[n]) <= FillRank(fills[n])
               /\ \E n \in Names : FillRank(fills'[n]) < FillRank(fills[n])
    <3>1. PICK n \in Names : FillStarts(n) \/ Reply(n) \/ TakeDedup(n) \/ FillFails(n) \/ Admit(n)
      BY <2>1, EditKeeps
         DEF Next, Start, Work, Fault, SaveNext, SaveStops, StartSubtopics, StartQuestions, StartAnswers,
             AppendSubtopics, SubtopicsCut, QuestionsEnd, AnswersEnd, StageStops, QuestionsCut, Seed,
             AnswersCut, StageOver, Ask, Finish, Join, JoinFatal
    <3>2. /\ FillRank(fills'[n]) < FillRank(fills[n])
          /\ \A m \in Names \ {n} : fills'[m] = fills[m]
      BY <3>1, FillAdvances
    <3>3. \A m \in Names : FillRank(fills[m]) \in Nat
      <4>1. ASSUME NEW m \in Names  PROVE FillRank(fills[m]) \in Nat
        <5>1. fills[m] \in FillType
          BY DEF Inv, TypeOK
        <5>2. CASE fills[m].pc \in {"off", "done"}
          BY <5>2 DEF FillRank
        <5>3. CASE fills[m].pc \notin {"off", "done"}
          BY <5>1, <5>3, RankIs DEF CountInv
        <5> QED  BY <5>2, <5>3
      <4> QED  BY <4>1
    <3>4. FillRank(fills'[n]) <= FillRank(fills[n])
      <4>1. FillRank(fills'[n]) \in Nat
        <5>1. fills'[n] \in FillType /\ CountInv'
          BY CountStep, TypeStep DEF Inv, TypeOK
        <5>2. CASE fills'[n].pc \in {"off", "done"}
          BY <5>2 DEF FillRank
        <5>3. CASE fills'[n].pc \notin {"off", "done"}
          BY <5>1, <5>3, RankIs DEF CountInv
        <5> QED  BY <5>2, <5>3
      <4> QED  BY <3>2, <3>3, <4>1
    <3>5. \A m \in Names \ {n} : FillRank(fills'[m]) <= FillRank(fills[m])
      BY <3>2, <3>3
    <3> QED  BY <3>2, <3>4, <3>5
  <2>2. ASSUME stage \in {"answers", "stopping"}, stage' # "idle"
        PROVE  /\ \A id \in Ids : AskRank(asks'[id]) <= AskRank(asks[id])
               /\ \E id \in Ids : AskRank(asks'[id]) < AskRank(asks[id])
    <3>1. PICK id \in Ids : Ask(id) \/ Finish(id) \/ Join(id) \/ JoinFatal(id)
      BY <2>2, EditKeeps
         DEF Next, Start, Work, Fault, SaveNext, SaveStops, StartSubtopics, StartQuestions, StartAnswers,
             AppendSubtopics, SubtopicsCut, QuestionsEnd, AnswersEnd, StageStops, QuestionsCut, Seed,
             AnswersCut, StageOver, FillStarts, Reply, TakeDedup, FillFails, Admit
    <3> QED  BY <3>1, AskAdvances
  <2> QED  BY <2>1, <2>2
<1> QED  BY <1>1, InvHolds, CountHolds, PTL DEF StageAdvances, Spec

------------------------------------------------------------------------------
(* No stage hangs *)

\* What the guards of the steps of an edit or a stage ask: a write left, a fill or
\* a request that waits for nothing, or none that is left.
CanGoOn ==
  \/ stage = "saving" /\ plan.todo # <<>>
  \/ stage \in {"subtopics", "seeding"}
  \/ /\ stage = "questions"
     /\ \/ \A n \in Names : fills[n].pc \in {"off", "done"}
        \/ \E n \in Names :
             \/ fills[n].pc \in {"asking", "embedding"}
             \/ fills[n].pc = "replied" /\ lock = None
             \/ fills[n].pc = "waiting" /\ Cardinality(Running) < Concurrency
  \/ /\ stage = "answers"
     /\ \/ \A id \in Ids : asks[id] = "none"
        \/ \E id \in Ids :
             \/ asks[id] \in {"asking", "finished", "fatal"}
             \/ asks[id] = "queued" /\ Cardinality(InFlight) < Concurrency
  \/ /\ stage = "stopping"
     /\ \/ \A id \in Ids : asks[id] = "none"
        \/ \E id \in Ids : asks[id] = "finished"

LEMMA BeginLeaves ==
  ASSUME NEW todo \in Seq(Writes), NEW subs, NEW quests, NEW answs, NEW rejects, NEW lost,
         NEW f \in Writes, Written(f, todo), Begin(Plan(todo, subs, quests, answs, rejects, lost))
  PROVE  plan'.todo # <<>>
<1>1. plan'.todo = todo
  BY BeginFields
<1>2. Len(todo) # 0
  BY DEF Written
<1>3. Len(<<>>) = 0
  OBVIOUS
<1> QED  BY <1>1, <1>2, <1>3

LEMMA DeletionLeaves ==
  ASSUME NEW names, NEW ids, NEW others, NEW record \in BOOLEAN, Delete(names, ids, others, record),
         names # {} \/ ids # {} \/ Stored(answers) \cap (ids \cup others) # {}
  PROVE  plan'.todo # <<>>
<1> DEFINE doomed == Stored(answers) \cap (ids \cup others)
           todo == DeletionWrites(names, ids, doomed, record)
<1>1. \E subs, quests, answs, rejects, lost : Begin(Plan(todo, subs, quests, answs, rejects, lost))
  BY DEF Delete
<1>2. todo \in Seq(Writes)
  <2>1. /\ When(record, "append") \in Seq(Writes)
        /\ When(names # {}, "subtopics") \in Seq(Writes)
        /\ When(ids # {}, "questions") \in Seq(Writes)
        /\ When(doomed # {}, "answers") \in Seq(Writes)
    BY WhenType DEF Writes, Files
  <2> QED  BY <2>1 DEF DeletionWrites
<1>3. \E f \in Writes : Written(f, todo)
  BY DeletionWritten DEF Writes, Files
<1> HIDE DEF todo
<1> QED  BY <1>1, <1>2, <1>3, BeginLeaves

LEMMA EditLeaves ==
  ASSUME TypeOK, Edit
  PROVE  plan'.todo # <<>>
<1>1. ASSUME NEW n \in Names, NEW t \in Texts, NEW u \in Texts, EditQuestion(n, t, u)
      PROVE  plan'.todo # <<>>
  <2> DEFINE first == <<"questions">>
             more == When(answers[<<n, t>>] > 0, "answers")
  <2>1. \E subs, quests, answs, rejects, lost :
          Begin(Plan(first \o more, subs, quests, answs, rejects, lost))
    BY <1>1 DEF EditQuestion
  <2>2. more \in Seq(Writes) /\ first \in Seq(Writes) /\ "questions" \in Writes
    BY WhenType DEF Writes, Files
  <2>3. Written("questions", first)
    BY DEF Written
  <2> HIDE DEF first, more
  <2>4. first \o more \in Seq(Writes) /\ Written("questions", first \o more)
    BY <2>2, <2>3, WrittenConcat
  <2> QED  BY <2>1, <2>2, <2>4, BeginLeaves
<1>2. ASSUME NEW id \in Ids, EditAnswer(id)  PROVE plan'.todo # <<>>
  <2>1. <<"answers">> \in Seq(Writes) /\ Written("answers", <<"answers">>) /\ "answers" \in Writes
    BY DEF Written, Writes, Files
  <2> QED  BY <1>2, <2>1, BeginLeaves DEF EditAnswer
<1>3. ASSUME NEW n \in Names, NEW m \in Names, RenameSubtopic(n, m)  PROVE plan'.todo # <<>>
  <2> DEFINE recorded == {id \in rejected.ids : id[1] = n}
             first == When(recorded # {}, "rejected")
             all == <<"subtopics", "questions", "answers">>
  <2>1. \/ \E subs, quests, answs, rejects, lost : Begin(Plan(all, subs, quests, answs, rejects, lost))
        \/ \E subs, quests, answs, rejects, lost :
             Begin(Plan(first \o all, subs, quests, answs, rejects, lost))
    BY <1>3 DEF RenameSubtopic
  <2>2. all \in Seq(Writes) /\ first \in Seq(Writes) /\ "subtopics" \in Writes
    BY WhenType DEF Writes, Files
  <2>3. Written("subtopics", all)
    <3>1. 1 \in 1..Len(all) /\ all[1] = "subtopics"
      OBVIOUS
    <3> QED  BY <3>1 DEF Written
  <2> HIDE DEF first, all
  <2>4. first \o all \in Seq(Writes) /\ Written("subtopics", first \o all)
    BY <2>2, <2>3, WrittenConcat
  <2> QED  BY <2>1, <2>2, <2>3, <2>4, BeginLeaves
<1>4. ASSUME NEW n \in Names, DeleteSubtopic(n)  PROVE plan'.todo # <<>>
  <2>1. Delete({n}, {id \in Stored(questions) : id[1] = n}, {}, TRUE) /\ {n} # {}
    BY <1>4 DEF DeleteSubtopic
  <2> QED  BY <2>1, DeletionLeaves
<1>5. ASSUME NEW id \in Ids, DeleteQuestion(id)  PROVE plan'.todo # <<>>
  <2>1. Delete({}, {id}, {}, TRUE) /\ {id} # {}
    BY <1>5 DEF DeleteQuestion
  <2> QED  BY <2>1, DeletionLeaves
<1>6. ASSUME NEW id \in Ids, DeleteAnswer(id)  PROVE plan'.todo # <<>>
  <2>1. Delete({}, {}, {id}, FALSE) /\ id \in Stored(answers) \cap ({} \cup {id})
    BY <1>6 DEF DeleteAnswer, TypeOK, Stored
  <2> QED  BY <2>1, DeletionLeaves
<1>7. ASSUME DeleteMissing  PROVE plan'.todo # <<>>
  BY <1>7, DeletionLeaves DEF DeleteMissing
<1> QED  BY <1>1, <1>2, <1>3, <1>4, <1>5, <1>6, <1>7 DEF Edit

LEMMA LeftStep == Inv /\ LeftInv /\ [Next]_vars => LeftInv'
<1> SUFFICES ASSUME Inv, LeftInv, [Next]_vars  PROVE LeftInv'
  OBVIOUS
<1>0. TypeOK /\ StageInv /\ asks \in [Ids -> {"none", "queued", "asking", "finished", "fatal"}]
      /\ plan.todo \in Seq(Writes)
  BY DEF Inv, TypeOK, PlanType, Writes
<1>1. CASE Edit
  BY <1>0, <1>1, EditLeaves, EditKeeps DEF LeftInv
<1>2. CASE SaveNext
  BY <1>0, <1>2 DEF SaveNext, LeftInv, TypeOK, PlanType
<1>3. ASSUME NEW id \in Ids, JoinFatal(id)  PROVE LeftInv'
  BY <1>3 DEF JoinFatal, Aborted, LeftInv
<1>4. ASSUME NEW id \in Ids, Join(id)  PROVE LeftInv'
  BY <1>0, <1>4 DEF Join, LeftInv
<1>5. ASSUME stage' \notin {"saving", "stopping"}  PROVE LeftInv'
  BY <1>5 DEF LeftInv
<1>6. CASE UNCHANGED vars
  BY <1>6 DEF vars, LeftInv
<1>7. Edit \/ SaveNext \/ (\E id \in Ids : JoinFatal(id) \/ Join(id))
        \/ stage' \notin {"saving", "stopping"} \/ UNCHANGED vars
  BY DEF Next, Start, Work, Fault, SaveStops, StartSubtopics, StartQuestions, StartAnswers,
         AppendSubtopics, SubtopicsCut, QuestionsEnd, AnswersEnd, StageStops, AnswersCut, StageOver,
         Ask, Finish, Seed, FillStarts, Reply, TakeDedup, FillFails, Admit, QuestionsCut
<1> QED  BY <1>1, <1>2, <1>3, <1>4, <1>5, <1>6, <1>7

\* No stage and no edit hangs: until its end some fill or request waits for
\* nothing, neither for a slot, nor for the deduplicator, nor for another's end.
THEOREM StagesNeverHang == Spec => [](stage # "idle" => CanGoOn)
<1>1. Init => LeftInv
  BY DEF Init, LeftInv
<1>2. Inv /\ LeftInv => (stage # "idle" => CanGoOn)
  <2> SUFFICES ASSUME Inv, LeftInv, stage # "idle"  PROVE CanGoOn
    OBVIOUS
  <2>0. /\ fills \in [Names -> FillType] /\ lock \in Names \cup {None}
        /\ asks \in [Ids -> {"none", "queued", "asking", "finished", "fatal"}]
        /\ stage \in {"saving", "subtopics", "seeding", "questions", "answers", "stopping"}
        /\ StageInv /\ Concurrency \in Nat \ {0}
    BY DatasetAssumption DEF Inv, TypeOK
  <2>1. CASE stage = "questions"
    <3>1. CASE \E n \in Names : fills[n].pc \in {"asking", "embedding"}
      BY <2>1, <3>1 DEF CanGoOn
    <3>2. CASE ~\E n \in Names : fills[n].pc \in {"asking", "embedding"}
      <4>1. lock = None
        BY <2>0, <3>2 DEF StageInv
      <4>2. CASE \E n \in Names : fills[n].pc = "replied"
        BY <2>1, <4>1, <4>2 DEF CanGoOn
      <4>3. CASE ~\E n \in Names : fills[n].pc = "replied"
        <5>1. Running = {}
          BY <3>2, <4>3 DEF Running
        <5>2. Cardinality(Running) < Concurrency
          BY <2>0, <5>1, FS_EmptySet
        <5>3. \A n \in Names : fills[n].pc \in {"off", "waiting", "done"}
          BY <2>0, <3>2, <4>3 DEF FillType
        <5> QED  BY <2>1, <5>2, <5>3 DEF CanGoOn
      <4> QED  BY <4>2, <4>3
    <3> QED  BY <3>1, <3>2
  <2>2. CASE stage = "answers"
    <3>1. CASE \E id \in Ids : asks[id] \in {"asking", "finished", "fatal"}
      BY <2>2, <3>1 DEF CanGoOn
    <3>2. CASE ~\E id \in Ids : asks[id] \in {"asking", "finished", "fatal"}
      <4>1. InFlight = {}
        BY <3>2 DEF InFlight
      <4>2. Cardinality(InFlight) < Concurrency
        BY <2>0, <4>1, FS_EmptySet
      <4>3. \A id \in Ids : asks[id] \in {"none", "queued"}
        BY <2>0, <3>2
      <4> QED  BY <2>2, <4>2, <4>3 DEF CanGoOn
    <3> QED  BY <3>1, <3>2
  <2>3. CASE stage = "stopping"
    BY <2>3 DEF CanGoOn, LeftInv
  <2>4. CASE stage \in {"saving", "subtopics", "seeding"}
    BY <2>4 DEF CanGoOn, LeftInv
  <2> QED  BY <2>0, <2>1, <2>2, <2>3, <2>4
<1> QED  BY <1>1, <1>2, LeftStep, InvHolds, PTL DEF Spec

=============================================================================
