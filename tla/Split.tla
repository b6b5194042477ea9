-------------------------------- MODULE Split --------------------------------
(***************************************************************************)
(* The split (src/pipeline/split.rs): data/train.jsonl and                 *)
(* data/eval.jsonl written from the usable examples of data/answers.jsonl, *)
(* and the copy of them a training takes (src/train/axolotl.rs).           *)
(*                                                                         *)
(* The eval set is spread over the topics and then over the subtopics of   *)
(* each by largest remainder; within a subtopic the first examples in the  *)
(* order of a seeded hash go to eval.  The two files are replaced one      *)
(* after the other, so a crash may leave them of two splits.  The project  *)
(* lock keeps every other writer out while a split runs.                   *)
(***************************************************************************)
EXTENDS Integers, FiniteSets, FiniteSetsExt

CONSTANTS
  Example,       \* the IDs answers.jsonl may hold
  topic,         \* the topic of each
  subtopic,      \* the subtopic of each
  Ratio,         \* what eval_ratio may be, as <<numerator, denominator>>
  hash, hash_id, \* what names and IDs are sorted by: the XXH3-64 of each with
                 \* the seed, then the name or the ID itself, as a number
  MaxChanges     \* bound: how often the dataset changes

\* A sort key ends in the name or the ID itself: no two share one.
ASSUME ExampleAssumption ==
  /\ IsFiniteSet(Example)
  /\ topic \in [Example -> DOMAIN hash] /\ subtopic \in [Example -> DOMAIN hash]
  /\ hash \in [DOMAIN hash -> Int] /\ IsInjective(hash)
  /\ hash_id \in [Example -> Int] /\ IsInjective(hash_id)

ASSUME RatioAssumption ==
  \A r \in Ratio : r \in (Nat \ {0}) \X Nat /\ r[1] < r[2]

ASSUME ChangesAssumption == MaxChanges \in Nat

VARIABLES
  class,    \* what answers.jsonl, questions.jsonl and the topics say of each
  ratio,    \* eval_ratio
  changes,  \* how often these changed
  train,    \* the examples of data/train.jsonl
  eval,     \* the examples of data/eval.jsonl
  trained,  \* those of train.jsonl in the run directory, none before a run
  pc,       \* what the process holding the project lock does
  stale,    \* for the properties: the dataset changed since the last split
  cut       \* for the properties: the last split stopped between its files

splitVars == <<class, ratio, changes, train, eval, stale, cut>>
splitAll == <<splitVars, trained, pc>>

\* SplitClass, and an ID that answers.jsonl does not hold.
SplitClass == {"absent", "orphaned", "excluded", "usable"}

Usable == {e \in Example : class[e] = "usable"}

SplitTypeOK ==
  /\ class \in [Example -> SplitClass] /\ ratio \in Ratio
  /\ changes \in 0 .. MaxChanges
  /\ train \in SUBSET Example /\ eval \in SUBSET Example
  /\ trained \in SUBSET Example
  /\ stale \in BOOLEAN /\ cut \in BOOLEAN

\* Any dataset, never split.
SplitInit ==
  /\ class \in [Example -> {"absent", "usable"}] /\ ratio \in Ratio
  /\ changes = 0
  /\ train = {} /\ eval = {} /\ trained = {}
  /\ stale = TRUE /\ cut = FALSE /\ pc = "idle"

-----------------------------------------------------------------------------
(* The algorithm. *)

\* f64::round of count * ratio.
Rounded(count, r) == (2 * count * r[1] + r[2]) \div (2 * r[2])

\* The steps where the rounded share goes up, kept to 1 .. total - 1.
eval_size(total, r) ==
  LET steps ==
        Cardinality({i \in 0 .. total - 1 : Rounded(i + 1, r) > Rounded(i, r)})
  IN  CASE total < 2 -> 0
        [] total >= 2 /\ steps < 1 -> 1
        [] total >= 2 /\ steps > total - 1 -> total - 1
        [] OTHER -> steps

\* Mutant: every group gets the floor of its share, and no more.
allocate_Floor(size, eval_total) ==
  [g \in DOMAIN size |-> (size[g] * eval_total) \div SumFunction(size)]

\* Largest remainder, ties broken by the hash of the name, then by the name.
allocate(size, eval_total) ==
  LET groups == DOMAIN size
      total == SumFunction(size)
      share == [g \in groups |-> (size[g] * eval_total) \div total]
      remainder(g) == (size[g] * eval_total) % total
      first(g) == {h \in groups : \/ remainder(h) > remainder(g)
                                  \/ /\ remainder(h) = remainder(g)
                                     /\ hash[h] < hash[g]}
      left == eval_total - SumFunction(share)
  IN  [g \in groups |->
         share[g] + IF Cardinality(first(g)) < left THEN 1 ELSE 0]

\* The first quota examples of a group, in hash order.
pick(group, quota) ==
  {e \in group : Cardinality({f \in group : hash_id[f] < hash_id[e]}) < quota}

\* The sizes of the groups of S by name.
Sizes(S, name) ==
  [g \in {name[e] : e \in S} |-> Cardinality({e \in S : name[e] = g})]

\* The examples of S that go to eval.
stratify(S, r) ==
  LET quota == allocate(Sizes(S, topic), eval_size(Cardinality(S), r))
      inTopic(t) == {e \in S : topic[e] = t}
      quotas(t) == allocate(Sizes(inTopic(t), subtopic), quota[t])
  IN  UNION {pick({e \in inTopic(topic[x]) : subtopic[e] = subtopic[x]},
                  quotas(topic[x])[subtopic[x]]) : x \in S}

-----------------------------------------------------------------------------
(* The stage, and the training that reads what it wrote. *)

\* A stage, an edit of the dataset or of the configuration.
Change ==
  /\ pc = "idle" /\ changes < MaxChanges
  /\ \/ \E e \in Example, c \in SplitClass :
          class' = [class EXCEPT ![e] = c] /\ UNCHANGED ratio
     \/ ratio' \in Ratio /\ UNCHANGED class
  /\ changes' = changes + 1 /\ stale' = TRUE
  /\ UNCHANGED <<train, eval, trained, pc, cut>>

\* split, as far as the first file.
SplitTrain ==
  /\ pc = "idle" /\ pc' = "split"
  /\ train' = Usable \ stratify(Usable, ratio)
  /\ UNCHANGED <<class, ratio, changes, eval, trained, stale, cut>>

\* Mutant: an empty eval set leaves the file of the last split.
SplitEval_Kept ==
  /\ pc = "split" /\ pc' = "idle"
  /\ eval' = IF stratify(Usable, ratio) = {}
             THEN eval ELSE stratify(Usable, ratio)
  /\ stale' = FALSE /\ cut' = FALSE
  /\ UNCHANGED <<class, ratio, changes, train, trained>>

SplitEval ==
  /\ pc = "split" /\ pc' = "idle"
  /\ eval' = stratify(Usable, ratio)
  /\ stale' = FALSE /\ cut' = FALSE
  /\ UNCHANGED <<class, ratio, changes, train, trained>>

\* The second file cannot be written, or a crash between the two.
SplitCut ==
  /\ pc = "split" /\ pc' = "idle"
  /\ cut' = TRUE
  /\ UNCHANGED <<class, ratio, changes, train, eval, trained, stale>>

\* Axolotl::prepare: the run trains on a copy, and not without an example. One
\* run is modelled; a resumed one trains on the copy of the run it resumes.
Train ==
  /\ pc = "idle" /\ trained = {} /\ train # {}
  /\ trained' = train
  /\ UNCHANGED <<class, ratio, changes, train, eval, pc, stale, cut>>

SplitNext == Change \/ SplitTrain \/ SplitEval \/ SplitCut \/ Train

SplitSpec == SplitInit /\ [][SplitNext]_splitAll

-----------------------------------------------------------------------------
(* Properties. *)

\* split.rs split: the two files of a whole split share no example, lose none
\* and hold no other, whatever the files of the splits before held.
SplitIsWhole ==
  pc # "split" /\ ~stale /\ ~cut =>
    train \cup eval = Usable /\ train \cap eval = {}

\* split.rs stratify: the shares of the topics, and of the subtopics within them,
\* add up to the size eval should have, and neither file of several is empty.
EvalIsSized ==
  pc # "split" /\ ~stale /\ ~cut =>
    /\ Cardinality(eval) = eval_size(Cardinality(Usable), ratio)
    /\ Cardinality(Usable) >= 2 => train # {} /\ eval # {}

\* The number of eval examples of each group of S is its share, up to one.
Fair(S, name, inEval) ==
  \A g \in {name[e] : e \in S} :
    LET exact == Cardinality({e \in S : name[e] = g}) * Cardinality(inEval)
        got == Cardinality({e \in inEval : name[e] = g}) * Cardinality(S)
    IN  got - exact < Cardinality(S) /\ exact - got < Cardinality(S)

\* split.rs stratify: eval is spread in proportion over the topics, and within
\* each over its subtopics, with no group more than one example off its share.
Proportional ==
  pc # "split" /\ ~stale /\ ~cut =>
    /\ Fair(Usable, topic, eval)
    /\ \A t \in {topic[e] : e \in Usable} :
         LET inTopic == {e \in Usable : topic[e] = t}
         IN  Fair(inTopic, subtopic, eval \cap inTopic)

\* split.rs stratify: eval has its size to one example, and every topic and
\* subtopic its share of it, whatever the ratio and the dataset.
EvalIsFair == EvalIsSized /\ Proportional

=============================================================================
