------------------------------ MODULE MCCompare ------------------------------
(* Values of the constants of Split and Compare: two topics that each have a *)
(* subtopic "a", groups of one and of two, a hash order unlike the IDs', and  *)
(* a target of each kind.                                                   *)
EXTENDS Compare

MCExample == 1 .. 6
MCtopic == <<"t1", "t1", "t1", "t2", "t2", "t3">>
MCsubtopic == <<"a", "a", "b", "a", "a", "c">>
MChash == [name \in {"t1", "t2", "t3", "a", "b", "c"} |->
             CASE name = "b" -> 1 [] name = "t2" -> 2 [] name = "c" -> 3
               [] name = "t1" -> 4 [] name = "a" -> 5 [] name = "t3" -> 6]
MChash_id == <<3, 1, 2, 5, 4, 6>>
MCline == <<2, 1, 3, 5, 4, 6>>
MCRatio == {<<1, 5>>, <<1, 2>>, <<4, 5>>}
MCSetting == {[target |-> "local", concurrency |-> 2],
              [target |-> "ssh", concurrency |-> 0],
              [target |-> "pod", concurrency |-> 1]}

\* A dataset of two examples of a topic and one of another, changed once, that
\* a split leaves two questions of.
Small ==
  /\ changes <= 1 /\ ratio = <<4, 5>>
  /\ \A e \in {3, 5, 6} : class[e] = "absent"

\* Bound: only a small dataset is exported, and a split does not read the
\* setting: the others are split with one of them.
Bound ==
  /\ gguf # 0 => Small
  /\ setting.target # "local" => Small

MCInit == Init /\ Bound
MCNext == Next /\ Bound'

MCSpec == MCInit /\ [][MCNext]_vars
=============================================================================
