------------------------------ MODULE MCDataset ------------------------------
(* Names and texts are interchangeable in Dataset: TLC checks one state of   *)
(* each class.                                                               *)
EXTENDS Dataset, TLC

Interchangeable == Permutations(Names) \cup Permutations(Texts)
=============================================================================
