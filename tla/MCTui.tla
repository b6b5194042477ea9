------------------------------- MODULE MCTui -------------------------------
(* The instance of Tui checked: two tasks at once, one run, a compare, auto  *)
(* mode with one stage before its training.                                 *)
EXTENDS Tui

MCIds == 1 .. 2

\* Bound: once a key took up a run whose start the app cannot find, only flows
\* and the keys about runs go on. No step that fairness asks for needs another.
EarlyAlone ==
    early # {} =>
        /\ phase = "loop" /\ leaving = "none"
        /\ auto = 0 /\ notes = {} /\ ~editing
        /\ \A k \in Slots : slot[k] = 0

MCNext == Next /\ EarlyAlone'

MCSpec == Init /\ [][MCNext]_allVars /\ Fairness
=============================================================================
