----------------------------- MODULE PodAccount -----------------------------
(***************************************************************************)
(* What overbrainer promises of the pods of a run, for one who sees Runpod *)
(* and pod.json in one instant: a pod is asked for once pod.json shows its *)
(* call, and not while another one bills; pod.json forgets none that       *)
(* bills; the host key outlives them.                                      *)
(*                                                                         *)
(* A pod.json replaced by an older one (pod ls takes no lock) frees        *)
(* pod.json from its part of the promise, and nothing else.                *)
(***************************************************************************)
EXTENDS Naturals

CONSTANT Attempts   \* the create calls of the run; 1, 2, ...

VARIABLES
  pods,     \* what Runpod has of each call
  calls,    \* how many calls pod.json shows
  known,    \* the pods it names
  told,     \* the pods the walk was given
  key,      \* the account has the host key of the run
  cleared,  \* pod ls saw a pod.json that names no pod
  lapsed    \* an older pod.json replaced a newer one

vars == <<pods, calls, known, told, key, cleared, lapsed>>

Up == {a \in Attempts : pods[a] = "up"}

\* Those that Runpod has shown.
Shown == {a \in Attempts : pods[a] \in {"up", "gone"}}

Init ==
  /\ pods = [a \in Attempts |-> "none"]
  /\ calls = 0 /\ known = {} /\ told = {}
  /\ key = FALSE /\ cleared = FALSE /\ lapsed = FALSE

\* A call that reaches Runpod; its pod may show only later.
Asks ==
  \E a \in Attempts, got \in {"coming", "up"} :
    /\ pods[a] = "none"
    /\ lapsed \/ a = calls
    /\ told \cap Up = {}
    /\ pods' = [pods EXCEPT ![a] = got]
    /\ UNCHANGED <<calls, known, told, key, cleared, lapsed>>

Shows ==
  /\ \E a \in Attempts :
       pods[a] = "coming" /\ pods' = [pods EXCEPT ![a] = "up"]
  /\ UNCHANGED <<calls, known, told, key, cleared, lapsed>>

\* pod.json may gain calls and pods that showed, and lose pods that are gone.
Saves ==
  /\ calls' \in Nat /\ known' \subseteq Shown'
  /\ lapsed \/ (calls' >= calls /\ known \cap Up' \subseteq known')

\* Pods go, a pod is told of, pod.json is saved.
Works ==
  /\ \E gone \in SUBSET Up :
       pods' = [a \in Attempts |-> IF a \in gone THEN "gone" ELSE pods[a]]
  /\ Saves /\ told \subseteq told' /\ told' \subseteq told \cup Shown
  /\ UNCHANGED <<key, cleared, lapsed>>

\* pod ls puts back a copy that is older than pod.json.
Overwrites ==
  /\ calls' \in Nat /\ known' \subseteq Shown
  /\ lapsed' = TRUE
  /\ UNCHANGED <<pods, told, key, cleared>>

\* The host key is there before the first pod.
StoresKey ==
  /\ \A a \in Attempts : pods[a] = "none"
  /\ key' \in BOOLEAN
  /\ UNCHANGED <<pods, calls, known, told, cleared, lapsed>>

\* The process that holds the project deletes it after the last known pod.
DropsKey ==
  /\ key
  /\ lapsed \/ known \cap Up = {}
  /\ key' = FALSE
  /\ UNCHANGED <<pods, calls, known, told, cleared, lapsed>>

\* pod ls looks first and deletes it later.
Clears ==
  /\ known = {} /\ cleared' = TRUE
  /\ UNCHANGED <<pods, calls, known, told, key, lapsed>>

DropsLate ==
  /\ cleared /\ cleared' = FALSE
  /\ key' \in {key, FALSE}
  /\ UNCHANGED <<pods, calls, known, told, lapsed>>

Next ==
  \/ Asks \/ Shows \/ Works \/ Overwrites
  \/ StoresKey \/ DropsKey \/ Clears \/ DropsLate

Spec == Init /\ [][Next]_vars

=============================================================================
