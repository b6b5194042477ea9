----------------------------- MODULE PodRecord -----------------------------
(***************************************************************************)
(* pod.json (src/runpod/record.rs): what overbrainer knows of a run's      *)
(* pods, and how each answer of Runpod changes it.  An attempt is one      *)
(* create call; its pod, if the call makes one, has the attempt's number.  *)
(***************************************************************************)
EXTENDS Naturals

CONSTANTS
  TYPES,           \* most GPU types a walk tries
  MAX_AMBIGUOUS,   \* create calls without a clear answer per GPU type
  MAX_CALLS        \* bound: create calls of a run that are explored

ASSUME RecordAssumption ==
  /\ TYPES \in Nat \ {0} /\ MAX_AMBIGUOUS \in Nat \ {0}
  /\ MAX_CALLS \in Nat

Attempts == 1 .. MAX_CALLS

NoPod == 0
PodStates == {"Creating", "Provisioning", "Ready", "Running", "Deleting",
              "Deleted"}

\* attempts: how many; unclear: those whose result is Ambiguous; answered:
\* whether the last one has a pod_id; pod: pod_id; strays: stray_pods.
Records ==
  [state : PodStates, attempts : 0 .. MAX_CALLS, unclear : SUBSET Attempts,
   answered : BOOLEAN, pod : Attempts \cup {NoPod}, strays : SUBSET Attempts]

\* There is no pod.json, or no process holds a copy of it.
NoRecord == [state |-> "none"]

NewRecord ==
  [state |-> "Creating", attempts |-> 0, unclear |-> {}, answered |-> FALSE,
   pod |-> NoPod, strays |-> {}]

BeginAttempt(r) ==
  [r EXCEPT !.state = "Creating", !.attempts = @ + 1, !.answered = FALSE]

\* end_attempt with AttemptResult::Ambiguous.
EndUnclear(r) == [r EXCEPT !.unclear = @ \cup {r.attempts}]

\* created: a clear answer, or a pod adopted after an unclear one.
Created(r) ==
  [r EXCEPT !.state = "Provisioning", !.unclear = @ \ {r.attempts},
            !.answered = TRUE, !.pod = r.attempts]

\* Mutant: only the last strays are kept.
NoteStrays_Last(r, ids) == [r EXCEPT !.strays = ids]

NoteStrays(r, ids) == [r EXCEPT !.strays = @ \cup ids]

DropStray(r, id) == [r EXCEPT !.strays = @ \ {id}]

\* forget_pod: the attempt keeps its pod_id.
ForgetPod(r) == [r EXCEPT !.pod = NoPod, !.state = "Creating"]

InState(r, state) == [r EXCEPT !.state = state]

\* The pods that pod.json says may exist.
Named(r) ==
  IF r = NoRecord THEN {}
  ELSE r.strays \cup (IF r.state = "Deleted" THEN {} ELSE {r.pod} \ {NoPod})

\* Mutant: the strays are not looked at.
NoPodLeft_Strays(r) ==
  r = NoRecord \/ r.pod = NoPod \/ r.state = "Deleted"

\* no_pod_left of forget_keys (src/runpod/secret.rs).
NoPodLeft(r) ==
  \/ r = NoRecord
  \/ r.strays = {} /\ (r.pod = NoPod \/ r.state = "Deleted")

\* The recorded pod `pod rm` deletes, or keeps, as the run's training pod.
Training(r) ==
  IF r = NoRecord \/ r.state = "Deleted" THEN NoPod ELSE r.pod

\* starting: `pod rm` leaves the pods of such a run alone.
Starting(run, r) ==
  \/ run = "Preparing"
  \/ /\ run = "Running" /\ r # NoRecord
     /\ r.attempts > 0 /\ ~r.answered
=============================================================================
