--------------------------- MODULE RunFlow_proofs ---------------------------
(***************************************************************************)
(* What RunFlow keeps for any number of retries: its types, that run.json  *)
(* tells what happened, that what it does not note missing is here, and    *)
(* that the job follows what its executor promises.                        *)
(***************************************************************************)
EXTENDS RunFlow, TLAPS

Launching == {"launch", "spawned", "undo", "undoing"}
Judging == {"drain", "outcome", "retrieve", "checkpoint", "save"}
Following == {"follow"} \cup Judging
Judged == {"retrieve", "checkpoint", "save"}
Cancelling == {"cancel", "cancelling", "readback", "copies"}
Collecting == {"collect", "collect2", "renote"}

\* The job, its exit code, the marker and the script of a cancel agree.
TargetInv ==
  /\ job = "none" => exit = "none" /\ marked = FALSE /\ proof = "none"
  /\ exit # "none" => job \in {"exited", "cancelled"}
  /\ job = "exited" => exit # "none"
  /\ job = "lost" => marked = FALSE
  /\ script # "none" \/ job = "cancelled" => marked = TRUE
  /\ exit # "none" /\ (script = "running" \/ job = "cancelled") => late = TRUE

\* What the place of the flow says of the record.
RunInv ==
  /\ run.state = "none" => pc = "idle" /\ job = "none"
  /\ run.known = TRUE => run.state \in Ended \cup {"Running"} /\ job # "none"
  /\ run.known = FALSE => run.state \in {"none", "Preparing", "Failed"}
  /\ pc \in Launching => run.state = "Preparing"
  /\ pc = "launch" => job = "none"
  /\ pc \in {"spawned", "undo", "undoing"} => job # "none"
  /\ pc = "spawned" => marked = FALSE
  /\ pc \in Following \cup {"stopping"} => run.state = "Running"
  /\ pc \in Cancelling => run.known = TRUE /\ before # "none"
  /\ pc = "copies" => run.state = "Cancelled"
  /\ pc \in Collecting => run.known = TRUE /\ run.state \in Ended
  /\ pc \in {"collect2", "renote"} => {"log", "artifacts"} \subseteq here

\* The fallback is beside a follow, and only acts on a request.
FallbackInv ==
  /\ fb # "off" => pc \in Following
  /\ fb \notin {"off", "watching"} => request = TRUE
  /\ marked = TRUE /\ run.known = TRUE => request = TRUE \/ before # "none"

\* The outcome the flow works on, before it is saved.
OutInv ==
  /\ pc \in Judging =>
       /\ job \notin {"none", "running"}
       /\ out.state = "Succeeded" => exit = "ok" /\ metrics = TRUE
       /\ out.state = "Cancelled" => job = "cancelled"
       /\ out.state = "Stopped" => proof = "saved"
       /\ out.snap = TRUE <=> out.state = "Stopped"
  /\ pc \in Judging \ {"save"} => out.note = FALSE
  /\ pc \in Judged =>
       /\ out.state = "Succeeded" => proof = "none"
       /\ out.state = "Cancelled" => proof # "saved"
  /\ pc \in {"drain", "outcome"} => out.state # "Stopped"
  /\ pc = "checkpoint" =>
       out.state = "Stopped" /\ {"log", "artifacts"} \subseteq here
  /\ pc = "save" =>
       /\ out.note = FALSE => {"log", "artifacts"} \subseteq here
       /\ out.state \in {"Succeeded", "Stopped"} =>
            out.note = FALSE /\ left = TRUE
       /\ out.state = "Stopped" => "checkpoint" \in here

RecordInv == RecordIsTrue /\ NothingMissing /\ SavedIsStopped

Rest == TargetInv /\ RunInv /\ FallbackInv /\ OutInv /\ RecordInv

IInv == TypeOK /\ Rest

-----------------------------------------------------------------------------
(* Types. *)

LEMMA EndsTypes ==
  ASSUME Ends
  PROVE  /\ pc' \in Flow /\ failures' \in 0 .. MAX_FAILURES /\ fb' \in Fallback
         /\ proven' \in BOOLEAN /\ erred' \in BOOLEAN
         /\ out' \in Outcome
<1>1. pc' \in Flow /\ fb' \in Fallback
  BY DEF Ends, Flow, Fallback
<1>2. failures' \in 0 .. MAX_FAILURES
  BY FailuresAssumption DEF Ends
<1>3. proven' \in BOOLEAN /\ erred' \in BOOLEAN
  BY DEF Ends
<1>4. out' \in Outcome
  BY DEF Ends, Outcome, Ended
<1> QED BY <1>1, <1>2, <1>3, <1>4

LEMMA FailsTypes ==
  ASSUME TypeOK, Ends, UNCHANGED <<run, target, here, before>>
  PROVE  TypeOK'
BY EndsTypes DEF TypeOK, target, nature

LEMMA StartsTypes ==
  ASSUME TypeOK, NEW to \in Flow, Starts(to), run' \in Record,
         before' = before \/ before' = job
  PROVE  TypeOK'
<1>1. /\ pc' \in Flow
      /\ UNCHANGED <<target, here, out, failures, fb, proven, erred>>
  BY DEF Starts
<1>2. before' \in {"none", "running", "exited", "lost", "cancelled"}
  BY DEF TypeOK
<1> QED BY <1>1, <1>2 DEF TypeOK, target, nature

LEMMA FollowsTypes ==
  ASSUME TypeOK, NEW fallen \in Fallback, Follows(fallen), run' \in Record,
         UNCHANGED <<job, exit, marked, script, proof, nature, late, here, before>>,
         request' \in BOOLEAN
  PROVE  TypeOK'
<1>1. /\ pc' \in Flow /\ fb' \in Fallback
      /\ UNCHANGED <<failures, proven, erred, out>>
  BY DEF Follows, Flow
<1> QED BY <1>1 DEF TypeOK, nature

LEMMA CallsCancelTypes ==
  ASSUME TypeOK, CallsCancel
  PROVE  /\ job' \in {"none", "running", "exited", "lost", "cancelled"}
         /\ marked' \in BOOLEAN /\ script' \in {"none", "running", "failed"}
         /\ UNCHANGED <<exit, request, proof, nature, late>>
<1>1. CASE exit # "none" \/ job = "cancelled"
  <2>1. UNCHANGED target
    BY <1>1 DEF CallsCancel
  <2> QED BY <2>1 DEF TypeOK, target
<1>2. CASE ~(exit # "none" \/ job = "cancelled")
  <2>1. /\ marked' = TRUE /\ script' = "running"
        /\ job' = IF job = "lost" THEN "cancelled" ELSE job
        /\ UNCHANGED <<exit, request, proof, nature, late>>
    BY <1>2 DEF CallsCancel
  <2> QED BY <2>1 DEF TypeOK
<1> QED BY <1>1, <1>2

LEMMA HereTypes ==
  ASSUME TypeOK, NEW pass
  PROVE  /\ Retrieves(pass) =>
              here' \in SUBSET {"log", "artifacts", "checkpoint"}
         /\ RetrievesBadly(pass) =>
              here' \in SUBSET {"log", "artifacts", "checkpoint"}
BY DEF TypeOK, Retrieves, RetrievesBadly

LEMMA TargetTypes == TypeOK /\ TargetNext => TypeOK'
<1> SUFFICES ASSUME TypeOK, TargetNext PROVE TypeOK'
  OBVIOUS
<1> USE DEF TargetAlone, fallback, nature
<1>1. ASSUME JobEnds, TargetAlone PROVE TypeOK'
  <2>1. late' \in BOOLEAN /\ exit' \in {"none", "ok", "bad"}
    BY <1>1 DEF JobEnds, TypeOK
  <2>2. job' \in {"none", "running", "exited", "lost", "cancelled"}
    BY <1>1 DEF JobEnds
  <2>3. UNCHANGED <<marked, script, request, proof, nature>>
    BY <1>1 DEF JobEnds
  <2> QED BY <1>1, <2>1, <2>2, <2>3 DEF TypeOK
<1>2. ASSUME PluginProves, TargetAlone PROVE TypeOK'
  BY <1>2 DEF PluginProves, TypeOK
<1>3. ASSUME ScriptEnds, TargetAlone PROVE TypeOK'
  BY <1>3 DEF ScriptEnds, TypeOK
<1> QED BY <1>1, <1>2, <1>3 DEF TargetNext

LEMMA StartTypes == TypeOK /\ StartNext => TypeOK'
<1> SUFFICES ASSUME TypeOK, StartNext PROVE TypeOK'
  OBVIOUS
<1>1. ASSUME Create PROVE TypeOK'
  <2>1. run' \in Record
    BY <1>1 DEF Create, TypeOK, Record, States
  <2>2. "launch" \in Flow
    BY DEF Flow
  <2> QED BY <1>1, <2>1, <2>2, StartsTypes DEF Create
<1>2. ASSUME LaunchFails PROVE TypeOK'
  <2>1. run' \in Record
    BY <1>2 DEF LaunchFails, TypeOK, Record, States, Ended
  <2>2. /\ job' \in {"none", "running", "exited", "lost", "cancelled"} /\ Ends
        /\ UNCHANGED <<exit, marked, script, request, proof, nature, late,
                       here, before>>
    BY <1>2 DEF LaunchFails
  <2> QED BY <2>1, <2>2, EndsTypes DEF TypeOK, nature
<1>3. ASSUME Spawned PROVE TypeOK'
  BY <1>3 DEF Spawned, Goes, TypeOK, Flow, nature, fallback
<1>4. ASSUME RecordStarted PROVE TypeOK'
  <2>1. run' \in Record
    BY <1>4 DEF RecordStarted, TypeOK, Record, States
  <2>2. /\ Follows("watching") /\ UNCHANGED <<here, before>>
        /\ UNCHANGED <<job, exit, marked, script, request, proof, nature, late>>
    BY <1>4 DEF RecordStarted, target
  <2>3. "watching" \in Fallback /\ request' \in BOOLEAN
    BY <2>2 DEF Fallback, TypeOK
  <2> QED BY <2>1, <2>2, <2>3, FollowsTypes
<1>5. ASSUME RecordStartedFails PROVE TypeOK'
  BY <1>5 DEF RecordStartedFails, Goes, TypeOK, Flow, target, nature, fallback
<1>6. ASSUME Undo PROVE TypeOK'
  <2>1. pc' \in Flow
    BY <1>6 DEF Undo, Goes, Flow
  <2>2. CallsCancel /\ UNCHANGED <<run, here, out, before, failures, fallback>>
    BY <1>6 DEF Undo, Goes
  <2> QED BY <2>1, <2>2, CallsCancelTypes DEF TypeOK, nature, fallback
<1>7. ASSUME Undone PROVE TypeOK'
  BY <1>7, FailsTypes DEF Undone, Fails
<1> QED BY <1>1, <1>2, <1>3, <1>4, <1>5, <1>6, <1>7 DEF StartNext

LEMMA FollowTypes == TypeOK /\ FollowNext => TypeOK'
<1> SUFFICES ASSUME TypeOK, FollowNext PROVE TypeOK'
  OBVIOUS
<1>1. ASSUME Retry PROVE TypeOK'
  <2>1. CASE failures < MAX_FAILURES /\ ~ Fails(pc)
    <3>1. /\ failures' = failures + 1
          /\ UNCHANGED <<run, target, here, pc, out, fallback, before>>
      BY <1>1, <2>1 DEF Retry
    <3>2. failures' \in 0 .. MAX_FAILURES
      BY <3>1, <2>1, FailuresAssumption DEF TypeOK
    <3> QED BY <3>1, <3>2 DEF TypeOK, target, nature, fallback
  <2>2. CASE Fails(pc)
    BY <2>2, FailsTypes DEF Fails
  <2> QED BY <1>1, <2>1, <2>2 DEF Retry
<1>2. ASSUME Poll PROVE TypeOK'
  <2>1. Final \in Ended
    BY DEF Final, Ended
  <2>2. out' \in Outcome
    <3>1. \/ out' = out
          \/ out' = [state |-> Final, note |-> FALSE, snap |-> FALSE]
      BY <1>2 DEF Poll
    <3>2. \A s \in Ended :
            [state |-> s, note |-> FALSE, snap |-> FALSE] \in Outcome
      BY DEF Outcome
    <3>3. out \in Outcome
      BY DEF TypeOK
    <3> QED BY <2>1, <3>1, <3>2, <3>3
  <2>3. pc' \in Flow
    BY <1>2 DEF Poll, TypeOK, Flow
  <2>4. /\ failures' \in 0 .. MAX_FAILURES
        /\ UNCHANGED <<run, target, here, fallback, before>>
    BY <1>2, FailuresAssumption DEF Poll
  <2> QED BY <2>2, <2>3, <2>4 DEF TypeOK, target, nature, fallback
<1>3. ASSUME Drain PROVE TypeOK'
  BY <1>3 DEF Drain, Goes, TypeOK, Flow, target, nature, fallback
<1>4. ASSUME ReadProof PROVE TypeOK'
  <2>1. out' \in Outcome
    BY <1>4 DEF ReadProof, TypeOK, Outcome, Ended
  <2>2. pc' \in Flow
    BY <1>4 DEF ReadProof, Goes, Flow
  <2>3. UNCHANGED <<run, target, here, before, failures, fallback>>
    BY <1>4 DEF ReadProof, Goes
  <2> QED BY <2>1, <2>2, <2>3 DEF TypeOK, target, nature, fallback
<1>5. ASSUME ReadProofFails PROVE TypeOK'
  BY <1>5, FailsTypes DEF ReadProofFails, Fails
<1>6. ASSUME Retrieve PROVE TypeOK'
  <2>1. out' \in Outcome
    BY <1>6 DEF Retrieve, TypeOK, NoOutput, Outcome, Ended
  <2>2. pc' \in Flow
    BY <1>6 DEF Retrieve, Goes, Flow
  <2>3. here' \in SUBSET {"log", "artifacts", "checkpoint"}
    BY <1>6, HereTypes DEF Retrieve
  <2>4. UNCHANGED <<run, target, before, failures, fallback>>
    BY <1>6 DEF Retrieve, Goes
  <2> QED BY <2>1, <2>2, <2>3, <2>4 DEF TypeOK, target, nature, fallback
<1>7. ASSUME RetrieveCheckpoint PROVE TypeOK'
  <2>1. out' \in Outcome
    BY <1>7 DEF RetrieveCheckpoint, TypeOK, NoOutput, Outcome, Ended
  <2>2. pc' \in Flow
    BY <1>7 DEF RetrieveCheckpoint, Goes, Flow
  <2>3. here' \in SUBSET {"log", "artifacts", "checkpoint"}
    BY <1>7, HereTypes DEF RetrieveCheckpoint
  <2>4. UNCHANGED <<run, target, before, failures, fallback>>
    BY <1>7 DEF RetrieveCheckpoint, Goes
  <2> QED BY <2>1, <2>2, <2>3, <2>4 DEF TypeOK, target, nature, fallback
<1>8. ASSUME RetrieveFails PROVE TypeOK'
  <2>1. here' \in SUBSET {"log", "artifacts", "checkpoint"}
    BY <1>8, HereTypes DEF RetrieveFails
  <2>2. UNCHANGED <<run, target, before>>
    BY <1>8 DEF RetrieveFails
  <2>3. CASE Ends
    BY <2>1, <2>2, <2>3, EndsTypes DEF TypeOK, target, nature
  <2>4. CASE Goes("retrieve", "save") /\ out' = [out EXCEPT !.note = TRUE]
    <3>1. out' \in Outcome
      BY <2>4 DEF TypeOK, Outcome
    <3>2. pc' \in Flow /\ UNCHANGED <<failures, fallback>>
      BY <2>4 DEF Goes, Flow
    <3> QED BY <2>1, <2>2, <3>1, <3>2 DEF TypeOK, target, nature, fallback
  <2> QED BY <1>8, <2>3, <2>4 DEF RetrieveFails
<1>9. ASSUME Save PROVE TypeOK'
  <2>1. run' \in Record
    BY <1>9 DEF Save, TypeOK, Record, Outcome, States
  <2>2. Ends /\ UNCHANGED <<target, here, before>>
    BY <1>9 DEF Save
  <2> QED BY <2>1, <2>2, EndsTypes DEF TypeOK, target, nature
<1>10. ASSUME SaveFails PROVE TypeOK'
  BY <1>10, FailsTypes DEF SaveFails, Fails
<1> QED
  BY <1>1, <1>2, <1>3, <1>4, <1>5, <1>6, <1>7, <1>8, <1>9, <1>10 DEF FollowNext

LEMMA FallbackTypes == TypeOK /\ FallbackNext => TypeOK'
<1> SUFFICES ASSUME TypeOK, FallbackNext PROVE TypeOK'
  OBVIOUS
<1>1. ASSUME LateCancel PROVE TypeOK'
  <2>1. fb' \in Fallback
    BY <1>1 DEF LateCancel, Beside, Fallback
  <2>2. /\ CallsCancel
        /\ UNCHANGED <<run, here, pc, out, failures, before, proven, erred>>
    BY <1>1 DEF LateCancel, Beside
  <2> QED BY <2>1, <2>2, CallsCancelTypes DEF TypeOK, nature
<1>2. ASSUME NEW from, NEW to \in Fallback, Beside(from, to), UNCHANGED target,
             proven' \in BOOLEAN, erred' \in BOOLEAN
      PROVE  TypeOK'
  BY <1>2 DEF Beside, TypeOK, target, nature
<1>3. /\ {"proof", "check", "check2", "over", "end", "tocancel", "late"}
           \subseteq Fallback
      /\ proven \in BOOLEAN /\ erred \in BOOLEAN
  BY DEF Fallback, TypeOK
<1>4. ASSUME SeesRequest PROVE TypeOK'
  BY <1>4, <1>2, <1>3 DEF SeesRequest
<1>5. ASSUME ProofTimer PROVE TypeOK'
  BY <1>5, <1>2, <1>3 DEF ProofTimer
<1>6. ASSUME LateProof PROVE TypeOK'
  BY <1>6, <1>2, <1>3 DEF LateProof
<1>7. ASSUME LateCheck PROVE TypeOK'
  BY <1>7, <1>2, <1>3 DEF LateCheck
<1>8. ASSUME EndTimer PROVE TypeOK'
  BY <1>8, <1>2, <1>3 DEF EndTimer
<1>9. ASSUME LateStop PROVE TypeOK'
  BY <1>9, <1>2, <1>3 DEF LateStop
<1>10. ASSUME LateCancelled PROVE TypeOK'
  BY <1>10, <1>2, <1>3 DEF LateCancelled
<1>11. ASSUME LateFails PROVE TypeOK'
  BY <1>11, <1>2, <1>3 DEF LateFails
<1> QED
  BY <1>1, <1>4, <1>5, <1>6, <1>7, <1>8, <1>9, <1>10, <1>11 DEF FallbackNext

LEMMA CancelTypes == TypeOK /\ CancelNext => TypeOK'
<1> SUFFICES ASSUME TypeOK, CancelNext PROVE TypeOK'
  OBVIOUS
<1>1. ASSUME Cancel PROVE TypeOK'
  <2>1. run' \in Record /\ "cancel" \in Flow
    BY <1>1 DEF Cancel, TypeOK, Flow
  <2> QED BY <1>1, <2>1, StartsTypes DEF Cancel
<1>2. ASSUME CancelCalls PROVE TypeOK'
  <2>1. pc' \in Flow
    BY <1>2 DEF CancelCalls, Goes, Flow
  <2>2. CallsCancel /\ UNCHANGED <<run, here, out, before, failures, fallback>>
    BY <1>2 DEF CancelCalls, Goes
  <2> QED BY <2>1, <2>2, CallsCancelTypes DEF TypeOK, nature, fallback
<1>3. ASSUME CancelAnswers PROVE TypeOK'
  BY <1>3 DEF CancelAnswers, Goes, TypeOK, Flow, target, nature, fallback
<1>4. ASSUME ReadBack PROVE TypeOK'
  <2>1. CASE Status = "cancelled"
    <3>1. run' \in Record
      BY <1>4, <2>1 DEF ReadBack, TypeOK, Record, States, Ended
    <3>2. pc' \in Flow
      BY <1>4, <2>1 DEF ReadBack, Goes, Flow
    <3>3. UNCHANGED <<target, here, out, before, failures, fallback>>
      BY <1>4, <2>1 DEF ReadBack, Goes
    <3> QED BY <3>1, <3>2, <3>3 DEF TypeOK, target, nature, fallback
  <2>2. CASE Status # "cancelled"
    BY <1>4, <2>2, FailsTypes DEF ReadBack
  <2> QED BY <2>1, <2>2
<1>5. ASSUME Copies PROVE TypeOK'
  <2>1. here' \in SUBSET {"log", "artifacts", "checkpoint"}
    BY <1>5, HereTypes DEF Copies
  <2>2. Ends /\ UNCHANGED <<run, target, before>>
    BY <1>5 DEF Copies
  <2> QED BY <2>1, <2>2, EndsTypes DEF TypeOK, target, nature
<1>6. ASSUME CopiesFail PROVE TypeOK'
  <2>1. here' \in SUBSET {"log", "artifacts", "checkpoint"}
    BY <1>6, HereTypes DEF CopiesFail
  <2>2. run' \in Record
    BY <1>6 DEF CopiesFail, TypeOK, Record
  <2>3. Ends /\ UNCHANGED <<target, before>>
    BY <1>6 DEF CopiesFail
  <2> QED BY <2>1, <2>2, <2>3, EndsTypes DEF TypeOK, target, nature
<1>7. ASSUME CancelFails PROVE TypeOK'
  BY <1>7, FailsTypes DEF CancelFails, Fails
<1> QED BY <1>1, <1>2, <1>3, <1>4, <1>5, <1>6, <1>7 DEF CancelNext

LEMMA CollectTypes == TypeOK /\ CollectNext => TypeOK'
<1> SUFFICES ASSUME TypeOK, CollectNext PROVE TypeOK'
  OBVIOUS
<1>1. ASSUME Attach PROVE TypeOK'
  <2>1. "watching" \in Fallback /\ Follows("watching")
    BY <1>1 DEF Attach, Fallback
  <2>2. /\ UNCHANGED <<job, exit, marked, script, proof, nature, late, here, before>>
        /\ run' \in Record /\ request' \in BOOLEAN
    BY <1>1 DEF Attach, TypeOK, target
  <2> QED BY <2>1, <2>2, FollowsTypes
<1>2. ASSUME AttachEnded PROVE TypeOK'
  BY <1>2 DEF AttachEnded, vars, fallback, TypeOK, target, nature
<1>3. ASSUME AttachPod PROVE TypeOK'
  <2>1. run' \in Record /\ "collect" \in Flow /\ "idle" \in Flow
    BY <1>3 DEF AttachPod, TypeOK, Flow
  <2> QED BY <1>3, <2>1, StartsTypes DEF AttachPod
<1>4. ASSUME Collect PROVE TypeOK'
  <2>1. here' \in SUBSET {"log", "artifacts", "checkpoint"}
    BY <1>4, HereTypes DEF Collect
  <2>2. pc' \in Flow
    BY <1>4 DEF Collect, Goes, Flow
  <2>3. UNCHANGED <<run, target, out, before, failures, fallback>>
    BY <1>4 DEF Collect, Goes
  <2> QED BY <2>1, <2>2, <2>3 DEF TypeOK, target, nature, fallback
<1>5. ASSUME CollectCheckpoint PROVE TypeOK'
  <2>1. here' \in SUBSET {"log", "artifacts", "checkpoint"}
    BY <1>5, HereTypes DEF CollectCheckpoint
  <2>2. pc' \in Flow
    BY <1>5 DEF CollectCheckpoint, Goes, Flow
  <2>3. UNCHANGED <<run, target, out, before, failures, fallback>>
    BY <1>5 DEF CollectCheckpoint, Goes
  <2> QED BY <2>1, <2>2, <2>3 DEF TypeOK, target, nature, fallback
<1>6. ASSUME CollectFails PROVE TypeOK'
  <2>1. here' \in SUBSET {"log", "artifacts", "checkpoint"}
    BY <1>6, HereTypes DEF CollectFails
  <2>2. Ends /\ UNCHANGED <<run, target, before>>
    BY <1>6 DEF CollectFails
  <2> QED BY <2>1, <2>2, EndsTypes DEF TypeOK, target, nature
<1>7. ASSUME Renote PROVE TypeOK'
  <2>1. run' \in Record
    BY <1>7 DEF Renote, TypeOK, Record
  <2>2. Ends /\ UNCHANGED <<target, here, before>>
    BY <1>7 DEF Renote
  <2> QED BY <2>1, <2>2, EndsTypes DEF TypeOK, target, nature
<1>8. ASSUME RenoteFails PROVE TypeOK'
  BY <1>8, FailsTypes DEF RenoteFails, Fails
<1> QED BY <1>1, <1>2, <1>3, <1>4, <1>5, <1>6, <1>7, <1>8 DEF CollectNext

LEMMA StopTypes == TypeOK /\ StopNext => TypeOK'
<1> SUFFICES ASSUME TypeOK, StopNext PROVE TypeOK'
  OBVIOUS
<1>1. ASSUME Stop PROVE TypeOK'
  <2>1. run' \in Record /\ "stopping" \in Flow /\ before' = before
    BY <1>1 DEF Stop, TypeOK, Flow
  <2> QED BY <1>1, <2>1, StartsTypes DEF Stop
<1>2. ASSUME StopRequests PROVE TypeOK'
  <2>1. "proof" \in Fallback /\ Follows("proof")
    BY <1>2 DEF StopRequests, Fallback
  <2>2. /\ UNCHANGED <<job, exit, marked, script, proof, nature, late, here, before>>
        /\ run' \in Record /\ request' \in BOOLEAN
    BY <1>2 DEF StopRequests, Requests, TypeOK
  <2> QED BY <2>1, <2>2, FollowsTypes
<1>3. ASSUME StopElsewhere PROVE TypeOK'
  BY <1>3 DEF StopElsewhere, Requests, TypeOK, nature, fallback
<1> QED BY <1>1, <1>2, <1>3 DEF StopNext

LEMMA InitTypes == Init => TypeOK
<1> SUFFICES ASSUME Init PROVE TypeOK
  OBVIOUS
<1>1. run \in Record /\ out \in Outcome
  BY DEF Init, Record, Outcome, States, Ended
<1>2. pc \in Flow /\ fb \in Fallback /\ failures \in 0 .. MAX_FAILURES
  BY FailuresAssumption DEF Init, Flow, Fallback
<1> QED BY <1>1, <1>2 DEF Init, TypeOK

LEMMA NextTypes == TypeOK /\ [Next]_vars => TypeOK'
<1> SUFFICES ASSUME TypeOK, [Next]_vars PROVE TypeOK'
  OBVIOUS
<1>1. ASSUME Crash PROVE TypeOK'
  BY <1>1, FailsTypes DEF Crash
<1>2. ASSUME UNCHANGED vars PROVE TypeOK'
  BY <1>2 DEF vars, TypeOK, target, nature, fallback
<1> QED
  BY <1>1, <1>2, TargetTypes, StartTypes, FollowTypes, FallbackTypes,
     CancelTypes, CollectTypes, StopTypes DEF Next

\* Every variable keeps its type.
THEOREM RTypeOK == Spec => []TypeOK
<1>1. Init => TypeOK
  BY InitTypes
<1>2. TypeOK /\ [Next]_vars => TypeOK'
  BY NextTypes
<1> QED BY <1>1, <1>2, PTL DEF Spec

-----------------------------------------------------------------------------
(* The invariant. *)

LEMMA FailsRest ==
  ASSUME TypeOK, Rest, Ends, UNCHANGED <<run, target, here, before>>
  PROVE  Rest'
<1> USE DEF Ends, target, nature, Launching, Judging, Following, Judged,
    Cancelling, Collecting, Record, Outcome, States, Ended, Rest, TypeOK,
    TargetInv, RunInv, FallbackInv, OutInv, RecordInv, RecordIsTrue,
    NothingMissing, SavedIsStopped
<1>1. TargetInv'
  OBVIOUS
<1>2. RunInv'
  OBVIOUS
<1>3. FallbackInv'
  OBVIOUS
<1>4. OutInv'
  OBVIOUS
<1>5. RecordInv'
  OBVIOUS
<1> QED BY <1>1, <1>2, <1>3, <1>4, <1>5

LEMMA StartRest == TypeOK /\ Rest /\ StartNext => Rest'
<1> SUFFICES ASSUME TypeOK, Rest, StartNext PROVE Rest'
  OBVIOUS
<1> USE DEF target, nature, fallback, Launching, Judging, Following, Judged,
    Cancelling, Collecting, Record, Outcome, States, Ended, Rest, TypeOK,
    TargetInv, RunInv, FallbackInv, OutInv, RecordInv, RecordIsTrue,
    NothingMissing, SavedIsStopped
<1>1. ASSUME Create PROVE Rest'
  BY <1>1 DEF Create, Starts
<1>2. ASSUME LaunchFails PROVE Rest'
  BY <1>2 DEF LaunchFails, Ends
<1>3. ASSUME Spawned PROVE Rest'
  BY <1>3 DEF Spawned, Goes
<1>4. ASSUME RecordStarted PROVE Rest'
  BY <1>4 DEF RecordStarted, Follows
<1>5. ASSUME RecordStartedFails PROVE Rest'
  BY <1>5 DEF RecordStartedFails, Goes
<1>6. ASSUME Undo PROVE Rest'
  BY <1>6 DEF Undo, Goes, CallsCancel
<1>7. ASSUME Undone PROVE Rest'
  BY <1>7, FailsRest DEF Undone, Fails
<1> QED BY <1>1, <1>2, <1>3, <1>4, <1>5, <1>6, <1>7 DEF StartNext

LEMMA FollowRest == TypeOK /\ Rest /\ FollowNext => Rest'
<1> SUFFICES ASSUME TypeOK, Rest, FollowNext PROVE Rest'
  OBVIOUS
<1> USE DEF target, nature, fallback, Launching, Judging, Following, Judged,
    Cancelling, Collecting, Record, Outcome, States, Ended, Rest, TypeOK,
    TargetInv, RunInv, FallbackInv, OutInv, RecordInv, RecordIsTrue,
    NothingMissing, SavedIsStopped
<1>1. ASSUME Retry PROVE Rest'
  BY <1>1 DEF Retry, Fails, Ends
<1>2. ASSUME Poll PROVE Rest'
  BY <1>2 DEF Poll, Final, Finished, Status
<1>3. ASSUME Drain PROVE Rest'
  BY <1>3 DEF Drain, Goes
<1>4. ASSUME ReadProof PROVE Rest'
  BY <1>4 DEF ReadProof, Goes
<1>5. ASSUME ReadProofFails PROVE Rest'
  BY <1>5, FailsRest DEF ReadProofFails, Fails
<1>6. ASSUME Retrieve PROVE Rest'
  BY <1>6 DEF Retrieve, Goes, Retrieves, NoOutput
<1>7. ASSUME RetrieveCheckpoint PROVE Rest'
  BY <1>7 DEF RetrieveCheckpoint, Goes, Retrieves, NoOutput
<1>8. ASSUME RetrieveFails PROVE Rest'
  BY <1>8 DEF RetrieveFails, RetrievesBadly, Goes, Ends
<1>9. ASSUME Save PROVE Rest'
  BY <1>9 DEF Save, Ends
<1>10. ASSUME SaveFails PROVE Rest'
  BY <1>10, FailsRest DEF SaveFails, Fails
<1> QED BY <1>1, <1>2, <1>3, <1>4, <1>5, <1>6, <1>7, <1>8, <1>9, <1>10
    DEF FollowNext

LEMMA FallbackRest == TypeOK /\ Rest /\ FallbackNext => Rest'
<1> SUFFICES ASSUME TypeOK, Rest, FallbackNext PROVE Rest'
  OBVIOUS
<1> USE DEF target, nature, fallback, Launching, Judging, Following, Judged,
    Cancelling, Collecting, Record, Outcome, States, Ended, Rest, TypeOK,
    TargetInv, RunInv, FallbackInv, OutInv, RecordInv, RecordIsTrue,
    NothingMissing, SavedIsStopped
<1>1. ASSUME SeesRequest PROVE Rest'
  BY <1>1 DEF SeesRequest, Beside
<1>2. ASSUME ProofTimer PROVE Rest'
  BY <1>2 DEF ProofTimer, Beside
<1>3. ASSUME LateProof PROVE Rest'
  BY <1>3 DEF LateProof, Beside
<1>4. ASSUME LateCheck PROVE Rest'
  BY <1>4 DEF LateCheck, Beside, Finished
<1>5. ASSUME EndTimer PROVE Rest'
  BY <1>5 DEF EndTimer, Beside
<1>6. ASSUME LateStop PROVE Rest'
  BY <1>6 DEF LateStop, Beside, Finished
<1>7. ASSUME LateCancel PROVE Rest'
  <2>0. run.known = TRUE /\ run.state = "Running" /\ job # "none"
    BY <1>7 DEF LateCancel, Beside
  <2>1. TargetInv'
    <3>1. CASE exit # "none" \/ job = "cancelled"
      BY <1>7, <2>0, <3>1 DEF LateCancel, Beside, CallsCancel
    <3>2. CASE ~(exit # "none" \/ job = "cancelled")
      BY <1>7, <2>0, <3>2 DEF LateCancel, Beside, CallsCancel
    <3> QED BY <1>7, <2>0, <3>1, <3>2 DEF LateCancel
  <2>2. RunInv'
    <3>1. CASE exit # "none" \/ job = "cancelled"
      BY <1>7, <2>0, <3>1 DEF LateCancel, Beside, CallsCancel
    <3>2. CASE ~(exit # "none" \/ job = "cancelled")
      BY <1>7, <2>0, <3>2 DEF LateCancel, Beside, CallsCancel
    <3> QED BY <1>7, <2>0, <3>1, <3>2 DEF LateCancel
  <2>3. FallbackInv'
    BY <1>7 DEF LateCancel, Beside, CallsCancel
  <2>4. OutInv'
    BY <1>7 DEF LateCancel, Beside, CallsCancel
  <2>5. RecordInv'
    BY <1>7 DEF LateCancel, Beside, CallsCancel
  <2> QED BY <2>1, <2>2, <2>3, <2>4, <2>5
<1>8. ASSUME LateCancelled PROVE Rest'
  BY <1>8 DEF LateCancelled, Beside
<1>9. ASSUME LateFails PROVE Rest'
  BY <1>9 DEF LateFails, Beside
<1> QED BY <1>1, <1>2, <1>3, <1>4, <1>5, <1>6, <1>7, <1>8, <1>9
    DEF FallbackNext

LEMMA CancelRest == TypeOK /\ Rest /\ CancelNext => Rest'
<1> SUFFICES ASSUME TypeOK, Rest, CancelNext PROVE Rest'
  OBVIOUS
<1> USE DEF target, nature, fallback, Launching, Judging, Following, Judged,
    Cancelling, Collecting, Record, Outcome, States, Ended, Rest, TypeOK,
    TargetInv, RunInv, FallbackInv, OutInv, RecordInv, RecordIsTrue,
    NothingMissing, SavedIsStopped
<1>1. ASSUME Cancel PROVE Rest'
  BY <1>1 DEF Cancel, Starts
<1>2. ASSUME CancelCalls PROVE Rest'
  BY <1>2 DEF CancelCalls, Goes, CallsCancel
<1>3. ASSUME CancelAnswers PROVE Rest'
  BY <1>3 DEF CancelAnswers, Goes
<1>4. ASSUME ReadBack PROVE Rest'
  <2>1. TargetInv'
    BY <1>4 DEF ReadBack, Goes, Ends, Status
  <2>2. RunInv'
    <3>1. CASE Status = "cancelled"
      BY <1>4, <3>1 DEF ReadBack, Goes, Ends, Status
    <3>2. CASE Status # "cancelled"
      BY <1>4, <3>2 DEF ReadBack, Goes, Ends, Status
    <3> QED BY <1>4, <3>1, <3>2 DEF ReadBack
  <2>3. FallbackInv'
    BY <1>4 DEF ReadBack, Goes, Ends, Status
  <2>4. OutInv'
    BY <1>4 DEF ReadBack, Goes, Ends, Status
  <2>5. RecordInv'
    <3>1. CASE Status = "cancelled"
      BY <1>4, <3>1 DEF ReadBack, Goes, Ends, Status
    <3>2. CASE Status # "cancelled"
      BY <1>4, <3>2 DEF ReadBack, Goes, Ends, Status
    <3> QED BY <1>4, <3>1, <3>2 DEF ReadBack
  <2> QED BY <2>1, <2>2, <2>3, <2>4, <2>5
<1>5. ASSUME Copies PROVE Rest'
  BY <1>5 DEF Copies, Retrieves, Ends
<1>6. ASSUME CopiesFail PROVE Rest'
  BY <1>6 DEF CopiesFail, RetrievesBadly, Ends
<1>7. ASSUME CancelFails PROVE Rest'
  BY <1>7, FailsRest DEF CancelFails, Fails
<1> QED BY <1>1, <1>2, <1>3, <1>4, <1>5, <1>6, <1>7 DEF CancelNext

LEMMA CollectRest == TypeOK /\ Rest /\ CollectNext => Rest'
<1> SUFFICES ASSUME TypeOK, Rest, CollectNext PROVE Rest'
  OBVIOUS
<1> USE DEF target, nature, fallback, Launching, Judging, Following, Judged,
    Cancelling, Collecting, Record, Outcome, States, Ended, Rest, TypeOK,
    TargetInv, RunInv, FallbackInv, OutInv, RecordInv, RecordIsTrue,
    NothingMissing, SavedIsStopped
<1>1. ASSUME Attach PROVE Rest'
  BY <1>1 DEF Attach, Follows
<1>2. ASSUME AttachEnded PROVE Rest'
  BY <1>2 DEF AttachEnded, vars, fallback
<1>3. ASSUME AttachPod PROVE Rest'
  <2>1. TargetInv'
    BY <1>3 DEF AttachPod, Starts
  <2>2. RunInv'
    BY <1>3 DEF AttachPod, Starts
  <2>3. FallbackInv'
    BY <1>3 DEF AttachPod, Starts
  <2>4. OutInv'
    BY <1>3 DEF AttachPod, Starts
  <2>5. RecordInv'
    <3>1. CASE Starts("collect")
      BY <1>3, <3>1 DEF AttachPod, Starts
    <3>2. CASE Starts("idle")
      BY <1>3, <3>2 DEF AttachPod, Starts
    <3> QED BY <1>3, <3>1, <3>2 DEF AttachPod
  <2> QED BY <2>1, <2>2, <2>3, <2>4, <2>5
<1>4. ASSUME Collect PROVE Rest'
  BY <1>4 DEF Collect, Goes, Retrieves
<1>5. ASSUME CollectCheckpoint PROVE Rest'
  BY <1>5 DEF CollectCheckpoint, Goes, Retrieves
<1>6. ASSUME CollectFails PROVE Rest'
  BY <1>6 DEF CollectFails, RetrievesBadly, Ends
<1>7. ASSUME Renote PROVE Rest'
  BY <1>7 DEF Renote, Ends
<1>8. ASSUME RenoteFails PROVE Rest'
  BY <1>8, FailsRest DEF RenoteFails, Fails
<1> QED BY <1>1, <1>2, <1>3, <1>4, <1>5, <1>6, <1>7, <1>8 DEF CollectNext

LEMMA StopRest == TypeOK /\ Rest /\ StopNext => Rest'
<1> SUFFICES ASSUME TypeOK, Rest, StopNext PROVE Rest'
  OBVIOUS
<1> USE DEF target, nature, fallback, Launching, Judging, Following, Judged,
    Cancelling, Collecting, Record, Outcome, States, Ended, Rest, TypeOK,
    TargetInv, RunInv, FallbackInv, OutInv, RecordInv, RecordIsTrue,
    NothingMissing, SavedIsStopped
<1>1. ASSUME Stop PROVE Rest'
  BY <1>1 DEF Stop, Starts
<1>2. ASSUME StopRequests PROVE Rest'
  BY <1>2 DEF StopRequests, Requests, Follows
<1>3. ASSUME StopElsewhere PROVE Rest'
  BY <1>3 DEF StopElsewhere, Requests
<1> QED BY <1>1, <1>2, <1>3 DEF StopNext

LEMMA TargetRest == TypeOK /\ Rest /\ TargetNext => Rest'
<1> SUFFICES ASSUME TypeOK, Rest, TargetNext PROVE Rest'
  OBVIOUS
<1> USE DEF TargetAlone, fallback, nature, Launching, Judging, Following,
    Judged, Cancelling, Collecting, Record, Outcome, States, Ended, Rest,
    TypeOK, TargetInv, RunInv, FallbackInv, OutInv, RecordInv, RecordIsTrue,
    NothingMissing, SavedIsStopped
<1>1. ASSUME JobEnds, TargetAlone PROVE Rest'
  <2>1. TargetInv'
    BY <1>1 DEF JobEnds
  <2>2. RunInv'
    BY <1>1 DEF JobEnds
  <2>3. FallbackInv'
    BY <1>1 DEF JobEnds
  <2>4. OutInv'
    BY <1>1 DEF JobEnds
  <2>5. RecordInv'
    BY <1>1 DEF JobEnds
  <2> QED BY <2>1, <2>2, <2>3, <2>4, <2>5
<1>2. ASSUME PluginProves, TargetAlone PROVE Rest'
  <2>1. TargetInv'
    BY <1>2 DEF PluginProves
  <2>2. RunInv'
    BY <1>2 DEF PluginProves
  <2>3. FallbackInv'
    BY <1>2 DEF PluginProves
  <2>4. OutInv'
    BY <1>2 DEF PluginProves
  <2>5. RecordInv'
    BY <1>2 DEF PluginProves
  <2> QED BY <2>1, <2>2, <2>3, <2>4, <2>5
<1>3. ASSUME ScriptEnds, TargetAlone PROVE Rest'
  <2>1. TargetInv'
    BY <1>3 DEF ScriptEnds
  <2>2. RunInv'
    BY <1>3 DEF ScriptEnds
  <2>3. FallbackInv'
    BY <1>3 DEF ScriptEnds
  <2>4. OutInv'
    BY <1>3 DEF ScriptEnds
  <2>5. RecordInv'
    BY <1>3 DEF ScriptEnds
  <2> QED BY <2>1, <2>2, <2>3, <2>4, <2>5
<1> QED BY <1>1, <1>2, <1>3 DEF TargetNext

LEMMA InitRest == Init => Rest
BY DEF Init, Ended, Launching, Judging, Following, Judged, Cancelling,
   Collecting, Rest, TargetInv, RunInv, FallbackInv, OutInv, RecordInv,
   RecordIsTrue, NothingMissing, SavedIsStopped

LEMMA NextRest == TypeOK /\ Rest /\ [Next]_vars => Rest'
<1> SUFFICES ASSUME TypeOK, Rest, [Next]_vars PROVE Rest'
  OBVIOUS
<1>1. ASSUME Crash PROVE Rest'
  BY <1>1, FailsRest DEF Crash
<1>2. ASSUME UNCHANGED vars PROVE Rest'
  BY <1>2 DEF vars, target, nature, fallback, Rest, TargetInv, RunInv,
     FallbackInv, OutInv, RecordInv, RecordIsTrue, NothingMissing,
     SavedIsStopped
<1> QED
  BY <1>1, <1>2, TargetRest, StartRest, FollowRest, FallbackRest,
     CancelRest, CollectRest, StopRest DEF Next

-----------------------------------------------------------------------------
(* The theorems. *)

LEMMA RInv == Spec => []IInv
<1>1. Init => IInv
  BY InitTypes, InitRest DEF IInv
<1>2. IInv /\ [Next]_vars => IInv'
  BY NextTypes, NextRest DEF IInv
<1> QED BY <1>1, <1>2, PTL DEF Spec

\* train.rs outcome, watch: run.json says nothing that did not happen.
THEOREM RRecordIsTrue == Spec => []RecordIsTrue
<1>1. IInv => RecordIsTrue
  BY DEF IInv, Rest, RecordInv
<1> QED BY <1>1, RInv, PTL

\* train.rs watch, retrieve: a result that is not noted missing is here.
THEOREM RNothingMissing == Spec => []NothingMissing
<1>1. IInv => NothingMissing
  BY DEF IInv, Rest, RecordInv
<1> QED BY <1>1, RInv, PTL

\* train.rs watch: only a user's cancel hides a saved snapshot.
THEOREM RSavedIsStopped == Spec => []SavedIsStopped
<1>1. IInv => SavedIsStopped
  BY DEF IInv, Rest, RecordInv
<1> QED BY <1>1, RInv, PTL

\* train.rs: run.json is true, complete, and keeps a stop that was asked for.
THEOREM RRecordHolds == Spec => []RecordHolds
<1>1. RecordIsTrue /\ NothingMissing /\ SavedIsStopped => RecordHolds
  BY DEF RecordHolds
<1> QED BY <1>1, RRecordIsTrue, RNothingMissing, RSavedIsStopped, PTL

\* snapshot.rs with_request_watch: a process that only follows a recorded job that
\* was asked for nothing never cancels it.
THEOREM ROnlyAskedIsCancelled == Spec => []OnlyAskedIsCancelled
<1>1. IInv => OnlyAskedIsCancelled
  BY DEF IInv, Rest, FallbackInv, TypeOK, Record, OnlyAskedIsCancelled
<1> QED BY <1>1, RInv, PTL

\* One step alone changes the state of a run that ended: `train cancel` reading
\* its job back.
LEMMA StateSteps ==
  ASSUME IInv, Next, run.state \in Ended, run'.state # run.state
  PROVE  ReadBack /\ Status = "cancelled"
<1> USE DEF IInv, Rest, TypeOK, RunInv, Ended, Record,
      Launching, Judging, Following, Judged
<1>1. ASSUME TargetNext PROVE FALSE
  BY <1>1 DEF TargetNext, TargetAlone
<1>2. ASSUME StartNext PROVE FALSE
  BY <1>2 DEF StartNext, Create, LaunchFails, Spawned, RecordStarted,
     RecordStartedFails, Undo, Undone, Fails, Goes
<1>3. ASSUME FollowNext PROVE FALSE
  BY <1>3 DEF FollowNext, Retry, Poll, Drain, ReadProof, ReadProofFails,
     Retrieve, RetrieveCheckpoint, RetrieveFails, Save, SaveFails, Fails
<1>4. ASSUME FallbackNext PROVE FALSE
  BY <1>4 DEF FallbackNext, SeesRequest, ProofTimer, LateProof, LateCheck,
     EndTimer, LateStop, LateCancel, LateCancelled, LateFails, Beside
<1>5. ASSUME CancelNext PROVE ReadBack /\ Status = "cancelled"
  BY <1>5 DEF CancelNext, Cancel, CancelCalls, CancelAnswers, ReadBack,
     Copies, CopiesFail, CancelFails, Fails
<1>6. ASSUME CollectNext PROVE FALSE
  BY <1>6 DEF CollectNext, Attach, AttachEnded, AttachPod, Collect,
     CollectCheckpoint, CollectFails, Renote, RenoteFails, Fails, vars
<1>7. ASSUME StopNext \/ Crash PROVE FALSE
  BY <1>7 DEF StopNext, Stop, StopRequests, StopElsewhere, Crash
<1> QED BY <1>1, <1>2, <1>3, <1>4, <1>5, <1>6, <1>7 DEF Next

\* train.rs cancel: an ended run only becomes cancelled, by `train cancel`, and
\* not when its job had left an exit code before any cancel.
THEOREM RResultStays == Spec => ResultStays
<1> DEFINE Stays == run.state \in Ended /\ run'.state # run.state =>
                      /\ run'.state = "Cancelled" /\ before # "none"
                      /\ exit = "none" \/ late
<1>1. IInv /\ [Next]_vars => [Stays]_vars
  <2> SUFFICES ASSUME IInv, Next, run.state \in Ended, run'.state # run.state
               PROVE  /\ run'.state = "Cancelled" /\ before # "none"
                      /\ exit = "none" \/ late
    BY DEF vars
  <2>1. ReadBack /\ Status = "cancelled"
    BY StateSteps
  <2>2. pc = "readback" /\ run' = [run EXCEPT !.state = "Cancelled", !.note = FALSE]
    BY <2>1 DEF ReadBack
  <2>3. run'.state = "Cancelled"
    BY <2>2 DEF IInv, TypeOK, Record
  <2>4. before # "none"
    BY <2>2 DEF IInv, Rest, RunInv, Cancelling
  <2>5. exit = "none" \/ late
    BY <2>1 DEF Status, IInv, Rest, TargetInv, TypeOK
  <2> QED BY <2>3, <2>4, <2>5
<1> QED BY <1>1, RInv, PTL DEF Spec, ResultStays

StatusSeen == IF job = "none" THEN "running" ELSE job

LEMMA CancelFollows ==
  ASSUME IInv, CallsCancel
  PROVE  Target!Next \/ UNCHANGED <<StatusSeen, marked>>
<1>1. CASE exit # "none" \/ job = "cancelled"
  BY <1>1 DEF CallsCancel, target, StatusSeen
<1>2. CASE ~(exit # "none" \/ job = "cancelled")
  <2>1. /\ marked' = TRUE
        /\ job' = IF job = "lost" THEN "cancelled" ELSE job
    BY <1>2 DEF CallsCancel
  <2>2. CASE marked = TRUE
    BY <2>1, <2>2 DEF IInv, Rest, TargetInv, StatusSeen
  <2>3. CASE marked = FALSE
    BY <2>1, <2>3 DEF StatusSeen, Target!Next, Target!CancelMarks
  <2> QED BY <2>2, <2>3 DEF IInv, TypeOK
<1> QED BY <1>1, <1>2

LEMMA TargetFollows ==
  ASSUME IInv, TargetNext
  PROVE  Target!Next \/ UNCHANGED <<StatusSeen, marked>>
<1>1. CASE JobEnds
  BY <1>1 DEF JobEnds, StatusSeen, Target!Next, Target!Ends, Target!Cancelled,
     IInv, TypeOK
<1>2. CASE PluginProves
  BY <1>2 DEF PluginProves, StatusSeen
<1>3. CASE ScriptEnds
  BY <1>3 DEF ScriptEnds, StatusSeen, Target!Next, Target!Cancelled, IInv,
     Rest, TargetInv
<1> QED BY <1>1, <1>2, <1>3 DEF TargetNext

\* script.rs: the job as RunFlow abstracts it follows what its executor promises.
THEOREM RFollowsStatus == Spec => FollowsStatus
<1>1. Init => Target!Init
  BY DEF Init, Target!Init
<1>2. IInv /\ [Next]_vars => [Target!Next]_<<StatusSeen, marked>>
  <2> SUFFICES ASSUME IInv, [Next]_vars
               PROVE  Target!Next \/ UNCHANGED <<StatusSeen, marked>>
    OBVIOUS
  <2> USE DEF target, StatusSeen
  <2>1. CASE TargetNext
    BY <2>1, TargetFollows
  <2>2. CASE StartNext
    <3>1. CASE Undo
      BY <3>1, CancelFollows DEF Undo
    <3>2. CASE LaunchFails \/ Spawned
      BY <3>2 DEF LaunchFails, Spawned, Goes, IInv, Rest, RunInv
    <3>3. CASE Create \/ RecordStarted \/ RecordStartedFails \/ Undone
      BY <3>3 DEF Create, Starts, RecordStarted, RecordStartedFails, Undone,
         Fails
    <3> QED BY <2>2, <3>1, <3>2, <3>3 DEF StartNext
  <2>3. CASE FollowNext
    BY <2>3 DEF FollowNext, Retry, Poll, Drain, ReadProof, ReadProofFails,
       Retrieve, RetrieveCheckpoint, RetrieveFails, Save, SaveFails, Fails
  <2>4. CASE FallbackNext
    <3>1. CASE LateCancel
      BY <3>1, CancelFollows DEF LateCancel
    <3>2. CASE ~LateCancel
      BY <2>4, <3>2 DEF FallbackNext, SeesRequest, ProofTimer, LateProof,
         LateCheck, EndTimer, LateStop, LateCancelled, LateFails
    <3> QED BY <3>1, <3>2
  <2>5. CASE CancelNext
    <3>1. CASE CancelCalls
      BY <3>1, CancelFollows DEF CancelCalls
    <3>2. CASE ~CancelCalls
      BY <2>5, <3>2 DEF CancelNext, Cancel, Starts, CancelAnswers, ReadBack,
         Copies, CopiesFail, CancelFails, Fails
    <3> QED BY <3>1, <3>2
  <2>6. CASE CollectNext
    BY <2>6 DEF CollectNext, Attach, AttachEnded, AttachPod, Starts, Collect,
       CollectCheckpoint, CollectFails, Renote, RenoteFails, Fails, vars,
       fallback
  <2>7. CASE StopNext \/ Crash
    BY <2>7 DEF StopNext, Stop, Starts, StopRequests, StopElsewhere, Requests,
       Crash
  <2>8. CASE UNCHANGED vars
    BY <2>8 DEF vars
  <2> QED BY <2>1, <2>2, <2>3, <2>4, <2>5, <2>6, <2>7, <2>8 DEF Next
<1> QED
  BY <1>1, <1>2, RInv, PTL DEF Spec, FollowsStatus, Target!Spec, StatusSeen

-----------------------------------------------------------------------------
(* Neither a follow nor a stop goes round for ever: what FlowsEnd says, but *)
(* for the fairness that makes the process take its steps.                  *)

\* How far a follow of a job that ended is from its end: its steps, each with
\* the retries left.
StepsLeft ==
  IF pc = "follow" THEN 6
  ELSE IF pc = "drain" THEN 5
  ELSE IF pc = "outcome" THEN 4
  ELSE IF pc = "retrieve" THEN 3
  ELSE IF pc = "checkpoint" THEN 2
  ELSE IF pc = "save" THEN 1 ELSE 0
FollowLeft == StepsLeft * (MAX_FAILURES + 1) + (MAX_FAILURES - failures)

\* How far the fallback of a stop is from its end.
StopLeft ==
  IF fb = "proof" THEN 7
  ELSE IF fb = "check" THEN 6
  ELSE IF fb = "check2" THEN 5
  ELSE IF fb = "end" THEN 4
  ELSE IF fb = "late" THEN 3
  ELSE IF fb = "tocancel" THEN 2
  ELSE IF fb = "cancelling" THEN 1 ELSE 0

\* train.rs follow: once the job has ended, each step of the follow, a failed call
\* included, leaves fewer; nothing else gives it more to do or restarts the job.
FollowAdvances ==
  [][Finished /\ pc \in Following =>
       /\ Finished' /\ pc' \in Following \cup {"idle"}
       /\ FollowLeft' <= FollowLeft
       /\ (FollowNext => FollowLeft' < FollowLeft)]_vars

\* snapshot.rs with_stop_fallback: each step of the fallback leaves fewer, and
\* nothing else gives it more to do.
StopAdvances ==
  [][StopLeft > 0 =>
       /\ StopLeft' <= StopLeft
       /\ (FallbackNext => StopLeft' < StopLeft)]_vars

\* snapshot.rs with_stop_fallback: a fallback that is over left a job that ended,
\* or met a call that failed.
StopDelivers == fb = "over" => Finished \/ erred

LEMMA FollowCounts ==
  ASSUME TypeOK
  PROVE  /\ FollowLeft \in Nat /\ MAX_FAILURES \in Nat /\ failures \in 0 .. MAX_FAILURES
         /\ pc \in Following => FollowLeft >= MAX_FAILURES + 1
<1>1. MAX_FAILURES \in Nat /\ failures \in 0 .. MAX_FAILURES
  BY FailuresAssumption DEF TypeOK
<1>2. StepsLeft \in 0 .. 6 /\ (pc \in Following => StepsLeft >= 1)
  BY DEF StepsLeft, Following, Judging
<1> DEFINE N == MAX_FAILURES + 1
<1>3. /\ StepsLeft * N \in Nat
      /\ pc \in Following => StepsLeft * N >= N
  <2>1. StepsLeft \in {0, 1, 2, 3, 4, 5, 6}
    BY <1>2
  <2> QED  BY <1>1, <1>2, <2>1
<1> QED  BY <1>1, <1>3 DEF FollowLeft

LEMMA FollowLater ==
  ASSUME TypeOK'
  PROVE  FollowLeft' \in Nat
<1>1. MAX_FAILURES \in Nat /\ failures' \in 0 .. MAX_FAILURES
  BY FailuresAssumption DEF TypeOK
<1>2. ASSUME NEW s \in {0, 1, 2, 3, 4, 5, 6}
      PROVE  s * (MAX_FAILURES + 1) + (MAX_FAILURES - failures') \in Nat
  <2>1. s * (MAX_FAILURES + 1) \in Nat
    BY <1>1
  <2>2. MAX_FAILURES - failures' \in Nat
    <3>1. \A m \in Nat : \A f \in 0 .. m : m - f \in Nat
      OBVIOUS
    <3> QED  BY <1>1, <3>1
  <2>3. \A m, n \in Nat : m + n \in Nat
    OBVIOUS
  <2> QED  BY <2>1, <2>2, <2>3, Zenon
<1>3. StepsLeft' \in {0, 1, 2, 3, 4, 5, 6}
  BY DEF StepsLeft
<1> QED  BY <1>2, <1>3 DEF FollowLeft

\* A command that ends has no step left.
LEMMA EndsLeft ==
  ASSUME TypeOK, pc \in Following, Ends
  PROVE  FollowLeft' < FollowLeft /\ pc' = "idle"
<1>1. FollowLeft' = MAX_FAILURES /\ pc' = "idle"
  <2>1. StepsLeft' = 0 /\ failures' = 0 /\ pc' = "idle"
    BY DEF Ends, StepsLeft
  <2> QED  BY <2>1, FailuresAssumption DEF FollowLeft
<1> QED  BY <1>1, FollowCounts

LEMMA FollowStepCounts ==
  ASSUME TypeOK, pc \in Following, Finished, FollowNext
  PROVE  FollowLeft' < FollowLeft /\ pc' \in Following \cup {"idle"}
<1> USE FollowCounts
<1>1. CASE Retry
  <2>1. CASE failures < MAX_FAILURES /\ failures' = failures + 1 /\ UNCHANGED pc
    BY <2>1 DEF FollowLeft, StepsLeft, Following, Judging
  <2> QED  BY <1>1, <2>1, EndsLeft DEF Retry, Fails
<1>2. CASE Poll
  BY <1>2 DEF Poll, FollowLeft, StepsLeft, Following, Judging
<1>3. CASE Drain \/ ReadProof \/ Retrieve \/ RetrieveCheckpoint
  BY <1>3 DEF Drain, ReadProof, Retrieve, RetrieveCheckpoint, Goes, FollowLeft,
     StepsLeft, Following, Judging
<1>4. CASE RetrieveFails
  <2>1. CASE Goes("retrieve", "save")
    BY <2>1 DEF Goes, FollowLeft, StepsLeft, Following, Judging
  <2> QED  BY <1>4, <2>1, EndsLeft DEF RetrieveFails
<1>5. CASE ReadProofFails \/ Save \/ SaveFails
  BY <1>5, EndsLeft DEF ReadProofFails, Save, SaveFails, Fails
<1> QED  BY <1>1, <1>2, <1>3, <1>4, <1>5 DEF FollowNext

\* The steps that are not the follow's, while it goes on.
Elsewhere ==
  \/ TargetNext \/ FallbackNext \/ StopElsewhere \/ Crash \/ UNCHANGED vars

LEMMA FollowAlone ==
  ASSUME pc \in Following, [Next]_vars
  PROVE  FollowNext \/ Elsewhere
<1>1. ~StartNext
  BY DEF StartNext, Following, Judging, Create, LaunchFails, Spawned, RecordStarted,
     RecordStartedFails, Undo, Undone, Starts, Goes, Fails
<1>2. ~CancelNext
  BY DEF CancelNext, Following, Judging, Cancel, CancelCalls, CancelAnswers, ReadBack,
     Copies, CopiesFail, CancelFails, Starts, Goes, Fails
<1>3. ~CollectNext
  BY DEF CollectNext, Following, Judging, Attach, AttachEnded, AttachPod, Collect,
     CollectCheckpoint, CollectFails, Renote, RenoteFails, Starts, Goes, Fails
<1>4. ~Stop /\ ~StopRequests
  BY DEF Stop, StopRequests, Following, Judging, Starts
<1> QED  BY <1>1, <1>2, <1>3, <1>4 DEF Next, StopNext, Elsewhere

\* They leave the flow where it is, or end it.
LEMMA BesideKeeps ==
  ASSUME Elsewhere
  PROVE  /\ UNCHANGED <<pc, failures>> \/ Ends
         /\ Finished => Finished'
<1>1. CASE TargetNext
  BY <1>1 DEF TargetNext, TargetAlone, JobEnds, PluginProves, ScriptEnds, Finished
<1>2. CASE FallbackNext
  BY <1>2 DEF FallbackNext, SeesRequest, ProofTimer, LateProof, LateCheck, EndTimer,
     LateStop, LateCancel, LateCancelled, LateFails, Beside, CallsCancel, target, Finished
<1>3. CASE StopElsewhere \/ Crash \/ UNCHANGED vars
  BY <1>3 DEF StopElsewhere, Requests, Crash, vars, target, Finished
<1> QED  BY <1>1, <1>2, <1>3 DEF Elsewhere

LEMMA FollowTarget ==
  ASSUME FollowNext
  PROVE  UNCHANGED target
BY DEF FollowNext, Retry, Poll, Drain, ReadProof, ReadProofFails, Retrieve,
   RetrieveCheckpoint, RetrieveFails, Save, SaveFails, Fails

\* train.rs follow: a follow of a job that ended takes finitely many steps, for any
\* budget of retries.
THEOREM RFollowAdvances == Spec => FollowAdvances
<1>1. TypeOK /\ [Next]_vars =>
        [Finished /\ pc \in Following =>
          /\ Finished' /\ pc' \in Following \cup {"idle"}
          /\ FollowLeft' <= FollowLeft
          /\ (FollowNext => FollowLeft' < FollowLeft)]_vars
  <2> SUFFICES ASSUME TypeOK, [Next]_vars, Finished, pc \in Following
               PROVE  /\ Finished' /\ pc' \in Following \cup {"idle"}
                      /\ FollowLeft' <= FollowLeft
                      /\ (FollowNext => FollowLeft' < FollowLeft)
    OBVIOUS
  <2>1. FollowLeft \in Nat /\ FollowLeft' \in Nat
    BY FollowCounts, FollowLater, NextTypes
  <2>2. CASE FollowNext
    BY <2>1, <2>2, FollowStepCounts, FollowTarget DEF Finished, target
  <2>3. CASE ~FollowNext
    <3>1. Elsewhere
      BY <2>3, FollowAlone
    <3>2. CASE Ends
      BY <2>1, <2>3, <3>1, <3>2, EndsLeft, BesideKeeps
    <3>3. CASE UNCHANGED <<pc, failures>>
      <4>1. FollowLeft' = FollowLeft
        BY <3>3 DEF FollowLeft, StepsLeft
      <4> QED  BY <2>1, <2>3, <3>1, <3>3, <4>1, BesideKeeps
    <3> QED  BY <3>1, <3>2, <3>3, BesideKeeps
  <2> QED  BY <2>2, <2>3
<1> QED  BY <1>1, RTypeOK, PTL DEF Spec, FollowAdvances

LEMMA StopStepCounts ==
  ASSUME StopLeft > 0, FallbackNext
  PROVE  StopLeft' < StopLeft
BY DEF FallbackNext, SeesRequest, ProofTimer, LateProof, LateCheck, EndTimer,
   LateStop, LateCancel, LateCancelled, LateFails, Beside, StopLeft

\* snapshot.rs with_stop_fallback: the fallback takes finitely many steps.
THEOREM RStopAdvances == Spec => StopAdvances
<1>1. IInv /\ [Next]_vars =>
        [StopLeft > 0 =>
          /\ StopLeft' <= StopLeft
          /\ (FallbackNext => StopLeft' < StopLeft)]_vars
  <2> SUFFICES ASSUME IInv, [Next]_vars, StopLeft > 0
               PROVE  /\ StopLeft' <= StopLeft
                      /\ (FallbackNext => StopLeft' < StopLeft)
    OBVIOUS
  <2>1. pc \in Following
    BY DEF IInv, Rest, FallbackInv, StopLeft
  <2>2. StopLeft \in Nat /\ StopLeft' \in Nat
    BY DEF StopLeft
  <2>3. CASE FallbackNext
    BY <2>2, <2>3, StopStepCounts
  <2>4. CASE ~FallbackNext
    <3>1. UNCHANGED fb \/ fb' = "off"
      <4>1. CASE FollowNext
        BY <4>1 DEF FollowNext, Retry, Poll, Drain, ReadProof, ReadProofFails,
           Retrieve, RetrieveCheckpoint, RetrieveFails, Save, SaveFails, Fails,
           Goes, Ends, fallback
      <4>2. CASE Elsewhere
        BY <2>4, <4>2 DEF Elsewhere, TargetNext, TargetAlone, StopElsewhere, Crash,
           Ends, fallback, vars
      <4> QED  BY <2>1, <4>1, <4>2, FollowAlone
    <3>2. StopLeft' <= StopLeft
      BY <2>2, <3>1 DEF StopLeft
    <3> QED  BY <2>4, <3>2
  <2> QED  BY <2>3, <2>4
<1> QED  BY <1>1, RInv, PTL DEF Spec, StopAdvances

\* A cancel the fallback waits for ended the job, runs, or failed.
CallInv ==
  fb = "cancelling" => exit # "none" \/ job = "cancelled" \/ script # "none"

\* snapshot.rs with_stop_fallback: a stop that was waited for to its end left a job
\* that ended, unless a call of it failed.
THEOREM RStopDelivers == Spec => []StopDelivers
<1>1. Init => CallInv /\ StopDelivers
  BY DEF Init, CallInv, StopDelivers
<1>2. IInv /\ CallInv /\ StopDelivers /\ [Next]_vars => CallInv' /\ StopDelivers'
  <2> SUFFICES ASSUME IInv, CallInv, StopDelivers, [Next]_vars
               PROVE  CallInv' /\ StopDelivers'
    OBVIOUS
  <2>1. CASE TargetNext
    BY <2>1 DEF TargetNext, TargetAlone, JobEnds, PluginProves, ScriptEnds, fallback,
       CallInv, StopDelivers, Finished
  <2>2. CASE FallbackNext
    <3>1. CASE LateCancel
      BY <3>1 DEF LateCancel, Beside, CallsCancel, target, CallInv, StopDelivers
    <3>2. CASE LateCancelled
      <4>1. job # "running"
        BY <3>2 DEF LateCancelled, Beside, CallInv, IInv, Rest, TargetInv
      <4> QED  BY <3>2, <4>1 DEF LateCancelled, Beside, target, CallInv, StopDelivers,
                   Finished
    <3>3. CASE FallbackNext /\ ~LateCancel /\ ~LateCancelled
      BY <3>3 DEF FallbackNext, SeesRequest, ProofTimer, LateProof, LateCheck, EndTimer,
         LateStop, LateFails, Beside, target, CallInv, StopDelivers, Finished
    <3> QED  BY <2>2, <3>1, <3>2, <3>3
  <2>3. CASE FollowNext
    <3>1. (UNCHANGED <<fb, erred>>) \/ fb' = "off"
      BY <2>3 DEF FollowNext, Retry, Poll, Drain, ReadProof, ReadProofFails,
         Retrieve, RetrieveCheckpoint, RetrieveFails, Save, SaveFails, Fails,
         Goes, Ends, fallback
    <3> QED  BY <2>3, <3>1, FollowTarget DEF target, CallInv, StopDelivers, Finished
  <2>4. CASE StopElsewhere \/ Crash \/ UNCHANGED vars
    BY <2>4 DEF StopElsewhere, Requests, Crash, Ends, vars, target, fallback,
       CallInv, StopDelivers, Finished
  <2>5. CASE pc \notin Following /\ (StartNext \/ CancelNext \/ CollectNext \/ StopNext)
    <3>1. fb = "off"
      BY <2>5 DEF IInv, Rest, FallbackInv
    <3>2. fb' \in {"off", "watching", "proof"}
      <4>1. CASE StartNext
        BY <3>1, <4>1 DEF StartNext, Create, LaunchFails, Spawned, RecordStarted,
           RecordStartedFails, Undo, Undone, Starts, Goes, Follows, Fails, Ends, fallback
      <4>2. CASE CancelNext
        BY <3>1, <4>2 DEF CancelNext, Cancel, CancelCalls, CancelAnswers, ReadBack,
           Copies, CopiesFail, CancelFails, Starts, Goes, Fails, Ends, fallback
      <4>3. CASE CollectNext
        BY <3>1, <4>3 DEF CollectNext, Attach, AttachEnded, AttachPod, Collect,
           CollectCheckpoint, CollectFails, Renote, RenoteFails, Starts, Goes, Follows,
           Fails, Ends, fallback, vars
      <4>4. CASE StopNext
        BY <3>1, <4>4 DEF StopNext, Stop, StopRequests, StopElsewhere, Starts, Follows,
           fallback
      <4> QED  BY <2>5, <4>1, <4>2, <4>3, <4>4
    <3> QED  BY <3>2 DEF CallInv, StopDelivers
  <2> QED  BY <2>1, <2>2, <2>3, <2>4, <2>5, FollowAlone DEF Elsewhere, Next
<1> QED  BY <1>1, <1>2, RInv, PTL DEF Spec

=============================================================================
