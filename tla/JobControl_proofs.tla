-------------------------- MODULE JobControl_proofs --------------------------
(***************************************************************************)
(* The theorems of JobControl, for any number of cancels and readers.      *)
(*                                                                         *)
(* The job and the cancels only ever move one way: the group never comes   *)
(* back, a marker or an exit code never goes, and nothing ends a script    *)
(* twice.  What a read has learned by its last test therefore still holds  *)
(* at its next one, whatever happens in between.                           *)
(***************************************************************************)
EXTENDS JobControl, TLAPS

\* The script is over exactly when something ended it, and a cancel ended it
\* only once the job was marked.
CauseInv ==
  /\ (cause = "none") <=> (leader = "script")
  /\ cause \in {"stopped", "signal"} => cancelling

\* What the place of a cancel says of the files and of the group.
CancelInv ==
  /\ \A c \in Cancels :
       /\ pc[c] \in {"marked", "stopped", "termed", "killed", "gone"} => cancelling
       /\ pc[c] = "gone" => ~Alive
  /\ cancelled => cancelling /\ ~Alive
  /\ untouched => exit /\ ~cancelled /\ \A c \in Cancels : ~InFlight(c)

\* What reader r has learned.
Learned(r) ==
  /\ rpc[r] # "done" => answer[r] = "none"
  /\ rpc[r] = "idle" => since[r] = {}
  /\ rpc[r] # "idle" /\ alive[r] = FALSE => ~Alive
  /\ "cancelling" \in since[r] => cancelling
  /\ "untouched" \in since[r] => untouched
  /\ rpc[r] \in {"exit", "marker", "liveness"} /\ "cancelling" \in since[r]
       => alive[r] = FALSE
  /\ rpc[r] \in {"marker", "liveness"} => "untouched" \notin since[r]
  /\ rpc[r] \in {"marker", "liveness"} /\ alive[r] = FALSE => ~exit
  /\ rpc[r] = "liveness" /\ alive[r] = FALSE => cause \in {"own", "outside"}

\* The properties, of the last answer of reader r.
Answered(r) ==
  /\ answer[r] = "lost" => ~Alive /\ ~exit /\ cause \in {"own", "outside"}
  /\ answer[r] = "cancelled" /\ "cancelling" \in since[r] => ~Alive
  /\ "untouched" \in since[r] => answer[r] \in {"none", "exited", "running"}

IInv ==
  /\ TypeOK /\ CauseInv /\ CancelInv
  /\ \A r \in Readers : Learned(r) /\ Answered(r)

\* In the first state nothing has happened.
LEMMA InitIInv == Init => IInv
<1> SUFFICES ASSUME Init PROVE IInv
  OBVIOUS
<1> USE DEF Init
<1>1. TypeOK
  BY DEF TypeOK, Steps, Facts
<1>2. CauseInv /\ CancelInv
  BY DEF CauseInv, CancelInv, InFlight, Steps
<1>3. \A r \in Readers : Learned(r) /\ Answered(r)
  BY DEF Learned, Answered
<1>4. QED BY <1>1, <1>2, <1>3 DEF IInv

\* The way every step but a reader's goes.
Onward ==
  /\ UNCHANGED readers
  /\ ~Alive => ~Alive' /\ cause' = cause /\ (exit' <=> exit)
  /\ cancelling => cancelling'
  /\ untouched => untouched'

\* What the readers learned survives such a step.
LEMMA ReadersKeep ==
  IInv /\ Onward => \A r \in Readers : Learned(r)' /\ Answered(r)'
<1> SUFFICES ASSUME IInv, Onward, NEW r \in Readers
             PROVE Learned(r)' /\ Answered(r)'
  OBVIOUS
<1>1. Learned(r) /\ Answered(r)
  BY DEF IInv
<1>2. UNCHANGED <<rpc, alive, answer, since>>
  BY DEF Onward, readers
<1>3. Learned(r)'
  BY <1>1, <1>2 DEF Onward, Learned
<1>4. Answered(r)'
  BY <1>1, <1>2 DEF Onward, Answered
<1>5. QED BY <1>3, <1>4

\* A signal only ever takes members from the group.
LEMMA GroupShrinks ==
  ASSUME TypeOK, GroupSignal
  PROVE  /\ ~Alive => ~Alive' /\ cause' = cause
         /\ leader' # "script"
         /\ leader = "script" => cause' = "signal"
         /\ leader # "script" => cause' = cause
         /\ leader' = "gone" <=> leader = "gone"
         /\ child' => child
<1>1. child' => child
  BY DEF GroupSignal, TypeOK
<1>2. QED BY <1>1 DEF GroupSignal, TypeOK, Alive

\* The job: its group shrinks, and its exit code is written while it is there.
LEMMA JobKeepsIInv == IInv /\ JobNext => IInv'
<1> SUFFICES ASSUME IInv, JobNext PROVE IInv'
  OBVIOUS
<1> USE DEF IInv, files, job, readers
<1>1. CASE ScriptEnds
  <2> USE <1>1 DEF ScriptEnds
  <2>1. TypeOK'
    BY DEF TypeOK, Steps, Down
  <2>2. CauseInv'
    BY DEF CauseInv, CancelInv
  <2>3. CancelInv'
    BY DEF CauseInv, CancelInv, TypeOK, Alive, InFlight, Steps
  <2>4. Onward
    BY DEF CauseInv, CancelInv, Onward, Alive
  <2>5. QED BY <2>1, <2>2, <2>3, <2>4, ReadersKeep DEF IInv
<1>2. CASE Records
  <2> USE <1>2 DEF Records
  <2>1. TypeOK'
    BY DEF TypeOK, Steps, Down
  <2>2. CauseInv'
    BY DEF CauseInv, CancelInv
  <2>3. CancelInv'
    BY DEF CauseInv, CancelInv, TypeOK, Alive, InFlight, Steps
  <2>4. Onward
    BY DEF CauseInv, CancelInv, Onward, Alive
  <2>5. QED BY <2>1, <2>2, <2>3, <2>4, ReadersKeep DEF IInv
<1>3. CASE RecordFails
  <2> USE <1>3 DEF RecordFails
  <2>1. TypeOK'
    BY DEF TypeOK, Steps, Down
  <2>2. CauseInv'
    BY DEF CauseInv, CancelInv
  <2>3. CancelInv'
    BY DEF CauseInv, CancelInv, TypeOK, Alive, InFlight, Steps
  <2>4. Onward
    BY DEF CauseInv, CancelInv, Onward, Alive
  <2>5. QED BY <2>1, <2>2, <2>3, <2>4, ReadersKeep DEF IInv
<1>4. CASE Exits
  <2> USE <1>4 DEF Exits
  <2>1. TypeOK'
    BY DEF TypeOK, Steps, Down
  <2>2. CauseInv'
    BY DEF CauseInv, CancelInv
  <2>3. CancelInv'
    BY DEF CauseInv, CancelInv, TypeOK, Alive, InFlight, Steps
  <2>4. Onward
    BY DEF CauseInv, CancelInv, Onward, Alive
  <2>5. QED BY <2>1, <2>2, <2>3, <2>4, ReadersKeep DEF IInv
<1>5. CASE Reaped
  <2> USE <1>5 DEF Reaped
  <2>1. TypeOK'
    BY DEF TypeOK, Steps, Down
  <2>2. CauseInv'
    BY DEF CauseInv, CancelInv
  <2>3. CancelInv'
    BY DEF CauseInv, CancelInv, TypeOK, Alive, InFlight, Steps
  <2>4. Onward
    BY DEF CauseInv, CancelInv, Onward, Alive
  <2>5. QED BY <2>1, <2>2, <2>3, <2>4, ReadersKeep DEF IInv
<1>6. CASE ChildEnds
  <2> USE <1>6 DEF ChildEnds
  <2>1. TypeOK'
    BY DEF TypeOK, Steps, Down
  <2>2. CauseInv'
    BY DEF CauseInv, CancelInv
  <2>3. CancelInv'
    BY DEF CauseInv, CancelInv, TypeOK, Alive, InFlight, Steps
  <2>4. Onward
    BY DEF CauseInv, CancelInv, Onward, Alive
  <2>5. QED BY <2>1, <2>2, <2>3, <2>4, ReadersKeep DEF IInv
<1>7. CASE Killed
  <2> USE <1>7 DEF Killed
  <2>1. TypeOK'
    BY DEF TypeOK, Steps, Down
  <2>2. CauseInv'
    BY DEF CauseInv, CancelInv
  <2>3. CancelInv'
    BY DEF CauseInv, CancelInv, TypeOK, Alive, InFlight, Steps
  <2>4. Onward
    BY DEF CauseInv, CancelInv, Onward, Alive
  <2>5. QED BY <2>1, <2>2, <2>3, <2>4, ReadersKeep DEF IInv
<1>8. QED BY <1>1, <1>2, <1>3, <1>4, <1>5, <1>6, <1>7 DEF JobNext

\* A cancel: it marks before it signals, and waits before it is done.
LEMMA CancelKeepsIInv ==
  ASSUME NEW c \in Cancels, IInv, CancelNext(c) PROVE IInv'
<1> USE DEF IInv, files, job, readers
<1>1. CASE CancelBegins(c)
  <2> USE <1>1 DEF CancelBegins, CancelStep
  <2>1. TypeOK'
    BY DEF TypeOK, Steps, Down
  <2>2. CauseInv'
    BY DEF CauseInv, CancelInv
  <2>3. CancelInv'
    BY DEF CauseInv, CancelInv, TypeOK, Alive, InFlight, Steps
  <2>4. Onward
    BY DEF CauseInv, CancelInv, Onward, Alive
  <2>5. QED BY <2>1, <2>2, <2>3, <2>4, ReadersKeep DEF IInv
<1>2. CASE Mark(c)
  <2> USE <1>2 DEF Mark, CancelStep
  <2>1. TypeOK'
    BY DEF TypeOK, Steps, Down
  <2>2. CauseInv'
    BY DEF CauseInv, CancelInv
  <2>3. CancelInv'
    BY DEF CauseInv, CancelInv, TypeOK, Alive, InFlight, Steps
  <2>4. Onward
    BY DEF CauseInv, CancelInv, Onward, Alive
  <2>5. QED BY <2>1, <2>2, <2>3, <2>4, ReadersKeep DEF IInv
<1>3. CASE StopContainer(c)
  <2> USE <1>3 DEF StopContainer, CancelStep
  <2>1. TypeOK'
    BY DEF TypeOK, Steps, Down
  <2>2. CauseInv'
    BY DEF CauseInv, CancelInv
  <2>3. CancelInv'
    BY DEF CauseInv, CancelInv, TypeOK, Alive, InFlight, Steps
  <2>4. Onward
    BY DEF CauseInv, CancelInv, Onward, Alive
  <2>5. QED BY <2>1, <2>2, <2>3, <2>4, ReadersKeep DEF IInv
<1>4. CASE Term(c)
  <2> USE <1>4 DEF Term, CancelStep
  <2>1. TypeOK'
    BY DEF TypeOK, Steps, GroupSignal
  <2>2. CauseInv'
    BY GroupShrinks DEF CauseInv, CancelInv
  <2>3. CancelInv'
    BY GroupShrinks DEF CancelInv, TypeOK, InFlight, Steps
  <2>4. Onward
    BY GroupShrinks DEF Onward
  <2>5. QED BY <2>1, <2>2, <2>3, <2>4, ReadersKeep DEF IInv
<1>5. CASE Kill(c)
  <2> USE <1>5 DEF Kill, CancelStep
  <2>1. TypeOK'
    BY DEF TypeOK, Steps, GroupSignal
  <2>2. CauseInv'
    BY GroupShrinks DEF CauseInv, CancelInv
  <2>3. CancelInv'
    BY GroupShrinks DEF CancelInv, TypeOK, InFlight, Steps
  <2>4. Onward
    BY GroupShrinks DEF Onward
  <2>5. QED BY <2>1, <2>2, <2>3, <2>4, ReadersKeep DEF IInv
<1>6. CASE SeesGone(c)
  <2> USE <1>6 DEF SeesGone, CancelStep
  <2>1. TypeOK'
    BY DEF TypeOK, Steps, Down
  <2>2. CauseInv'
    BY DEF CauseInv, CancelInv
  <2>3. CancelInv'
    BY DEF CauseInv, CancelInv, TypeOK, Alive, InFlight, Steps
  <2>4. Onward
    BY DEF CauseInv, CancelInv, Onward, Alive
  <2>5. QED BY <2>1, <2>2, <2>3, <2>4, ReadersKeep DEF IInv
<1>7. CASE Outlived(c)
  <2> USE <1>7 DEF Outlived, CancelStep
  <2>1. TypeOK'
    BY DEF TypeOK, Steps, Down
  <2>2. CauseInv'
    BY DEF CauseInv, CancelInv
  <2>3. CancelInv'
    BY DEF CauseInv, CancelInv, TypeOK, Alive, InFlight, Steps
  <2>4. Onward
    BY DEF CauseInv, CancelInv, Onward, Alive
  <2>5. QED BY <2>1, <2>2, <2>3, <2>4, ReadersKeep DEF IInv
<1>8. CASE MarkCancelled(c)
  <2> USE <1>8 DEF MarkCancelled, CancelStep
  <2>1. TypeOK'
    BY DEF TypeOK, Steps, Down
  <2>2. CauseInv'
    BY DEF CauseInv, CancelInv
  <2>3. CancelInv'
    BY DEF CauseInv, CancelInv, TypeOK, Alive, InFlight, Steps
  <2>4. Onward
    BY DEF CauseInv, CancelInv, Onward, Alive
  <2>5. QED BY <2>1, <2>2, <2>3, <2>4, ReadersKeep DEF IInv
<1>9. CASE CancelDies(c)
  <2> USE <1>9 DEF CancelDies, CancelStep
  <2>1. TypeOK'
    BY DEF TypeOK, Steps, Down
  <2>2. CauseInv'
    BY DEF CauseInv, CancelInv
  <2>3. CancelInv'
    BY DEF CauseInv, CancelInv, TypeOK, Alive, InFlight, Steps
  <2>4. Onward
    BY DEF CauseInv, CancelInv, Onward, Alive
  <2>5. QED BY <2>1, <2>2, <2>3, <2>4, ReadersKeep DEF IInv
<1>10. QED
  BY <1>1, <1>2, <1>3, <1>4, <1>5, <1>6, <1>7, <1>8, <1>9 DEF CancelNext

\* A reader: each test leaves the next ones what it learned.
LEMMA ReadKeepsIInv ==
  ASSUME NEW r \in Readers, IInv, ReadNext(r) PROVE IInv'
<1> USE DEF IInv
<1>1. UNCHANGED <<job, files, pc>>
  BY DEF ReadNext, Sample, TestsCancel, TestsCancelling, TestsExit, TestsMarker,
     TestsLiveness, Says, Goes
<1>2. CauseInv' /\ CancelInv'
  BY <1>1 DEF CauseInv, CancelInv, job, files, Alive, InFlight
<1>3. ASSUME NEW s \in Readers, s # r PROVE Learned(s)' /\ Answered(s)'
  <2>1. Learned(s) /\ Answered(s)
    OBVIOUS
  <2>2. /\ rpc'[s] = rpc[s] /\ alive'[s] = alive[s]
        /\ answer'[s] = answer[s] /\ since'[s] = since[s]
    BY <1>3 DEF TypeOK, ReadNext, Sample, TestsCancel, TestsCancelling, TestsExit,
       TestsMarker, TestsLiveness, Says, Goes
  <2>3. QED BY <1>1, <2>1, <2>2 DEF Learned, Answered, job, files, Alive
<1>4. TypeOK' /\ Learned(r)' /\ Answered(r)'
  <2> USE <1>1 DEF job, files
  <2>0. Learned(r) /\ Answered(r)
    OBVIOUS
  <2>1. CASE Sample(r)
    <3> USE <2>1 DEF Sample
    <3>1. TypeOK'
      BY DEF TypeOK, Facts, Alive
    <3>2. alive'[r] = Alive /\ rpc'[r] = "cancel" /\ answer'[r] = "none"
      BY DEF TypeOK
    <3>3. since'[r] \subseteq Facts /\ (Alive' <=> Alive)
          /\ ("cancelling" \in since'[r] => cancelling)
          /\ ("untouched" \in since'[r] => untouched)
      BY DEF TypeOK, Facts, Alive
    <3>4. Learned(r)'
      BY <3>2, <3>3 DEF Learned
    <3>5. Answered(r)'
      BY <3>2 DEF Answered
    <3>6. QED BY <3>1, <3>4, <3>5
  <2>2. CASE TestsCancel(r)
    <3> USE <2>2 DEF TestsCancel, Says, Goes
    <3>1. TypeOK'
      BY DEF TypeOK, Facts, Alive
    <3>2. Learned(r)'
      BY <2>0 DEF Learned, TypeOK, Facts, CauseInv, CancelInv, Alive
    <3>3. Answered(r)'
      BY <2>0 DEF Learned, Answered, TypeOK, CancelInv, Alive
    <3>4. QED BY <3>1, <3>2, <3>3
  <2>3. CASE TestsCancelling(r)
    <3> USE <2>3 DEF TestsCancelling, Says, Goes
    <3>1. TypeOK'
      BY DEF TypeOK, Facts, Alive
    <3>2. Learned(r)'
      BY <2>0 DEF Learned, TypeOK, Facts, CauseInv, CancelInv, Alive
    <3>3. Answered(r)'
      BY <2>0 DEF Learned, Answered, TypeOK, CancelInv, Alive
    <3>4. QED BY <3>1, <3>2, <3>3
  <2>4. CASE TestsExit(r)
    <3> USE <2>4 DEF TestsExit, Says, Goes
    <3>1. TypeOK'
      BY DEF TypeOK, Facts, Alive
    <3>2. Learned(r)'
      BY <2>0 DEF Learned, TypeOK, Facts, CauseInv, CancelInv, Alive
    <3>3. Answered(r)'
      BY <2>0 DEF Learned, Answered, TypeOK, CancelInv, Alive
    <3>4. QED BY <3>1, <3>2, <3>3
  <2>5. CASE TestsMarker(r)
    <3> USE <2>5 DEF TestsMarker, Says, Goes
    <3>1. TypeOK'
      BY DEF TypeOK, Facts, Alive
    <3>2. Learned(r)'
      BY <2>0 DEF Learned, TypeOK, Facts, CauseInv, CancelInv, Alive
    <3>3. Answered(r)'
      BY <2>0 DEF Learned, Answered, TypeOK, CancelInv, Alive
    <3>4. QED BY <3>1, <3>2, <3>3
  <2>6. CASE TestsLiveness(r)
    <3> USE <2>6 DEF TestsLiveness, Says, Goes
    <3>1. TypeOK'
      BY DEF TypeOK, Facts, Alive
    <3>2. Learned(r)'
      BY <2>0 DEF Learned, TypeOK, Facts, CauseInv, CancelInv, Alive
    <3>3. Answered(r)'
      BY <2>0 DEF Learned, Answered, TypeOK, CancelInv, Alive
    <3>4. QED BY <3>1, <3>2, <3>3
  <2>7. QED BY <2>1, <2>2, <2>3, <2>4, <2>5, <2>6 DEF ReadNext
<1>5. QED BY <1>2, <1>3, <1>4

\* Stuttering changes none of it.
LEMMA StutterKeepsIInv == IInv /\ UNCHANGED vars => IInv'
<1> SUFFICES ASSUME IInv, UNCHANGED vars PROVE IInv'
  OBVIOUS
<1> USE DEF IInv, vars, job, files, readers
<1>1. TypeOK'
  BY DEF TypeOK
<1>2. CauseInv' /\ CancelInv'
  BY DEF CauseInv, CancelInv, Alive, InFlight
<1>3. Onward
  BY DEF Onward, Alive
<1>4. QED BY <1>1, <1>2, <1>3, ReadersKeep

\* The inductive invariant of the job, its cancels and its readers.
THEOREM JSafety == Spec => []IInv
<1>1. IInv /\ [Next]_vars => IInv'
  BY JobKeepsIInv, CancelKeepsIInv, ReadKeepsIInv, StutterKeepsIInv DEF Next
<1>2. QED BY InitIInv, <1>1, PTL DEF Spec

\* Every variable keeps its type.
THEOREM JTypeOK == Spec => []TypeOK
<1>1. IInv => TypeOK
  BY DEF IInv
<1>2. QED BY <1>1, JSafety, PTL

\* status_script never calls lost a job a cancel stopped, nor one that is there.
THEOREM JLostIsLost == Spec => []LostIsLost
<1>1. IInv => LostIsLost
  BY DEF IInv, Answered, LostIsLost
<1>2. QED BY <1>1, JSafety, PTL

\* A read begun after the marker calls a job cancelled once its group is gone.
THEOREM JCancelledMeansGone == Spec => []CancelledMeansGone
<1>1. IInv => CancelledMeansGone
  BY DEF IInv, Answered, CancelledMeansGone
<1>2. QED BY <1>1, JSafety, PTL

\* What a read of the status says is true of the job, whatever races it.
THEOREM JReadsAreTrue == Spec => []ReadsAreTrue
<1>1. LostIsLost /\ CancelledMeansGone => ReadsAreTrue
  BY DEF ReadsAreTrue
<1>2. QED BY <1>1, JLostIsLost, JCancelledMeansGone, PTL

\* A job that ended by itself, no cancel being under way, keeps its exit code.
THEOREM JFinished == Spec => []FinishedKeepsItsResult
<1>1. IInv => FinishedKeepsItsResult
  BY DEF IInv, CancelInv, Answered, FinishedKeepsItsResult
<1>2. QED BY <1>1, JSafety, PTL

-----------------------------------------------------------------------------
(* The refinement. *)

\* The job's own steps end its status, or leave it as it was.
LEMMA JobImplements ==
  IInv /\ JobNext => Abstract!Ends \/ UNCHANGED <<StatusNow, cancelling>>
               \/ Abstract!Cancelled
<1> SUFFICES ASSUME IInv, JobNext
             PROVE Abstract!Ends \/ Abstract!Cancelled
                   \/ UNCHANGED <<StatusNow, cancelling>>
  OBVIOUS
<1> USE DEF IInv, CauseInv, CancelInv, TypeOK, Alive, StatusNow, Abstract!Ends,
     Abstract!Cancelled, files, job
<1>1. CASE ScriptEnds
  BY <1>1 DEF ScriptEnds
<1>2. CASE Records
  BY <1>2 DEF Records
<1>3. CASE RecordFails
  BY <1>3 DEF RecordFails
<1>4. CASE Exits
  BY <1>4 DEF Exits
<1>5. CASE Reaped
  BY <1>5 DEF Reaped
<1>6. CASE ChildEnds
  BY <1>6 DEF ChildEnds
<1>7. CASE Killed
  BY <1>7 DEF Killed
<1>8. QED BY <1>1, <1>2, <1>3, <1>4, <1>5, <1>6, <1>7 DEF JobNext

\* A cancel's steps mark the job, cancel it, or end it through its group.
LEMMA CancelImplements ==
  ASSUME NEW c \in Cancels, IInv, CancelNext(c)
  PROVE  Abstract!Next \/ UNCHANGED <<StatusNow, cancelling>>
<1> USE DEF IInv, CauseInv, CancelInv, TypeOK, Abstract!Next,
     Abstract!Ends, Abstract!Cancelled, Abstract!CancelMarks, files, job, CancelStep
<1>1. CASE CancelBegins(c)
  BY <1>1 DEF CancelBegins, Alive, StatusNow
<1>2. CASE Mark(c)
  BY <1>2 DEF Mark, Alive, StatusNow
<1>3. CASE StopContainer(c)
  BY <1>3 DEF StopContainer, Alive, StatusNow
<1>4. CASE Term(c)
  <2>1. cancelling /\ UNCHANGED <<exit, cancelling, cancelled>>
    BY <1>4 DEF Term
  <2>2. ~Alive => ~Alive'
    BY <1>4, GroupShrinks DEF Term
  <2>3. \/ StatusNow' = StatusNow
        \/ StatusNow = "running" /\ StatusNow' \in {"exited", "cancelled"}
    BY <2>1, <2>2 DEF StatusNow
  <2>4. QED BY <2>1, <2>3
<1>5. CASE Kill(c)
  <2>1. cancelling /\ UNCHANGED <<exit, cancelling, cancelled>>
    BY <1>5 DEF Kill
  <2>2. ~Alive => ~Alive'
    BY <1>5, GroupShrinks DEF Kill
  <2>3. \/ StatusNow' = StatusNow
        \/ StatusNow = "running" /\ StatusNow' \in {"exited", "cancelled"}
    BY <2>1, <2>2 DEF StatusNow
  <2>4. QED BY <2>1, <2>3
<1>6. CASE SeesGone(c)
  BY <1>6 DEF SeesGone, Alive, StatusNow
<1>7. CASE Outlived(c)
  BY <1>7 DEF Outlived, Alive, StatusNow
<1>8. CASE MarkCancelled(c)
  BY <1>8 DEF MarkCancelled, Alive, StatusNow
<1>9. CASE CancelDies(c)
  BY <1>9 DEF CancelDies, Alive, StatusNow
<1>10. QED
  BY <1>1, <1>2, <1>3, <1>4, <1>5, <1>6, <1>7, <1>8, <1>9 DEF CancelNext

\* The shell scripts keep the executor's promise: what a look at the job answers
\* follows JobStatus.
THEOREM JImplements == Spec => ImplementsStatus
<1>1. Init => Abstract!Init
  BY DEF Init, Abstract!Init, StatusNow, Alive
<1>2. IInv /\ [Next]_vars => [Abstract!Next]_<<StatusNow, cancelling>>
  <2> SUFFICES ASSUME IInv, [Next]_vars
               PROVE Abstract!Next \/ UNCHANGED <<StatusNow, cancelling>>
    OBVIOUS
  <2>1. CASE JobNext
    BY <2>1, JobImplements DEF Abstract!Next
  <2>2. ASSUME NEW c \in Cancels, CancelNext(c)
        PROVE Abstract!Next \/ UNCHANGED <<StatusNow, cancelling>>
    BY <2>2, CancelImplements
  <2>3. ASSUME NEW r \in Readers, ReadNext(r)
        PROVE UNCHANGED <<StatusNow, cancelling>>
    BY <2>3 DEF ReadNext, Sample, TestsCancel, TestsCancelling, TestsExit,
       TestsMarker, TestsLiveness, Says, Goes, job, files, StatusNow, Alive
  <2>4. CASE UNCHANGED vars
    BY <2>4 DEF vars, job, files, StatusNow, Alive
  <2>5. QED BY <2>1, <2>2, <2>3, <2>4 DEF Next
<1>3. QED BY <1>1, <1>2, JSafety, PTL DEF Spec, ImplementsStatus, Abstract!Spec

=============================================================================
