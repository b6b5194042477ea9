-------------------------- MODULE Watchdog_proofs --------------------------
(***************************************************************************)
(* The safety properties of Watchdog hold for every value of its constants *)
(* and whatever the client, the job and Runpod do.                         *)
(*                                                                         *)
(* WInv strengthens them: what a pass has established when it reaches each *)
(* of its steps, and what the files say of one another.                    *)
(***************************************************************************)
EXTENDS Watchdog, TLAPS

\* A pass has its time, which is no later than the clock's, as the lease's is,
\* and a delete has its reason.
PassInv ==
  /\ pc # "sleep" => n # None
  /\ n <= now /\ lease <= now
  /\ why # "none" <=> pc = "delete"

\* The files of the run directory, and what the watchdog saw of them.
FilesInv ==
  /\ snapshot_at \in {None, SnapshotAt}
  /\ cost_cap_at \in {None, CapAt}
  /\ cost_cap_at # None => snapshot_at # None
  /\ started => job # "none"
  /\ ended_at # None => job = "ended"

\* A limit that leads to a delete is one this pass asked a snapshot for.
LimitNear ==
  \/ CostSnapshotDue
  \/ n >= DEADLINE - SNAPSHOT_LEAD /\ ~lease_fresh

AskedInv ==
  pc \in {"disk", "decide"} /\ Busy /\ ~keep /\ LimitNear
    => requested_at # None \/ asked = "failed"

\* Only a failed bootstrap deletes a kept pod whose job was seen.
KeptInv == pc = "delete" /\ keep /\ started => boot_failed

WInv == /\ TypeOK /\ PassInv /\ FilesInv /\ AskedInv /\ KeptInv
        /\ AskedBeforeLimit /\ SnapshotGetsItsWait /\ SnapshotKept /\ KeptStays

\* The initial states satisfy the invariant: no file exists and no pass began.
LEMMA WInitInv == WInit => WInv
<1> SUFFICES ASSUME WInit PROVE WInv
  OBVIOUS
<1> USE DEF WInit
<1>1. TypeOK
  BY DEF TypeOK, Time, None
<1>2. PassInv
  BY DEF PassInv, None
<1>3. FilesInv
  BY DEF FilesInv
<1>4. AskedInv
  BY DEF AskedInv
<1>5. AskedBeforeLimit /\ SnapshotGetsItsWait /\ SnapshotKept
  BY DEF AskedBeforeLimit, SnapshotGetsItsWait, SnapshotKept
<1>6. KeptInv /\ KeptStays
  BY DEF KeptInv, KeptStays
<1> QED
  BY <1>1, <1>2, <1>3, <1>4, <1>5, <1>6 DEF WInv

\* The top of the loop.
LEMMA LookStep == WInv /\ Look => WInv'
<1> SUFFICES ASSUME WInv, Look PROVE WInv'
  OBVIOUS
<1> USE DEF WInv, PassInv, FilesInv, Look, dogVars, filesVars, Time, None
<1>1. TypeOK'
  BY DEF TypeOK
<1>2. PassInv'
  BY DEF PassInv, TypeOK
<1>3. FilesInv'
  BY DEF FilesInv
<1>4. AskedInv'
  BY DEF AskedInv
<1>5. KeptInv'
  BY DEF KeptInv
<1>6. AskedBeforeLimit'
  BY DEF AskedBeforeLimit
<1>7. SnapshotGetsItsWait'
  BY DEF SnapshotGetsItsWait
<1>8. SnapshotKept'
  BY DEF SnapshotKept
<1>9. KeptStays'
  BY DEF KeptStays
<1> QED
  BY <1>1, <1>2, <1>3, <1>4, <1>5, <1>6, <1>7, <1>8, <1>9

\* The request before a limit.
LEMMA AskStep == WInv /\ Ask => WInv'
<1> SUFFICES ASSUME WInv, Ask PROVE WInv'
  OBVIOUS
<1> USE DEF WInv, PassInv, FilesInv, Ask, dogVars, filesVars, Time, None,
             Busy
<1>1. TypeOK'
  <2>1. /\ request' \in BOOLEAN /\ requested_at' \in Time
        /\ asked' \in {"no", "yes", "failed"}
    BY DEF TypeOK, request_snapshot
  <2>2. pc' \in {"sleep", "ask", "disk", "decide", "delete"}
    OBVIOUS
  <2> QED
    BY <2>1, <2>2 DEF TypeOK
<1>2. PassInv'
  BY DEF PassInv
<1>3. FilesInv'
  BY DEF FilesInv
<1>4. AskedInv'
    BY DEF AskedInv, TypeOK, request_snapshot, LimitNear, CostSnapshotDue,
    DeadlineSnapshotDue, NotAskedYet, lease_fresh, Reached
<1>5. KeptInv'
  BY DEF KeptInv
<1>6. AskedBeforeLimit'
  BY DEF AskedBeforeLimit
<1>7. SnapshotGetsItsWait'
  BY DEF SnapshotGetsItsWait
<1>8. SnapshotKept'
  BY DEF SnapshotKept
<1>9. KeptStays'
  BY DEF KeptStays
<1> QED
  BY <1>1, <1>2, <1>3, <1>4, <1>5, <1>6, <1>7, <1>8, <1>9

\* The request of a full disk.
LEMMA AskDiskStep == WInv /\ AskDisk => WInv'
<1> SUFFICES ASSUME WInv, AskDisk PROVE WInv'
  OBVIOUS
<1> USE DEF WInv, PassInv, FilesInv, AskDisk, dogVars, filesVars,
             request_snapshot, Time, None, Busy
<1>1. TypeOK'
  <2>1. /\ request' \in BOOLEAN /\ requested_at' \in Time
        /\ asked' \in {"no", "yes", "failed"}
    BY DEF TypeOK, request_snapshot
  <2>2. pc' \in {"sleep", "ask", "disk", "decide", "delete"}
    OBVIOUS
  <2> QED
    BY <2>1, <2>2 DEF TypeOK
<1>2. PassInv'
  BY DEF PassInv
<1>3. FilesInv'
  BY DEF FilesInv
<1>4. AskedInv'
  BY DEF AskedInv, TypeOK, LimitNear, CostSnapshotDue, lease_fresh, Reached
<1>5. KeptInv'
  BY DEF KeptInv
<1>6. AskedBeforeLimit'
  BY DEF AskedBeforeLimit
<1>7. SnapshotGetsItsWait'
  BY DEF SnapshotGetsItsWait
<1>8. SnapshotKept'
  BY DEF SnapshotKept
<1>9. KeptStays'
  BY DEF KeptStays
<1> QED
  BY <1>1, <1>2, <1>3, <1>4, <1>5, <1>6, <1>7, <1>8, <1>9

\* The decision.
LEMMA DecideStep == WInv /\ Decide => WInv'
<1> SUFFICES ASSUME WInv, Decide PROVE WInv'
  OBVIOUS
<1> USE DEF WInv, PassInv, FilesInv, Decide, dogVars, filesVars, Time, None,
             Busy
<1>1. TypeOK'
  BY DEF TypeOK, delete_reason, WatchdogReasons
<1>2. PassInv'
  BY DEF PassInv
<1>3. FilesInv'
  BY DEF FilesInv
<1>4. AskedInv'
  BY DEF AskedInv
<1>5. KeptInv'
  BY DEF KeptInv, delete_reason, KeptRule
<1>6. AskedBeforeLimit'
    BY TimesAssumption, CapAssumption DEF AskedBeforeLimit, TypeOK,
    AskedInv, delete_reason, Limits, KeptRule, DeadlineRule, LimitNear,
    CostSnapshotDue, lease_fresh, Reached
<1>7. SnapshotGetsItsWait'
    BY TimesAssumption DEF SnapshotGetsItsWait, TypeOK, delete_reason,
    KeptRule, DeadlineRule, deadline_due
<1>8. SnapshotKept'
    BY TimesAssumption DEF SnapshotKept, TypeOK, delete_reason, KeptRule,
    DeadlineRule, deadline_due
<1>9. KeptStays'
  BY DEF KeptStays
<1> QED
  BY <1>1, <1>2, <1>3, <1>4, <1>5, <1>6, <1>7, <1>8, <1>9

\* The delete.
LEMMA DeletedStep == WInv /\ Deleted => WInv'
<1> SUFFICES ASSUME WInv, Deleted PROVE WInv'
  OBVIOUS
<1> USE DEF WInv, PassInv, FilesInv, Deleted, dogVars, filesVars, Time,
             None, Busy
<1>1. TypeOK'
  BY DEF TypeOK
<1>2. PassInv'
  BY DEF PassInv
<1>3. FilesInv'
  BY DEF FilesInv
<1>4. AskedInv'
  BY DEF AskedInv
<1>5. KeptInv'
  BY DEF KeptInv
<1>6. AskedBeforeLimit'
  BY DEF AskedBeforeLimit
<1>7. SnapshotGetsItsWait'
  BY DEF SnapshotGetsItsWait
<1>8. SnapshotKept'
  BY DEF SnapshotKept
<1>9. KeptStays'
  BY DEF KeptStays, KeptInv
<1> QED
  BY <1>1, <1>2, <1>3, <1>4, <1>5, <1>6, <1>7, <1>8, <1>9

\* The delete that fails.
LEMMA DeleteFailsStep == WInv /\ DeleteFails => WInv'
<1> SUFFICES ASSUME WInv, DeleteFails PROVE WInv'
  OBVIOUS
<1> USE DEF WInv, PassInv, FilesInv, DeleteFails, dogVars, filesVars, Time,
             None, Busy
<1>1. TypeOK'
  BY DEF TypeOK
<1>2. PassInv'
  BY DEF PassInv
<1>3. FilesInv'
  BY DEF FilesInv
<1>4. AskedInv'
  BY DEF AskedInv
<1>5. KeptInv'
  BY DEF KeptInv
<1>6. AskedBeforeLimit'
  BY DEF AskedBeforeLimit
<1>7. SnapshotGetsItsWait'
  BY DEF SnapshotGetsItsWait
<1>8. SnapshotKept'
  BY DEF SnapshotKept
<1>9. KeptStays'
  BY DEF KeptStays
<1> QED
  BY <1>1, <1>2, <1>3, <1>4, <1>5, <1>6, <1>7, <1>8, <1>9

\* Time passes.
LEMMA TickStep == WInv /\ Tick => WInv'
<1> SUFFICES ASSUME WInv, Tick PROVE WInv'
  OBVIOUS
<1> USE DEF WInv, PassInv, FilesInv, Tick, dogVars, filesVars, Time, None,
             Busy
<1>1. TypeOK'
  BY TimesAssumption DEF TypeOK
<1>2. PassInv'
  BY DEF PassInv, TypeOK
<1>3. FilesInv'
  BY DEF FilesInv
<1>4. AskedInv'
  BY DEF AskedInv, TypeOK, LimitNear, CostSnapshotDue, lease_fresh, Reached
<1>5. KeptInv'
  BY DEF KeptInv
<1>6. AskedBeforeLimit'
  BY DEF AskedBeforeLimit
<1>7. SnapshotGetsItsWait'
  BY DEF SnapshotGetsItsWait
<1>8. SnapshotKept'
  BY DEF SnapshotKept
<1>9. KeptStays'
  BY DEF KeptStays
<1> QED
  BY <1>1, <1>2, <1>3, <1>4, <1>5, <1>6, <1>7, <1>8, <1>9

\* The container restarts.
LEMMA RestartStep == WInv /\ Restart => WInv'
<1> SUFFICES ASSUME WInv, Restart PROVE WInv'
  OBVIOUS
<1> USE DEF WInv, PassInv, FilesInv, Restart, dogVars, filesVars, Time,
             None, Busy
<1>1. TypeOK'
  BY DEF TypeOK, Boot
<1>2. PassInv'
  BY DEF PassInv, TypeOK, Boot
<1>3. FilesInv'
  BY DEF FilesInv
<1>4. AskedInv'
  BY DEF AskedInv, Boot
<1>5. KeptInv'
  BY DEF KeptInv, Boot
<1>6. AskedBeforeLimit'
  BY DEF AskedBeforeLimit, Boot
<1>7. SnapshotGetsItsWait'
  BY DEF SnapshotGetsItsWait, Boot
<1>8. SnapshotKept'
  BY DEF SnapshotKept, Boot
<1>9. KeptStays'
  BY DEF KeptStays
<1> QED
  BY <1>1, <1>2, <1>3, <1>4, <1>5, <1>6, <1>7, <1>8, <1>9

\* The job saves its snapshot.
LEMMA SaveSnapshotStep == WInv /\ SaveSnapshot => WInv'
<1> SUFFICES ASSUME WInv, SaveSnapshot PROVE WInv'
  OBVIOUS
<1> USE DEF WInv, PassInv, FilesInv, SaveSnapshot, dogVars, filesVars, Time,
             None, Busy
<1>1. TypeOK'
  BY TimesAssumption DEF TypeOK
<1>2. PassInv'
  BY DEF PassInv
<1>3. FilesInv'
  BY DEF FilesInv
<1>4. AskedInv'
  BY DEF AskedInv, TypeOK, LimitNear, CostSnapshotDue, lease_fresh, Reached
<1>5. KeptInv'
  BY DEF KeptInv
<1>6. AskedBeforeLimit'
  BY DEF AskedBeforeLimit
<1>7. SnapshotGetsItsWait'
  BY DEF SnapshotGetsItsWait
<1>8. SnapshotKept'
  BY DEF SnapshotKept
<1>9. KeptStays'
  BY DEF KeptStays
<1> QED
  BY <1>1, <1>2, <1>3, <1>4, <1>5, <1>6, <1>7, <1>8, <1>9

\* The job ends.
LEMMA EndJobStep == WInv /\ EndJob => WInv'
<1> SUFFICES ASSUME WInv, EndJob PROVE WInv'
  OBVIOUS
<1> USE DEF WInv, PassInv, FilesInv, EndJob, dogVars, filesVars, Time, None,
             Busy
<1>1. TypeOK'
  BY TimesAssumption DEF TypeOK
<1>2. PassInv'
  BY DEF PassInv
<1>3. FilesInv'
  BY DEF FilesInv
<1>4. AskedInv'
  BY DEF AskedInv, TypeOK, LimitNear, CostSnapshotDue, lease_fresh, Reached
<1>5. KeptInv'
  BY DEF KeptInv
<1>6. AskedBeforeLimit'
  BY DEF AskedBeforeLimit
<1>7. SnapshotGetsItsWait'
  BY DEF SnapshotGetsItsWait
<1>8. SnapshotKept'
  BY DEF SnapshotKept
<1>9. KeptStays'
  BY DEF KeptStays
<1> QED
  BY <1>1, <1>2, <1>3, <1>4, <1>5, <1>6, <1>7, <1>8, <1>9

\* The client starts the job.
LEMMA StartJobStep == WInv /\ StartJob => WInv'
<1> SUFFICES ASSUME WInv, StartJob PROVE WInv'
  OBVIOUS
<1> USE DEF WInv, PassInv, FilesInv, StartJob, dogVars, filesVars, Time,
             None, Busy
<1>1. TypeOK'
  BY TimesAssumption DEF TypeOK
<1>2. PassInv'
  BY DEF PassInv
<1>3. FilesInv'
  BY DEF FilesInv
<1>4. AskedInv'
  BY DEF AskedInv, TypeOK, LimitNear, CostSnapshotDue, lease_fresh, Reached
<1>5. KeptInv'
  BY DEF KeptInv
<1>6. AskedBeforeLimit'
  BY DEF AskedBeforeLimit
<1>7. SnapshotGetsItsWait'
  BY DEF SnapshotGetsItsWait
<1>8. SnapshotKept'
  BY DEF SnapshotKept
<1>9. KeptStays'
  BY DEF KeptStays
<1> QED
  BY <1>1, <1>2, <1>3, <1>4, <1>5, <1>6, <1>7, <1>8, <1>9

\* The client arms the snapshot.
LEMMA WriteSnapshotAtStep == WInv /\ WriteSnapshotAt => WInv'
<1> SUFFICES ASSUME WInv, WriteSnapshotAt PROVE WInv'
  OBVIOUS
<1> USE DEF WInv, PassInv, FilesInv, WriteSnapshotAt, dogVars, filesVars,
             Time, None, Busy
<1>1. TypeOK'
  BY CapAssumption DEF TypeOK
<1>2. PassInv'
  BY DEF PassInv
<1>3. FilesInv'
  BY DEF FilesInv
<1>4. AskedInv'
  BY DEF AskedInv, TypeOK, LimitNear, CostSnapshotDue, lease_fresh, Reached
<1>5. KeptInv'
  BY DEF KeptInv
<1>6. AskedBeforeLimit'
  BY DEF AskedBeforeLimit
<1>7. SnapshotGetsItsWait'
  BY DEF SnapshotGetsItsWait
<1>8. SnapshotKept'
  BY DEF SnapshotKept
<1>9. KeptStays'
  BY DEF KeptStays
<1> QED
  BY <1>1, <1>2, <1>3, <1>4, <1>5, <1>6, <1>7, <1>8, <1>9

\* The client arms the cap.
LEMMA WriteCostCapAtStep == WInv /\ WriteCostCapAt => WInv'
<1> SUFFICES ASSUME WInv, WriteCostCapAt PROVE WInv'
  OBVIOUS
<1> USE DEF WInv, PassInv, FilesInv, WriteCostCapAt, dogVars, filesVars,
             Time, None, Busy
<1>1. TypeOK'
  BY CapAssumption DEF TypeOK
<1>2. PassInv'
  BY DEF PassInv
<1>3. FilesInv'
  BY CapAssumption DEF FilesInv, TypeOK
<1>4. AskedInv'
  BY DEF AskedInv, TypeOK, LimitNear, CostSnapshotDue, lease_fresh, Reached
<1>5. KeptInv'
  BY DEF KeptInv
<1>6. AskedBeforeLimit'
  BY DEF AskedBeforeLimit
<1>7. SnapshotGetsItsWait'
  BY DEF SnapshotGetsItsWait
<1>8. SnapshotKept'
  BY DEF SnapshotKept
<1>9. KeptStays'
  BY DEF KeptStays
<1> QED
  BY <1>1, <1>2, <1>3, <1>4, <1>5, <1>6, <1>7, <1>8, <1>9

\* The client renews its lease.
LEMMA TouchLeaseStep == WInv /\ TouchLease => WInv'
<1> SUFFICES ASSUME WInv, TouchLease PROVE WInv'
  OBVIOUS
<1> USE DEF WInv, PassInv, FilesInv, TouchLease, dogVars, filesVars, Time,
             None, Busy
<1>1. TypeOK'
  BY TimesAssumption DEF TypeOK
<1>2. PassInv'
  BY DEF PassInv, TypeOK
<1>3. FilesInv'
  BY DEF FilesInv
<1>4. AskedInv'
    BY TimesAssumption DEF AskedInv, TypeOK, LimitNear, CostSnapshotDue,
    lease_fresh, Reached
<1>5. KeptInv'
  BY DEF KeptInv
<1>6. AskedBeforeLimit'
  BY DEF AskedBeforeLimit
<1>7. SnapshotGetsItsWait'
  BY DEF SnapshotGetsItsWait
<1>8. SnapshotKept'
  BY DEF SnapshotKept
<1>9. KeptStays'
  BY DEF KeptStays
<1> QED
  BY <1>1, <1>2, <1>3, <1>4, <1>5, <1>6, <1>7, <1>8, <1>9

\* The client asks for a snapshot.
LEMMA WriteRequestStep == WInv /\ WriteRequest => WInv'
<1> SUFFICES ASSUME WInv, WriteRequest PROVE WInv'
  OBVIOUS
<1> USE DEF WInv, PassInv, FilesInv, WriteRequest, dogVars, filesVars, Time,
             None, Busy
<1>1. TypeOK'
  BY TimesAssumption DEF TypeOK
<1>2. PassInv'
  BY DEF PassInv
<1>3. FilesInv'
  BY DEF FilesInv
<1>4. AskedInv'
  BY DEF AskedInv, TypeOK, LimitNear, CostSnapshotDue, lease_fresh, Reached
<1>5. KeptInv'
  BY DEF KeptInv
<1>6. AskedBeforeLimit'
  BY DEF AskedBeforeLimit
<1>7. SnapshotGetsItsWait'
  BY DEF SnapshotGetsItsWait
<1>8. SnapshotKept'
  BY DEF SnapshotKept
<1>9. KeptStays'
  BY DEF KeptStays
<1> QED
  BY <1>1, <1>2, <1>3, <1>4, <1>5, <1>6, <1>7, <1>8, <1>9

\* The client marks the run retrieved.
LEMMA MarkRetrievedStep == WInv /\ MarkRetrieved => WInv'
<1> SUFFICES ASSUME WInv, MarkRetrieved PROVE WInv'
  OBVIOUS
<1> USE DEF WInv, PassInv, FilesInv, MarkRetrieved, dogVars, filesVars,
             Time, None, Busy
<1>1. TypeOK'
  BY TimesAssumption DEF TypeOK
<1>2. PassInv'
  BY DEF PassInv
<1>3. FilesInv'
  BY DEF FilesInv
<1>4. AskedInv'
  BY DEF AskedInv, TypeOK, LimitNear, CostSnapshotDue, lease_fresh, Reached
<1>5. KeptInv'
  BY DEF KeptInv
<1>6. AskedBeforeLimit'
  BY DEF AskedBeforeLimit
<1>7. SnapshotGetsItsWait'
  BY DEF SnapshotGetsItsWait
<1>8. SnapshotKept'
  BY DEF SnapshotKept
<1>9. KeptStays'
  BY DEF KeptStays
<1> QED
  BY <1>1, <1>2, <1>3, <1>4, <1>5, <1>6, <1>7, <1>8, <1>9

\* The client deletes the pod.
LEMMA ClientDeleteStep ==
  ASSUME NEW r \in ClientReasons PROVE WInv /\ ClientDelete(r) => WInv'
<1> SUFFICES ASSUME WInv, ClientDelete(r) PROVE WInv'
  OBVIOUS
<1> USE DEF WInv, PassInv, FilesInv, ClientDelete, dogVars, filesVars, Time,
             None, Busy
<1>1. TypeOK'
  BY DEF TypeOK
<1>2. PassInv'
  BY DEF PassInv
<1>3. FilesInv'
  BY DEF FilesInv
<1>4. AskedInv'
  BY DEF AskedInv, LimitNear, CostSnapshotDue, lease_fresh, Reached
<1>5. KeptInv'
  BY DEF KeptInv
<1>6. AskedBeforeLimit'
  BY DEF AskedBeforeLimit
<1>7. SnapshotGetsItsWait'
  BY DEF SnapshotGetsItsWait
<1>8. SnapshotKept'
  BY DEF SnapshotKept
<1>9. KeptStays'
  BY DEF KeptStays
<1> QED
  BY <1>1, <1>2, <1>3, <1>4, <1>5, <1>6, <1>7, <1>8, <1>9

\* A step of another component.
LEMMA StutterStep == WInv /\ UNCHANGED wvars => WInv'
<1> SUFFICES ASSUME WInv, UNCHANGED wvars PROVE WInv'
  OBVIOUS
<1> USE DEF WInv, PassInv, FilesInv, wvars, dogVars, filesVars, Time, None,
             Busy
<1>1. TypeOK'
  BY DEF TypeOK
<1>2. PassInv'
  BY DEF PassInv
<1>3. FilesInv'
  BY DEF FilesInv
<1>4. AskedInv'
  BY DEF AskedInv, LimitNear, CostSnapshotDue, lease_fresh, Reached
<1>5. KeptInv'
  BY DEF KeptInv
<1>6. AskedBeforeLimit'
  BY DEF AskedBeforeLimit
<1>7. SnapshotGetsItsWait'
  BY DEF SnapshotGetsItsWait
<1>8. SnapshotKept'
  BY DEF SnapshotKept
<1>9. KeptStays'
  BY DEF KeptStays
<1> QED
  BY <1>1, <1>2, <1>3, <1>4, <1>5, <1>6, <1>7, <1>8, <1>9

\* Every step preserves the invariant.
LEMMA WNextInv == WInv /\ [WNext]_wvars => WInv'
<1> SUFFICES ASSUME WInv, [WNext]_wvars PROVE WInv'
  OBVIOUS
<1>1. CASE Dog
  BY <1>1, LookStep, AskStep, AskDiskStep, DecideStep, DeletedStep,
     DeleteFailsStep DEF Dog
<1>2. CASE Tick \/ Restart \/ SaveSnapshot \/ EndJob
  BY <1>2, TickStep, RestartStep, SaveSnapshotStep, EndJobStep
<1>3. CASE Client
  BY <1>3, StartJobStep, WriteSnapshotAtStep, WriteCostCapAtStep,
     TouchLeaseStep, WriteRequestStep, MarkRetrievedStep, ClientDeleteStep
     DEF Client
<1>4. CASE UNCHANGED wvars
  BY <1>4, StutterStep
<1> QED
  BY <1>1, <1>2, <1>3, <1>4 DEF WNext

\* watchdog.sh and the files it reads: the whole invariant is always true.
THEOREM WSafety == WSpec => []WInv
<1>1. WInit => WInv
  BY WInitInv
<1>2. WInv /\ [WNext]_wvars => WInv'
  BY WNextInv
<1> QED
  BY <1>1, <1>2, PTL DEF WSpec

\* The variables of watchdog.sh and the files it reads keep their types.
THEOREM WTypeOK == WSpec => []TypeOK
<1>1. WInv => TypeOK
  BY DEF WInv
<1> QED
  BY <1>1, WSafety, PTL

\* watchdog.sh asks the job for a snapshot before a limit takes its pod.
THEOREM WAskedBeforeLimit == WSpec => []AskedBeforeLimit
<1>1. WInv => AskedBeforeLimit
  BY DEF WInv
<1> QED
  BY <1>1, WSafety, PTL

\* watchdog.sh leaves an asked job SNAPSHOT_WAIT before max_hours takes it.
THEOREM WSnapshotGetsItsWait == WSpec => []SnapshotGetsItsWait
<1>1. WInv => SnapshotGetsItsWait
  BY DEF WInv
<1> QED
  BY <1>1, WSafety, PTL

\* watchdog.sh: a limit asks a running job for its snapshot, and max_hours waits
\* for it.
THEOREM WSnapshotFirst == WSpec => []SnapshotFirst
<1>1. AskedBeforeLimit /\ SnapshotGetsItsWait => SnapshotFirst
  BY DEF SnapshotFirst
<1> QED
  BY <1>1, WAskedBeforeLimit, WSnapshotGetsItsWait, PTL

\* watchdog.sh keeps an ended job's snapshot for its retrieve grace.
THEOREM WSnapshotKept == WSpec => []SnapshotKept
<1>1. WInv => SnapshotKept
  BY DEF WInv
<1> QED
  BY <1>1, WSafety, PTL

\* watchdog.sh never deletes a kept pod whose job it saw, if it boots.
THEOREM WKeptStays == WSpec => []KeptStays
<1>1. WInv => KeptStays
  BY DEF WInv
<1> QED
  BY <1>1, WSafety, PTL

=============================================================================
