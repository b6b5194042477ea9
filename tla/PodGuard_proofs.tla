------------------------- MODULE PodGuard_proofs --------------------------
(***************************************************************************)
(* The client of PodGuard is one the watchdog is specified against, for    *)
(* every value of the constants, so what Watchdog_proofs proves holds of   *)
(* the two together; and the properties that relate the client to its pod. *)
(***************************************************************************)
EXTENDS PodGuard, Watchdog_proofs

\* What the client knows of its lease is no later than the file, and its tick
\* no later than the clock.
LeaseInv ==
  /\ t <= now
  /\ tick = "touched" => lease # None /\ t <= lease
  /\ renewed # None => lease # None /\ renewed <= lease

\* The marker, the watchdog's note of it and a delete for it come of a
\* retrieval.
ResultsInv ==
  /\ at \in {"ended", "marked"} => collected
  /\ marker => collected
  /\ retrieved => marker
  /\ why = "retrieved" => retrieved
  /\ reason \in {"retrieved", "client_retrieved"} => collected

\* The client of a kept pod has no lease, guard or cap, and only its start can
\* fail.
KeptClientInv ==
  /\ pod = "up" => reason = "none"
  /\ at \in {"starting", "spawned", "releasing"} => ~recorded
  /\ keep => tick = "idle" /\ at \notin {"deadline", "cost"}
  /\ ClientLeavesKept

GInv == /\ GuardTypeOK /\ LeaseInv /\ ResultsInv /\ CapArmedBeforeJob
        /\ KeptClientInv

\* The client's own state as it begins.
LEMMA GInitInv == Init => GInv
<1> SUFFICES ASSUME Init PROVE GInv
  OBVIOUS
<1> USE DEF Init, WInit
<1>1. GuardTypeOK
  BY DEF GuardTypeOK, Time, None
<1>2. LeaseInv
  BY DEF LeaseInv, None
<1>3. ResultsInv
  BY DEF ResultsInv
<1>4. CapArmedBeforeJob
  BY DEF CapArmedBeforeJob
<1>5. KeptClientInv
  BY DEF KeptClientInv, ClientLeavesKept
<1> QED
  BY <1>1, <1>2, <1>3, <1>4, <1>5 DEF GInv

\* The client's variables keep their types.
LEMMA GuardTypeStep == WInv /\ GInv /\ [Next]_vars => GuardTypeOK'
<1> SUFFICES ASSUME WInv, GInv, [Next]_vars PROVE GuardTypeOK'
  OBVIOUS
<1> USE DEF WInv, GInv, GuardTypeOK, vars, wvars, cvars, leaseVars,
             filesVars, dogVars
<1>1. CASE pod = "up" /\ now < Horizon /\ ArmSnapshotAt
  BY <1>1 DEF ArmSnapshotAt, WriteSnapshotAt, Time, None, TypeOK,
    renewal_due
<1>2. CASE pod = "up" /\ now < Horizon /\ ArmCostCapAt
  BY <1>2 DEF ArmCostCapAt, WriteCostCapAt, Time, None, TypeOK,
    renewal_due
<1>3. CASE pod = "up" /\ now < Horizon /\ Spawn
  BY <1>3 DEF Spawn, StartJob, Time, None, TypeOK, renewal_due
<1>4. CASE pod = "up" /\ now < Horizon /\ Recorded
  BY <1>4 DEF Recorded, Follow, Time, None, TypeOK, renewal_due
<1>5. CASE pod = "up" /\ now < Horizon /\ NotRecorded
  BY <1>5 DEF NotRecorded, EndJob, Time, None, TypeOK, renewal_due
<1>6. CASE pod = "up" /\ now < Horizon /\ AbandonStart
  BY <1>6 DEF AbandonStart, Time, None, TypeOK, renewal_due
<1>7. CASE pod = "up" /\ now < Horizon /\ Metric
  BY <1>7 DEF Metric, Time, None, TypeOK, renewal_due
<1>8. CASE pod = "up" /\ now < Horizon /\ TickBegins
  BY <1>8 DEF TickBegins, Time, None, TypeOK, renewal_due
<1>9. CASE pod = "up" /\ now < Horizon /\ RenewTouches
  BY <1>9 DEF RenewTouches, TouchLease, Time, None, TypeOK, renewal_due
<1>10. CASE pod = "up" /\ now < Horizon /\ RenewAnswered
  BY <1>10 DEF RenewAnswered, Time, None, TypeOK, renewal_due
<1>11. CASE pod = "up" /\ now < Horizon /\ RenewFails
  BY <1>11 DEF RenewFails, Time, None, TypeOK, renewal_due
<1>12. CASE pod = "up" /\ now < Horizon /\ CapAsks
  BY <1>12 DEF CapAsks, WriteRequest, Time, None, TypeOK, renewal_due
<1>13. CASE pod = "up" /\ now < Horizon /\ CapSkipped
  BY <1>13 DEF CapSkipped, Time, None, TypeOK, renewal_due
<1>14. CASE pod = "up" /\ now < Horizon /\ TickEnds
  BY <1>14 DEF TickEnds, Time, None, TypeOK, renewal_due
<1>15. CASE pod = "up" /\ now < Horizon /\ Retrieves
  BY <1>15 DEF Retrieves, Leave, Time, None, TypeOK, renewal_due
<1>16. CASE pod = "up" /\ now < Horizon /\ Unretrieved
  BY <1>16 DEF Unretrieved, Leave, Time, None, TypeOK, renewal_due
<1>17. CASE pod = "up" /\ now < Horizon /\ Marks
  BY <1>17 DEF Marks, MarkRetrieved, Time, None, TypeOK, renewal_due
<1>18. CASE pod = "up" /\ now < Horizon /\ EndsPod
  BY <1>18 DEF EndsPod, Removes, Leave, ClientDelete, Time, None, TypeOK,
    renewal_due
<1>19. CASE pod = "up" /\ now < Horizon /\ Detach
  BY <1>19 DEF Detach, Leave, Time, None, TypeOK, renewal_due
<1>20. CASE pod = "up" /\ now < Horizon /\ Attach
  BY <1>20 DEF Attach, Leave, Follow, Time, None, TypeOK, renewal_due
<1>21. CASE pod = "up" /\ now < Horizon /\ StopRequested
  BY <1>21 DEF StopRequested, WriteRequest, Time, None, TypeOK,
    renewal_due
<1>22. CASE PodNext
  BY <1>22 DEF PodNext, Dog, Look, Ask, AskDisk, Decide, Deleted,
    DeleteFails, Tick, Restart, SaveSnapshot, EndJob, Boot, Time, None,
    TypeOK, renewal_due
<1>23. CASE UNCHANGED vars
  BY <1>23 DEF Time, None, TypeOK, renewal_due
<1> QED
  BY <1>1, <1>2, <1>3, <1>4, <1>5, <1>6, <1>7, <1>8, <1>9, <1>10, <1>11,
    <1>12, <1>13, <1>14, <1>15, <1>16, <1>17, <1>18, <1>19, <1>20, <1>21,
    <1>22, <1>23 DEF Next, ClientNext

\* Each step keeps the client's beliefs behind the file.
LEMMA LeaseStep == WInv /\ GInv /\ [Next]_vars => LeaseInv'
<1> SUFFICES ASSUME WInv, GInv, [Next]_vars PROVE LeaseInv'
  OBVIOUS
<1> USE DEF WInv, GInv, LeaseInv, vars, wvars, cvars, leaseVars, filesVars,
             dogVars
<1>1. CASE pod = "up" /\ now < Horizon /\ ArmSnapshotAt
  BY <1>1 DEF ArmSnapshotAt, WriteSnapshotAt, PassInv, Time, None, TypeOK,
    GuardTypeOK
<1>2. CASE pod = "up" /\ now < Horizon /\ ArmCostCapAt
  BY <1>2 DEF ArmCostCapAt, WriteCostCapAt, PassInv, Time, None, TypeOK,
    GuardTypeOK
<1>3. CASE pod = "up" /\ now < Horizon /\ Spawn
  BY <1>3 DEF Spawn, StartJob, PassInv, Time, None, TypeOK, GuardTypeOK
<1>4. CASE pod = "up" /\ now < Horizon /\ Recorded
  BY <1>4 DEF Recorded, Follow, PassInv, Time, None, TypeOK, GuardTypeOK
<1>5. CASE pod = "up" /\ now < Horizon /\ NotRecorded
  BY <1>5 DEF NotRecorded, EndJob, PassInv, Time, None, TypeOK,
    GuardTypeOK
<1>6. CASE pod = "up" /\ now < Horizon /\ AbandonStart
  BY <1>6 DEF AbandonStart, PassInv, Time, None, TypeOK, GuardTypeOK
<1>7. CASE pod = "up" /\ now < Horizon /\ Metric
  BY <1>7 DEF Metric, PassInv, Time, None, TypeOK, GuardTypeOK
<1>8. CASE pod = "up" /\ now < Horizon /\ TickBegins
  BY <1>8 DEF TickBegins, PassInv, Time, None, TypeOK, GuardTypeOK
<1>9. CASE pod = "up" /\ now < Horizon /\ RenewTouches
  BY <1>9 DEF RenewTouches, TouchLease, PassInv, Time, None, TypeOK,
    GuardTypeOK
<1>10. CASE pod = "up" /\ now < Horizon /\ RenewAnswered
  BY <1>10 DEF RenewAnswered, PassInv, Time, None, TypeOK, GuardTypeOK
<1>11. CASE pod = "up" /\ now < Horizon /\ RenewFails
  BY <1>11 DEF RenewFails, PassInv, Time, None, TypeOK, GuardTypeOK
<1>12. CASE pod = "up" /\ now < Horizon /\ CapAsks
  BY <1>12 DEF CapAsks, WriteRequest, PassInv, Time, None, TypeOK,
    GuardTypeOK
<1>13. CASE pod = "up" /\ now < Horizon /\ CapSkipped
  BY <1>13 DEF CapSkipped, PassInv, Time, None, TypeOK, GuardTypeOK
<1>14. CASE pod = "up" /\ now < Horizon /\ TickEnds
  BY <1>14 DEF TickEnds, PassInv, Time, None, TypeOK, GuardTypeOK
<1>15. CASE pod = "up" /\ now < Horizon /\ Retrieves
  BY <1>15 DEF Retrieves, Leave, PassInv, Time, None, TypeOK, GuardTypeOK
<1>16. CASE pod = "up" /\ now < Horizon /\ Unretrieved
  BY <1>16 DEF Unretrieved, Leave, PassInv, Time, None, TypeOK,
    GuardTypeOK
<1>17. CASE pod = "up" /\ now < Horizon /\ Marks
  BY <1>17 DEF Marks, MarkRetrieved, PassInv, Time, None, TypeOK,
    GuardTypeOK
<1>18. CASE pod = "up" /\ now < Horizon /\ EndsPod
  BY <1>18 DEF EndsPod, Removes, Leave, ClientDelete, PassInv, Time, None,
    TypeOK, GuardTypeOK
<1>19. CASE pod = "up" /\ now < Horizon /\ Detach
  BY <1>19 DEF Detach, Leave, PassInv, Time, None, TypeOK, GuardTypeOK
<1>20. CASE pod = "up" /\ now < Horizon /\ Attach
  BY <1>20 DEF Attach, Leave, Follow, PassInv, Time, None, TypeOK,
    GuardTypeOK
<1>21. CASE pod = "up" /\ now < Horizon /\ StopRequested
  BY <1>21 DEF StopRequested, WriteRequest, PassInv, Time, None, TypeOK,
    GuardTypeOK
<1>22. CASE PodNext
  BY <1>22 DEF PodNext, Dog, Look, Ask, AskDisk, Decide, Deleted,
    DeleteFails, Tick, Restart, SaveSnapshot, EndJob, Boot, PassInv, Time,
    None, TypeOK, GuardTypeOK
<1>23. CASE UNCHANGED vars
  BY <1>23 DEF PassInv, Time, None, TypeOK, GuardTypeOK
<1> QED
  BY <1>1, <1>2, <1>3, <1>4, <1>5, <1>6, <1>7, <1>8, <1>9, <1>10, <1>11,
    <1>12, <1>13, <1>14, <1>15, <1>16, <1>17, <1>18, <1>19, <1>20, <1>21,
    <1>22, <1>23 DEF Next, ClientNext

\* Each step keeps retrievals what they are.
LEMMA ResultsStep == WInv /\ GInv /\ [Next]_vars => ResultsInv'
<1> SUFFICES ASSUME WInv, GInv, [Next]_vars PROVE ResultsInv'
  OBVIOUS
<1> USE DEF WInv, GInv, ResultsInv, vars, wvars, cvars, leaseVars,
             filesVars, dogVars
<1>1. CASE pod = "up" /\ now < Horizon /\ ArmSnapshotAt
  BY <1>1 DEF ArmSnapshotAt, WriteSnapshotAt, TypeOK, WatchdogReasons,
    None, delete_reason, ClientReasons
<1>2. CASE pod = "up" /\ now < Horizon /\ ArmCostCapAt
  BY <1>2 DEF ArmCostCapAt, WriteCostCapAt, TypeOK, WatchdogReasons, None,
    delete_reason, ClientReasons
<1>3. CASE pod = "up" /\ now < Horizon /\ Spawn
  BY <1>3 DEF Spawn, StartJob, TypeOK, WatchdogReasons, None,
    delete_reason, ClientReasons
<1>4. CASE pod = "up" /\ now < Horizon /\ Recorded
  BY <1>4 DEF Recorded, Follow, TypeOK, WatchdogReasons, None,
    delete_reason, ClientReasons
<1>5. CASE pod = "up" /\ now < Horizon /\ NotRecorded
  BY <1>5 DEF NotRecorded, EndJob, TypeOK, WatchdogReasons, None,
    delete_reason, ClientReasons
<1>6. CASE pod = "up" /\ now < Horizon /\ AbandonStart
  BY <1>6 DEF AbandonStart, TypeOK, WatchdogReasons, None, delete_reason,
    ClientReasons
<1>7. CASE pod = "up" /\ now < Horizon /\ Metric
  BY <1>7 DEF Metric, TypeOK, WatchdogReasons, None, delete_reason,
    ClientReasons
<1>8. CASE pod = "up" /\ now < Horizon /\ TickBegins
  BY <1>8 DEF TickBegins, TypeOK, WatchdogReasons, None, delete_reason,
    ClientReasons
<1>9. CASE pod = "up" /\ now < Horizon /\ RenewTouches
  BY <1>9 DEF RenewTouches, TouchLease, TypeOK, WatchdogReasons, None,
    delete_reason, ClientReasons
<1>10. CASE pod = "up" /\ now < Horizon /\ RenewAnswered
  BY <1>10 DEF RenewAnswered, TypeOK, WatchdogReasons, None,
    delete_reason, ClientReasons
<1>11. CASE pod = "up" /\ now < Horizon /\ RenewFails
  BY <1>11 DEF RenewFails, TypeOK, WatchdogReasons, None, delete_reason,
    ClientReasons
<1>12. CASE pod = "up" /\ now < Horizon /\ CapAsks
  BY <1>12 DEF CapAsks, WriteRequest, TypeOK, WatchdogReasons, None,
    delete_reason, ClientReasons
<1>13. CASE pod = "up" /\ now < Horizon /\ CapSkipped
  BY <1>13 DEF CapSkipped, TypeOK, WatchdogReasons, None, delete_reason,
    ClientReasons
<1>14. CASE pod = "up" /\ now < Horizon /\ TickEnds
  BY <1>14 DEF TickEnds, TypeOK, WatchdogReasons, None, delete_reason,
    ClientReasons
<1>15. CASE pod = "up" /\ now < Horizon /\ Retrieves
  BY <1>15 DEF Retrieves, Leave, TypeOK, WatchdogReasons, None,
    delete_reason, ClientReasons
<1>16. CASE pod = "up" /\ now < Horizon /\ Unretrieved
  BY <1>16 DEF Unretrieved, Leave, TypeOK, WatchdogReasons, None,
    delete_reason, ClientReasons
<1>17. CASE pod = "up" /\ now < Horizon /\ Marks
  BY <1>17 DEF Marks, MarkRetrieved, TypeOK, WatchdogReasons, None,
    delete_reason, ClientReasons
<1>18. CASE pod = "up" /\ now < Horizon /\ EndsPod
  BY <1>18 DEF EndsPod, Removes, Leave, ClientDelete, TypeOK,
    WatchdogReasons, None, delete_reason, ClientReasons
<1>19. CASE pod = "up" /\ now < Horizon /\ Detach
  BY <1>19 DEF Detach, Leave, TypeOK, WatchdogReasons, None,
    delete_reason, ClientReasons
<1>20. CASE pod = "up" /\ now < Horizon /\ Attach
  BY <1>20 DEF Attach, Leave, Follow, TypeOK, WatchdogReasons, None,
    delete_reason, ClientReasons
<1>21. CASE pod = "up" /\ now < Horizon /\ StopRequested
  BY <1>21 DEF StopRequested, WriteRequest, TypeOK, WatchdogReasons, None,
    delete_reason, ClientReasons
<1>22. CASE PodNext
  BY <1>22 DEF PodNext, Dog, Look, Ask, AskDisk, Decide, Deleted,
    DeleteFails, Tick, Restart, SaveSnapshot, EndJob, Boot, TypeOK,
    WatchdogReasons, None, delete_reason, ClientReasons
<1>23. CASE UNCHANGED vars
  BY <1>23 DEF TypeOK, WatchdogReasons, None, delete_reason, ClientReasons
<1> QED
  BY <1>1, <1>2, <1>3, <1>4, <1>5, <1>6, <1>7, <1>8, <1>9, <1>10, <1>11,
    <1>12, <1>13, <1>14, <1>15, <1>16, <1>17, <1>18, <1>19, <1>20, <1>21,
    <1>22, <1>23 DEF Next, ClientNext

\* Each step keeps the cap before the job.
LEMMA CapStep == WInv /\ GInv /\ [Next]_vars => CapArmedBeforeJob'
<1> SUFFICES ASSUME WInv, GInv, [Next]_vars PROVE CapArmedBeforeJob'
  OBVIOUS
<1> USE DEF WInv, GInv, Capped, CapArmedBeforeJob, vars, wvars, cvars, leaseVars,
             filesVars, dogVars
<1>1. CASE pod = "up" /\ now < Horizon /\ ArmSnapshotAt
  BY <1>1, GuardAssumption, CapAssumption, TimesAssumption DEF
    ArmSnapshotAt, WriteSnapshotAt, Armed, None, Time, FilesInv, TypeOK
<1>2. CASE pod = "up" /\ now < Horizon /\ ArmCostCapAt
  BY <1>2, GuardAssumption, CapAssumption, TimesAssumption DEF
    ArmCostCapAt, WriteCostCapAt, Armed, None, Time, FilesInv, TypeOK
<1>3. CASE pod = "up" /\ now < Horizon /\ Spawn
  BY <1>3, GuardAssumption, CapAssumption, TimesAssumption DEF Spawn,
    StartJob, Armed, None, Time, FilesInv, TypeOK
<1>4. CASE pod = "up" /\ now < Horizon /\ Recorded
  BY <1>4, GuardAssumption, CapAssumption, TimesAssumption DEF Recorded,
    Follow, Armed, None, Time, FilesInv, TypeOK
<1>5. CASE pod = "up" /\ now < Horizon /\ NotRecorded
  BY <1>5, GuardAssumption, CapAssumption, TimesAssumption DEF
    NotRecorded, EndJob, Armed, None, Time, FilesInv, TypeOK
<1>6. CASE pod = "up" /\ now < Horizon /\ AbandonStart
  BY <1>6, GuardAssumption, CapAssumption, TimesAssumption DEF
    AbandonStart, Armed, None, Time, FilesInv, TypeOK
<1>7. CASE pod = "up" /\ now < Horizon /\ Metric
  BY <1>7, GuardAssumption, CapAssumption, TimesAssumption DEF Metric,
    Armed, None, Time, FilesInv, TypeOK
<1>8. CASE pod = "up" /\ now < Horizon /\ TickBegins
  BY <1>8, GuardAssumption, CapAssumption, TimesAssumption DEF TickBegins,
    Armed, None, Time, FilesInv, TypeOK
<1>9. CASE pod = "up" /\ now < Horizon /\ RenewTouches
  BY <1>9, GuardAssumption, CapAssumption, TimesAssumption DEF
    RenewTouches, TouchLease, Armed, None, Time, FilesInv, TypeOK
<1>10. CASE pod = "up" /\ now < Horizon /\ RenewAnswered
  BY <1>10, GuardAssumption, CapAssumption, TimesAssumption DEF
    RenewAnswered, Armed, None, Time, FilesInv, TypeOK
<1>11. CASE pod = "up" /\ now < Horizon /\ RenewFails
  BY <1>11, GuardAssumption, CapAssumption, TimesAssumption DEF
    RenewFails, Armed, None, Time, FilesInv, TypeOK
<1>12. CASE pod = "up" /\ now < Horizon /\ CapAsks
  BY <1>12, GuardAssumption, CapAssumption, TimesAssumption DEF CapAsks,
    WriteRequest, Armed, None, Time, FilesInv, TypeOK
<1>13. CASE pod = "up" /\ now < Horizon /\ CapSkipped
  BY <1>13, GuardAssumption, CapAssumption, TimesAssumption DEF
    CapSkipped, Armed, None, Time, FilesInv, TypeOK
<1>14. CASE pod = "up" /\ now < Horizon /\ TickEnds
  BY <1>14, GuardAssumption, CapAssumption, TimesAssumption DEF TickEnds,
    Armed, None, Time, FilesInv, TypeOK
<1>15. CASE pod = "up" /\ now < Horizon /\ Retrieves
  BY <1>15, GuardAssumption, CapAssumption, TimesAssumption DEF Retrieves,
    Leave, Armed, None, Time, FilesInv, TypeOK
<1>16. CASE pod = "up" /\ now < Horizon /\ Unretrieved
  BY <1>16, GuardAssumption, CapAssumption, TimesAssumption DEF
    Unretrieved, Leave, Armed, None, Time, FilesInv, TypeOK
<1>17. CASE pod = "up" /\ now < Horizon /\ Marks
  BY <1>17, GuardAssumption, CapAssumption, TimesAssumption DEF Marks,
    MarkRetrieved, Armed, None, Time, FilesInv, TypeOK
<1>18. CASE pod = "up" /\ now < Horizon /\ EndsPod
  BY <1>18, GuardAssumption, CapAssumption, TimesAssumption DEF EndsPod,
    Removes, Leave, ClientDelete, Armed, None, Time, FilesInv, TypeOK
<1>19. CASE pod = "up" /\ now < Horizon /\ Detach
  BY <1>19, GuardAssumption, CapAssumption, TimesAssumption DEF Detach,
    Leave, Armed, None, Time, FilesInv, TypeOK
<1>20. CASE pod = "up" /\ now < Horizon /\ Attach
  BY <1>20, GuardAssumption, CapAssumption, TimesAssumption DEF Attach,
    Leave, Follow, Armed, None, Time, FilesInv, TypeOK
<1>21. CASE pod = "up" /\ now < Horizon /\ StopRequested
  BY <1>21, GuardAssumption, CapAssumption, TimesAssumption DEF
    StopRequested, WriteRequest, Armed, None, Time, FilesInv, TypeOK
<1>22. CASE PodNext
  BY <1>22, GuardAssumption, CapAssumption, TimesAssumption DEF PodNext,
    Dog, Look, Ask, AskDisk, Decide, Deleted, DeleteFails, Tick, Restart,
    SaveSnapshot, EndJob, Boot, Armed, None, Time, FilesInv, TypeOK
<1>23. CASE UNCHANGED vars
  BY <1>23, GuardAssumption, CapAssumption, TimesAssumption DEF Armed,
    None, Time, FilesInv, TypeOK
<1> QED
  BY <1>1, <1>2, <1>3, <1>4, <1>5, <1>6, <1>7, <1>8, <1>9, <1>10, <1>11,
    <1>12, <1>13, <1>14, <1>15, <1>16, <1>17, <1>18, <1>19, <1>20, <1>21,
    <1>22, <1>23 DEF Next, ClientNext

\* Each step leaves a kept pod alone.
LEMMA KeptClientStep == WInv /\ GInv /\ [Next]_vars => KeptClientInv'
<1> SUFFICES ASSUME WInv, GInv, [Next]_vars PROVE KeptClientInv'
  OBVIOUS
<1> USE DEF WInv, GInv, KeptClientInv, vars, wvars, cvars, leaseVars,
             filesVars, dogVars
<1>1. CASE pod = "up" /\ now < Horizon /\ ArmSnapshotAt
  BY <1>1, GuardAssumption DEF ArmSnapshotAt, WriteSnapshotAt,
    ClientLeavesKept, until_deadline, past_cost_cap, guard_fires,
    ClientReasons, WatchdogReasons, delete_reason, GuardTypeOK, TypeOK,
    None
<1>2. CASE pod = "up" /\ now < Horizon /\ ArmCostCapAt
  BY <1>2, GuardAssumption DEF ArmCostCapAt, WriteCostCapAt,
    ClientLeavesKept, until_deadline, past_cost_cap, guard_fires,
    ClientReasons, WatchdogReasons, delete_reason, GuardTypeOK, TypeOK,
    None
<1>3. CASE pod = "up" /\ now < Horizon /\ Spawn
  BY <1>3, GuardAssumption DEF Spawn, StartJob, ClientLeavesKept,
    until_deadline, past_cost_cap, guard_fires, ClientReasons,
    WatchdogReasons, delete_reason, GuardTypeOK, TypeOK, None
<1>4. CASE pod = "up" /\ now < Horizon /\ Recorded
  BY <1>4, GuardAssumption DEF Recorded, Follow, ClientLeavesKept,
    until_deadline, past_cost_cap, guard_fires, ClientReasons,
    WatchdogReasons, delete_reason, GuardTypeOK, TypeOK, None
<1>5. CASE pod = "up" /\ now < Horizon /\ NotRecorded
  BY <1>5, GuardAssumption DEF NotRecorded, EndJob, ClientLeavesKept,
    until_deadline, past_cost_cap, guard_fires, ClientReasons,
    WatchdogReasons, delete_reason, GuardTypeOK, TypeOK, None
<1>6. CASE pod = "up" /\ now < Horizon /\ AbandonStart
  BY <1>6, GuardAssumption DEF AbandonStart, ClientLeavesKept,
    until_deadline, past_cost_cap, guard_fires, ClientReasons,
    WatchdogReasons, delete_reason, GuardTypeOK, TypeOK, None
<1>7. CASE pod = "up" /\ now < Horizon /\ Metric
  BY <1>7, GuardAssumption DEF Metric, ClientLeavesKept, until_deadline,
    past_cost_cap, guard_fires, ClientReasons, WatchdogReasons,
    delete_reason, GuardTypeOK, TypeOK, None
<1>8. CASE pod = "up" /\ now < Horizon /\ TickBegins
  BY <1>8, GuardAssumption DEF TickBegins, ClientLeavesKept,
    until_deadline, past_cost_cap, guard_fires, ClientReasons,
    WatchdogReasons, delete_reason, GuardTypeOK, TypeOK, None
<1>9. CASE pod = "up" /\ now < Horizon /\ RenewTouches
  BY <1>9, GuardAssumption DEF RenewTouches, TouchLease, ClientLeavesKept,
    until_deadline, past_cost_cap, guard_fires, ClientReasons,
    WatchdogReasons, delete_reason, GuardTypeOK, TypeOK, None
<1>10. CASE pod = "up" /\ now < Horizon /\ RenewAnswered
  BY <1>10, GuardAssumption DEF RenewAnswered, ClientLeavesKept,
    until_deadline, past_cost_cap, guard_fires, ClientReasons,
    WatchdogReasons, delete_reason, GuardTypeOK, TypeOK, None
<1>11. CASE pod = "up" /\ now < Horizon /\ RenewFails
  BY <1>11, GuardAssumption DEF RenewFails, ClientLeavesKept,
    until_deadline, past_cost_cap, guard_fires, ClientReasons,
    WatchdogReasons, delete_reason, GuardTypeOK, TypeOK, None
<1>12. CASE pod = "up" /\ now < Horizon /\ CapAsks
  BY <1>12, GuardAssumption DEF CapAsks, WriteRequest, ClientLeavesKept,
    until_deadline, past_cost_cap, guard_fires, ClientReasons,
    WatchdogReasons, delete_reason, GuardTypeOK, TypeOK, None
<1>13. CASE pod = "up" /\ now < Horizon /\ CapSkipped
  BY <1>13, GuardAssumption DEF CapSkipped, ClientLeavesKept,
    until_deadline, past_cost_cap, guard_fires, ClientReasons,
    WatchdogReasons, delete_reason, GuardTypeOK, TypeOK, None
<1>14. CASE pod = "up" /\ now < Horizon /\ TickEnds
  BY <1>14, GuardAssumption DEF TickEnds, ClientLeavesKept,
    until_deadline, past_cost_cap, guard_fires, ClientReasons,
    WatchdogReasons, delete_reason, GuardTypeOK, TypeOK, None
<1>15. CASE pod = "up" /\ now < Horizon /\ Retrieves
  BY <1>15, GuardAssumption DEF Retrieves, Leave, ClientLeavesKept,
    until_deadline, past_cost_cap, guard_fires, ClientReasons,
    WatchdogReasons, delete_reason, GuardTypeOK, TypeOK, None
<1>16. CASE pod = "up" /\ now < Horizon /\ Unretrieved
  BY <1>16, GuardAssumption DEF Unretrieved, Leave, ClientLeavesKept,
    until_deadline, past_cost_cap, guard_fires, ClientReasons,
    WatchdogReasons, delete_reason, GuardTypeOK, TypeOK, None
<1>17. CASE pod = "up" /\ now < Horizon /\ Marks
  BY <1>17, GuardAssumption DEF Marks, MarkRetrieved, ClientLeavesKept,
    until_deadline, past_cost_cap, guard_fires, ClientReasons,
    WatchdogReasons, delete_reason, GuardTypeOK, TypeOK, None
<1>18. CASE pod = "up" /\ now < Horizon /\ EndsPod
  BY <1>18, GuardAssumption DEF EndsPod, Removes, Leave, ClientDelete,
    ClientLeavesKept, until_deadline, past_cost_cap, guard_fires,
    ClientReasons, WatchdogReasons, delete_reason, GuardTypeOK, TypeOK,
    None
<1>19. CASE pod = "up" /\ now < Horizon /\ Detach
  BY <1>19, GuardAssumption DEF Detach, Leave, ClientLeavesKept,
    until_deadline, past_cost_cap, guard_fires, ClientReasons,
    WatchdogReasons, delete_reason, GuardTypeOK, TypeOK, None
<1>20. CASE pod = "up" /\ now < Horizon /\ Attach
  BY <1>20, GuardAssumption DEF Attach, Leave, Follow, ClientLeavesKept,
    until_deadline, past_cost_cap, guard_fires, ClientReasons,
    WatchdogReasons, delete_reason, GuardTypeOK, TypeOK, None
<1>21. CASE pod = "up" /\ now < Horizon /\ StopRequested
  BY <1>21, GuardAssumption DEF StopRequested, WriteRequest,
    ClientLeavesKept, until_deadline, past_cost_cap, guard_fires,
    ClientReasons, WatchdogReasons, delete_reason, GuardTypeOK, TypeOK,
    None
<1>22. CASE PodNext
  BY <1>22, GuardAssumption DEF PodNext, Dog, Look, Ask, AskDisk, Decide,
    Deleted, DeleteFails, Tick, Restart, SaveSnapshot, EndJob, Boot,
    ClientLeavesKept, until_deadline, past_cost_cap, guard_fires,
    ClientReasons, WatchdogReasons, delete_reason, GuardTypeOK, TypeOK,
    None
<1>23. CASE UNCHANGED vars
  BY <1>23, GuardAssumption DEF ClientLeavesKept, until_deadline,
    past_cost_cap, guard_fires, ClientReasons, WatchdogReasons,
    delete_reason, GuardTypeOK, TypeOK, None
<1> QED
  BY <1>1, <1>2, <1>3, <1>4, <1>5, <1>6, <1>7, <1>8, <1>9, <1>10, <1>11,
    <1>12, <1>13, <1>14, <1>15, <1>16, <1>17, <1>18, <1>19, <1>20, <1>21,
    <1>22, <1>23 DEF Next, ClientNext

\* Every step preserves the client's part of the invariant.
LEMMA GNextInv == WInv /\ GInv /\ [Next]_vars => GInv'
  BY GuardTypeStep, LeaseStep, ResultsStep, CapStep, KeptClientStep DEF GInv

\* A step of the client writes one file, deletes the pod, or leaves the pod as
\* it is.
LEMMA NextRefines == [Next]_vars => [WNext]_wvars
<1> SUFFICES ASSUME [Next]_vars PROVE [WNext]_wvars
  OBVIOUS
<1>1. CASE UNCHANGED vars
  BY <1>1 DEF vars
<1>2. CASE PodNext
  BY <1>2 DEF PodNext, WNext
<1>3. CASE ClientNext
  <2>1. CASE ArmSnapshotAt \/ ArmCostCapAt \/ Spawn
    BY <1>3, <2>1 DEF ClientNext, ArmSnapshotAt, ArmCostCapAt, Spawn, WNext,
      Client
  <2>2. CASE Recorded \/ AbandonStart \/ Metric \/ TickBegins \/ RenewAnswered
             \/ RenewFails \/ CapSkipped \/ TickEnds \/ Retrieves
             \/ Unretrieved \/ Detach \/ Attach
    BY <2>2 DEF Recorded, AbandonStart, Metric, TickBegins, RenewAnswered,
      RenewFails, CapSkipped, TickEnds, Retrieves, Unretrieved, Detach, Attach
  <2>3. CASE NotRecorded
    BY <2>3 DEF NotRecorded, WNext
  <2>4. CASE RenewTouches \/ CapAsks \/ StopRequested \/ Marks
    BY <1>3, <2>4 DEF ClientNext, RenewTouches, CapAsks, StopRequested, Marks,
      WNext, Client
  <2>5. CASE EndsPod
    BY <1>3, <2>5 DEF ClientNext, EndsPod, Removes, WNext, Client,
      ClientReasons
  <2> QED
    BY <1>3, <2>1, <2>2, <2>3, <2>4, <2>5 DEF ClientNext
<1> QED
  BY <1>1, <1>2, <1>3 DEF Next

\* Every client action contains one of Watchdog's or leaves its variables alone:
\* what is proved of WSpec holds of the two together.
LEMMA RunsTheWatchdog == Spec => WSpec
<1>1. Init => WInit
  BY DEF Init
<1>2. [Next]_vars => [WNext]_wvars
  BY NextRefines
<1> QED
  BY <1>1, <1>2, PTL DEF Spec, WSpec

\* The invariant of the watchdog and of its client.
THEOREM GSafety == Spec => [](WInv /\ GInv)
<1>1. Init => GInv
  BY GInitInv
<1>2. WInv /\ GInv /\ [Next]_vars => GInv'
  BY GNextInv
<1>3. Spec => []WInv
  BY RunsTheWatchdog, WSafety
<1> QED
  BY <1>1, <1>2, <1>3, PTL DEF Spec

\* The variables of the client keep their types, and a tick its command.
THEOREM GGuardTypeOK == Spec => []GuardTypeOK
<1>1. GInv => GuardTypeOK
  BY DEF GInv
<1> QED
  BY <1>1, GSafety, PTL

\* flow.rs Lease: the client never believes in a lease its pod does not have.
THEOREM GLeaseBelief == Spec => []LeaseBelief
<1>1. GInv => LeaseBelief
  BY DEF GInv, LeaseInv, LeaseBelief
<1> QED
  BY <1>1, GSafety, PTL

\* flow.rs end_pod: a pod goes as retrieved only with its results here.
THEOREM GRetrieved == Spec => []RetrievedMeansCollected
<1>1. GInv => RetrievedMeansCollected
  BY DEF GInv, ResultsInv, RetrievedMeansCollected
<1> QED
  BY <1>1, GSafety, PTL

\* flow.rs arm_cost_cap: no job without the cap its pod was to have.
THEOREM GCapArmed == Spec => []CapArmedBeforeJob
<1>1. GInv => CapArmedBeforeJob
  BY DEF GInv
<1> QED
  BY <1>1, GSafety, PTL

\* flow.rs until_deadline, end_pod: the client leaves a kept pod with a job.
THEOREM GKept == Spec => []ClientLeavesKept
<1>1. GInv => ClientLeavesKept
  BY DEF GInv, KeptClientInv
<1> QED
  BY <1>1, GSafety, PTL

\* Neither the client nor the watchdog deletes a kept pod with a job.
THEOREM GKeptIsLeft == Spec => []KeptIsLeft
<1>1. WInv /\ GInv => KeptIsLeft
  BY DEF KeptIsLeft, WInv, GInv, KeptClientInv
<1> QED
  BY <1>1, GSafety, PTL

\* docs/runpod.md, the lease: the watchdog decides to enforce max_hours only
\* when the client that follows the job no longer counts on its lease.
THEOREM GDeadlineRespectsHolder == Spec => DeadlineRespectsHolder
<1> DEFINE Respects ==
      why' = "deadline" /\ why # "deadline"
        => ~(at = "following" /\ renewed # None /\ n - renewed < LEASE_TTL)
<1>1. WInv /\ GInv /\ [Next]_vars => [Respects]_vars
  <2> SUFFICES ASSUME WInv, GInv, [Next]_vars,
                      why' = "deadline", why # "deadline", renewed # None
               PROVE ~(n - renewed < LEASE_TTL)
    OBVIOUS
  <2>1. [WNext]_wvars
    BY NextRefines
  <2>2. Decide
    BY <2>1 DEF WNext, Dog, Look, Ask, AskDisk, Deleted, DeleteFails, Tick,
      Restart, SaveSnapshot, EndJob, Client, StartJob, WriteSnapshotAt,
      WriteCostCapAt, TouchLease, WriteRequest, MarkRetrieved, ClientDelete,
      wvars, dogVars
  <2>3. n >= DEADLINE /\ ~lease_fresh
    BY <2>2 DEF Decide, delete_reason, DeadlineRule
  <2>4. lease # None /\ renewed <= lease
    BY DEF GInv, LeaseInv
  <2>5. n \in Int /\ lease \in Int /\ renewed \in Int /\ LEASE_TTL \in Int
    BY TimesAssumption DEF WInv, TypeOK, GInv, GuardTypeOK, Time, None
  <2> QED
    BY <2>3, <2>4, <2>5 DEF lease_fresh
<1> QED
  BY <1>1, GSafety, PTL DEF Spec, DeadlineRespectsHolder

=============================================================================
