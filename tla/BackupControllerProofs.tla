----------------------- MODULE BackupControllerProofs -----------------------
(***************************************************************************)
(* Theorems about BackupController for every set of schedules and every    *)
(* value of the bounds.                                                    *)
(***************************************************************************)
EXTENDS BackupController, FiniteSetTheorems, WellFoundedInduction, TLAPS

\* When the map is empty, two processes do not use up three mutexes.
LEMMA UnusedExists ==
    ASSUME RunsOK, entry = 0
    PROVE  Unused # {}
<1>1. 1 \in Mutexes /\ 2 \in Mutexes /\ 3 \in Mutexes
  BY DEF Mutexes
<1>2. ASSUME NEW a \in Nat, NEW b \in Nat
      PROVE  \E m \in {1, 2, 3} : m # a /\ m # b
  OBVIOUS
<1>3. mu["backup"] \in Nat /\ mu["update"] \in Nat
  BY DEF RunsOK, Mutexes, Proc
<1>4. PICK m \in {1, 2, 3} : m # mu["backup"] /\ m # mu["update"]
  BY <1>2, <1>3
<1> QED
  BY <1>1, <1>4 DEF Unused, Proc

\* The mutex getServerBackupMu returns is a mutex.
LEMMA FetchedMutex ==
    ASSUME RunsOK, NEW p \in Proc, GetServerBackupMu(p)
    PROVE  entry' \in Mutexes /\ (entry # 0 => entry' = entry)
<1>1. CASE entry # 0
  BY <1>1 DEF GetServerBackupMu, RunsOK
<1>2. CASE entry = 0
  <2>1. (CHOOSE m \in Unused : TRUE) \in Unused
    BY <1>2, UnusedExists
  <2> QED
    BY <1>2, <2>1 DEF GetServerBackupMu, Unused
<1> QED
  BY <1>1, <1>2

\* Controllers, mutexes and the pod keep their types.
LEMMA RunsKept == RunsOK /\ ServerOK /\ [Next]_vars => RunsOK'
<1> SUFFICES ASSUME RunsOK, ServerOK, [Next]_vars PROVE RunsOK'
  OBVIOUS
<1>1. rcon \in BOOLEAN
  BY RconAssumption DEF ServerOK
<1>2. RunsOK'
  <2> USE <1>1 DEF RunsOK, Performing, Locked
  <2> USE DEF objVars, cronVars, runVars, worldVars, snapVars, budget, Goto, Return, Forget,
          Failed, CopyBack, KeepBounds, Fault, StartUpdate
  <2>1. ASSUME NEW p \in Proc, GetServerBackupMu(p) PROVE RunsOK'
    BY <2>1, FetchedMutex DEF GetServerBackupMu
  <2>2. ASSUME NEW p \in Proc, Lock(p) PROVE RunsOK'
    BY <2>2 DEF Lock
  <2>3. ASSUME NEW p \in Proc, Prepare(p) PROVE RunsOK'
    BY <2>3 DEF Prepare
  <2>4. ASSUME NEW p \in Proc, ConnectFails(p) PROVE RunsOK'
    BY <2>4 DEF ConnectFails
  <2>5. ASSUME NEW p \in Proc, PrepareFails(p) PROVE RunsOK'
    BY <2>5 DEF PrepareFails
  <2>6. ASSUME NEW p \in Proc, CreateSnapshot(p) PROVE RunsOK'
    BY <2>6 DEF CreateSnapshot
  <2>7. ASSUME NEW p \in Proc, CreateSnapshotFails(p) PROVE RunsOK'
    BY <2>7 DEF CreateSnapshotFails
  <2>8. ASSUME NEW p \in Proc, DeleteOldSnapshots(p) PROVE RunsOK'
    BY <2>8 DEF DeleteOldSnapshots
  <2>9. ASSUME NEW p \in Proc, DeleteOldSnapshotsFails(p) PROVE RunsOK'
    BY <2>9 DEF DeleteOldSnapshotsFails
  <2>10. ASSUME NEW p \in Proc, PersistBackupStatus(p) PROVE RunsOK'
    BY <2>10 DEF PersistBackupStatus
  <2>11. ASSUME NEW p \in Proc, PersistBackupStatusFails(p) PROVE RunsOK'
    BY <2>11 DEF PersistBackupStatusFails
  <2>12. ASSUME NEW p \in Proc, Release(p) PROVE RunsOK'
    BY <2>12 DEF Release
  <2>13. ASSUME NEW p \in Proc, SaveOnFails(p) PROVE RunsOK'
    BY <2>13 DEF SaveOnFails
  <2>14. CASE BackupsDisabled
    BY <2>14 DEF BackupsDisabled
  <2>15. CASE StartScheduled
    BY <2>15 DEF StartScheduled
  <2>16. CASE StartUnscheduled
    BY <2>16 DEF StartUnscheduled
  <2>17. CASE PersistCronCondition
    BY <2>17 DEF PersistCronCondition
  <2>18. CASE PersistCronConflict
    BY <2>18 DEF PersistCronConflict
  <2>19. CASE NoManualBackup
    BY <2>19 DEF NoManualBackup
  <2>20. CASE StartManualBackup
    BY <2>20 DEF StartManualBackup
  <2>21. CASE CheckFails
    BY <2>21 DEF CheckFails
  <2>22. CASE ManualBackupDone
    BY <2>22 DEF ManualBackupDone
  <2>23. CASE StartScheduledBackup
    BY <2>23 DEF StartScheduledBackup
  <2>24. CASE NoScheduledBackup
    BY <2>24 DEF NoScheduledBackup
  <2>25. CASE ScheduledBackupDone
    BY <2>25 DEF ScheduledBackupDone
  <2>26. CASE BackupBeforeUpdate
    BY <2>26 DEF BackupBeforeUpdate
  <2>27. CASE UpdateWithoutBackup
    BY <2>27 DEF UpdateWithoutBackup
  <2>28. CASE PreUpdateBackupDone
    BY <2>28 DEF PreUpdateBackupDone
  <2>29. CASE StopPod
    BY <2>29 DEF StopPod
  <2>30. CASE PodReady
    BY <2>30 DEF PodReady
  <2>31. CASE EditBackupSpec
    BY <2>31 DEF EditBackupSpec
  <2>32. CASE RequestBackupNow
    BY <2>32 DEF RequestBackupNow
  <2>33. CASE CronFires
    BY <2>33 DEF CronFires
  <2>34. CASE CronCallback
    BY <2>34 DEF CronCallback
  <2>35. CASE OtherWrite
    BY <2>35 DEF OtherWrite
  <2>36. CASE SyncServer
    BY <2>36 DEF SyncServer
  <2>37. CASE SyncSnapshots
    BY <2>37 DEF SyncSnapshots
  <2>38. CASE OperatorCrash
    BY <2>38 DEF OperatorCrash
  <2>40. CASE UNCHANGED vars
    BY <2>40 DEF vars
  <2> QED
    BY <2>1, <2>2, <2>3, <2>4, <2>5, <2>6, <2>7, <2>8, <2>9, <2>10, <2>11,
       <2>12, <2>13, <2>14, <2>15, <2>16, <2>17, <2>18, <2>19, <2>20, <2>21, <2>22,
       <2>23, <2>24, <2>25, <2>26, <2>27, <2>28, <2>29, <2>30, <2>31, <2>32, <2>33,
       <2>34, <2>35, <2>36, <2>37, <2>38, <2>40 DEF Next, PerformBackup,
       BackupReconcile, UpdateReconcile, Environment
<1> QED
  BY <1>2

\* The server objects and the cron state keep their types.
LEMMA ServerKept == ServerOK /\ RunsOK /\ [Next]_vars => ServerOK'
<1> SUFFICES ASSUME ServerOK, RunsOK, [Next]_vars PROVE ServerOK'
  OBVIOUS
<1>1. NoServer \in Server
  BY DEF NoServer, Server
<1>2. ASSUME NEW x \in Server, NEW e \in BOOLEAN, NEW t \in Schedules \cup {"none", "bad"},
             NEW a \in {"none", "valid", "stale"}, NEW c \in BOOLEAN
      PROVE  /\ [x EXCEPT !.enabled = e, !.schedule = t] \in Server
             /\ [x EXCEPT !.annotation = a] \in Server
             /\ [x EXCEPT !.covers = c] \in Server
             /\ x.covers \in BOOLEAN
  BY DEF Server
<1>3. ServerOK'
  <2> USE <1>1, <1>2 DEF ServerOK
  <2> USE DEF objVars, cronVars, runVars, worldVars, snapVars, budget, Goto, Return, Forget,
          Failed, CopyBack, KeepBounds, Fault, StartUpdate
  <2>1. ASSUME NEW p \in Proc, GetServerBackupMu(p) PROVE ServerOK'
    BY <2>1 DEF GetServerBackupMu
  <2>2. ASSUME NEW p \in Proc, Lock(p) PROVE ServerOK'
    BY <2>2 DEF Lock
  <2>3. ASSUME NEW p \in Proc, Prepare(p) PROVE ServerOK'
    BY <2>3 DEF Prepare
  <2>4. ASSUME NEW p \in Proc, ConnectFails(p) PROVE ServerOK'
    BY <2>4 DEF ConnectFails
  <2>5. ASSUME NEW p \in Proc, PrepareFails(p) PROVE ServerOK'
    BY <2>5 DEF PrepareFails
  <2>6. ASSUME NEW p \in Proc, CreateSnapshot(p) PROVE ServerOK'
    BY <2>6 DEF CreateSnapshot
  <2>7. ASSUME NEW p \in Proc, CreateSnapshotFails(p) PROVE ServerOK'
    BY <2>7 DEF CreateSnapshotFails
  <2>8. ASSUME NEW p \in Proc, DeleteOldSnapshots(p) PROVE ServerOK'
    BY <2>8 DEF DeleteOldSnapshots
  <2>9. ASSUME NEW p \in Proc, DeleteOldSnapshotsFails(p) PROVE ServerOK'
    BY <2>9 DEF DeleteOldSnapshotsFails
  <2>10. ASSUME NEW p \in Proc, PersistBackupStatus(p) PROVE ServerOK'
    <3> DEFINE exact == ok[p] /\ after[p]
    <3>1. exact \in BOOLEAN
      BY DEF RunsOK
    <3> HIDE DEF exact
    <3>2. CASE current
      <4>1. PICK c \in {exact, FALSE} : /\ obj' = [cache EXCEPT !.covers = c]
                                         /\ current' = FALSE
                                         /\ CopyBack(p, c)
        BY <2>10, <3>2 DEF PersistBackupStatus, exact
      <4>2. c \in BOOLEAN
        BY <3>1, <4>1
      <4>3. obj' \in Server /\ bserver' \in Server
        BY <4>1, <4>2
      <4> QED
        BY <2>10, <4>1, <4>3 DEF PersistBackupStatus
    <3>3. CASE ~current
      <4>1. bserver' \in Server
        BY <2>10, <3>1, <3>3 DEF PersistBackupStatus, exact
      <4> QED
        BY <2>10, <3>3, <4>1 DEF PersistBackupStatus
    <3> QED
      BY <3>2, <3>3
  <2>11. ASSUME NEW p \in Proc, PersistBackupStatusFails(p) PROVE ServerOK'
    BY <2>11 DEF PersistBackupStatusFails
  <2>12. ASSUME NEW p \in Proc, Release(p) PROVE ServerOK'
    BY <2>12 DEF Release
  <2>13. ASSUME NEW p \in Proc, SaveOnFails(p) PROVE ServerOK'
    BY <2>13 DEF SaveOnFails
  <2>14. CASE BackupsDisabled
    BY <2>14 DEF BackupsDisabled
  <2>15. CASE StartScheduled
    BY <2>15 DEF StartScheduled, ManageBackupCronSchedule
  <2>16. CASE StartUnscheduled
    BY <2>16 DEF StartUnscheduled
  <2>17. CASE PersistCronCondition
    BY <2>17 DEF PersistCronCondition
  <2>18. CASE PersistCronConflict
    BY <2>18 DEF PersistCronConflict
  <2>19. CASE NoManualBackup
    BY <2>19 DEF NoManualBackup, RemoveBackupNowAnnotation
  <2>20. CASE StartManualBackup
    BY <2>20 DEF StartManualBackup, RemoveBackupNowAnnotation
  <2>21. CASE CheckFails
    BY <2>21 DEF CheckFails
  <2>22. CASE ManualBackupDone
    BY <2>22 DEF ManualBackupDone
  <2>23. CASE StartScheduledBackup
    BY <2>23 DEF StartScheduledBackup
  <2>24. CASE NoScheduledBackup
    BY <2>24 DEF NoScheduledBackup
  <2>25. CASE ScheduledBackupDone
    BY <2>25 DEF ScheduledBackupDone
  <2>26. CASE BackupBeforeUpdate
    BY <2>26 DEF BackupBeforeUpdate
  <2>27. CASE UpdateWithoutBackup
    BY <2>27 DEF UpdateWithoutBackup
  <2>28. CASE PreUpdateBackupDone
    BY <2>28 DEF PreUpdateBackupDone
  <2>29. CASE StopPod
    BY <2>29 DEF StopPod
  <2>30. CASE PodReady
    BY <2>30 DEF PodReady
  <2>31. CASE EditBackupSpec
    <3>1. PICK e \in BOOLEAN, t \in Schedules \cup {"none", "bad"} :
               obj' = [obj EXCEPT !.enabled = e, !.schedule = t]
      BY <2>31 DEF EditBackupSpec
    <3>2. obj' \in Server
      BY <3>1
    <3> QED
      BY <2>31, <3>2 DEF EditBackupSpec
  <2>32. CASE RequestBackupNow
    BY <2>32 DEF RequestBackupNow
  <2>33. CASE CronFires
    BY <2>33 DEF CronFires
  <2>34. CASE CronCallback
    BY <2>34 DEF CronCallback
  <2>35. CASE OtherWrite
    BY <2>35 DEF OtherWrite
  <2>36. CASE SyncServer
    BY <2>36 DEF SyncServer
  <2>37. CASE SyncSnapshots
    BY <2>37 DEF SyncSnapshots
  <2>38. CASE OperatorCrash
    BY <2>38 DEF OperatorCrash
  <2>40. CASE UNCHANGED vars
    BY <2>40 DEF vars
  <2> QED
    BY <2>1, <2>2, <2>3, <2>4, <2>5, <2>6, <2>7, <2>8, <2>9, <2>10, <2>11, <2>12,
       <2>13, <2>14, <2>15, <2>16, <2>17, <2>18, <2>19, <2>20, <2>21, <2>22, <2>23,
       <2>24, <2>25, <2>26, <2>27, <2>28, <2>29, <2>30, <2>31, <2>32, <2>33, <2>34,
       <2>35, <2>36, <2>37, <2>38, <2>40 DEF Next, PerformBackup,
       BackupReconcile, UpdateReconcile, Environment
<1> QED
  BY <1>3

\* Snapshots are numbered 1..made.
LEMMA SnapsKept == SnapsOK /\ [Next]_vars => SnapsOK'
<1> SUFFICES ASSUME SnapsOK, [Next]_vars PROVE SnapsOK'
  OBVIOUS
<1>1. SnapsOK'
  <2> USE BackupBoundAssumption DEF SnapsOK
  <2> USE DEF objVars, cronVars, runVars, worldVars, snapVars, budget, Goto, Return, Forget,
          Failed, CopyBack, KeepBounds, Fault, StartUpdate
  <2>1. CASE UNCHANGED snapVars
    BY <2>1
  <2>2. ASSUME NEW p \in Proc, CreateSnapshot(p) PROVE SnapsOK'
    BY <2>2 DEF CreateSnapshot
  <2>3. ASSUME NEW p \in Proc, DeleteOldSnapshots(p) PROVE SnapsOK'
    BY <2>3 DEF DeleteOldSnapshots
  <2>4. ASSUME NEW p \in Proc, DeleteOldSnapshotsFails(p) PROVE SnapsOK'
    BY <2>4 DEF DeleteOldSnapshotsFails
  <2>5. CASE SyncSnapshots
    BY <2>5 DEF SyncSnapshots
  <2>6. CASE OperatorCrash
    BY <2>6 DEF OperatorCrash
  <2> QED
    BY <2>1, <2>2, <2>3, <2>4, <2>5, <2>6
       DEF Next, PerformBackup, BackupReconcile, UpdateReconcile, Environment, vars,
       GetServerBackupMu, Lock, Prepare, ConnectFails, PrepareFails,
       CreateSnapshotFails, PersistBackupStatus, PersistBackupStatusFails, Release,
       SaveOnFails, BackupsDisabled, StartScheduled, StartUnscheduled,
       PersistCronCondition, PersistCronConflict, NoManualBackup, StartManualBackup,
       CheckFails, ManualBackupDone, StartScheduledBackup, NoScheduledBackup,
       ScheduledBackupDone, BackupBeforeUpdate, UpdateWithoutBackup,
       PreUpdateBackupDone, StopPod, PodReady, EditBackupSpec, RequestBackupNow,
       CronFires, CronCallback, OtherWrite, SyncServer
<1> QED
  BY <1>1

\* No step exceeds a bound.
LEMMA BoundsKept == BoundsOK /\ [Next]_vars => BoundsOK'
<1> SUFFICES ASSUME BoundsOK, [Next]_vars PROVE BoundsOK'
  OBVIOUS
<1>1. BoundsOK'
  <2> USE BackupBoundAssumption DEF BoundsOK
  <2> USE DEF objVars, cronVars, runVars, worldVars, snapVars, budget, Goto, Return, Forget,
          Failed, CopyBack, KeepBounds, Fault, StartUpdate
  <2>1. CASE UNCHANGED budget
    BY <2>1
  <2>2. ASSUME NEW p \in Proc, PrepareFails(p) PROVE BoundsOK'
    BY <2>2 DEF PrepareFails
  <2>3. ASSUME NEW p \in Proc, CreateSnapshotFails(p) PROVE BoundsOK'
    BY <2>3 DEF CreateSnapshotFails
  <2>4. ASSUME NEW p \in Proc, DeleteOldSnapshotsFails(p) PROVE BoundsOK'
    BY <2>4 DEF DeleteOldSnapshotsFails
  <2>5. ASSUME NEW p \in Proc, PersistBackupStatusFails(p) PROVE BoundsOK'
    BY <2>5 DEF PersistBackupStatusFails
  <2>6. ASSUME NEW p \in Proc, SaveOnFails(p) PROVE BoundsOK'
    BY <2>6 DEF SaveOnFails
  <2>7. CASE CheckFails
    BY <2>7 DEF CheckFails
  <2>8. CASE BackupBeforeUpdate
    BY <2>8 DEF BackupBeforeUpdate
  <2>9. CASE UpdateWithoutBackup
    BY <2>9 DEF UpdateWithoutBackup
  <2>10. CASE EditBackupSpec
    BY <2>10 DEF EditBackupSpec
  <2>11. CASE RequestBackupNow
    BY <2>11 DEF RequestBackupNow
  <2>12. CASE CronFires
    BY <2>12 DEF CronFires
  <2>13. CASE OtherWrite
    BY <2>13 DEF OtherWrite
  <2>14. CASE OperatorCrash
    BY <2>14 DEF OperatorCrash
  <2> QED
    BY <2>1, <2>2, <2>3, <2>4, <2>5, <2>6, <2>7, <2>8, <2>9, <2>10, <2>11, <2>12,
       <2>13, <2>14
       DEF Next, PerformBackup, BackupReconcile, UpdateReconcile, Environment, vars,
       GetServerBackupMu, Lock, Prepare, ConnectFails, CreateSnapshot,
       DeleteOldSnapshots, PersistBackupStatus, Release, BackupsDisabled,
       StartScheduled, StartUnscheduled, PersistCronCondition, PersistCronConflict,
       NoManualBackup, StartManualBackup, ManualBackupDone, StartScheduledBackup,
       NoScheduledBackup, ScheduledBackupDone, PreUpdateBackupDone, StopPod,
       PodReady, CronCallback, SyncServer, SyncSnapshots
<1> QED
  BY <1>1

\* Every variable keeps its type.
THEOREM TypeCorrect == Spec => []TypeOK
<1>1. Init => TypeOK
  <2> SUFFICES ASSUME Init PROVE TypeOK
    OBVIOUS
  <2>1. obj \in Server /\ NoServer \in Server
    BY DEF Init, NoServer, Server
  <2>2. ServerOK
    BY <2>1 DEF Init, ServerOK
  <2>3. RunsOK
    BY DEF Init, RunsOK
  <2>4. SnapsOK /\ BoundsOK
    BY BackupBoundAssumption DEF Init, SnapsOK, BoundsOK
  <2> QED
    BY <2>2, <2>3, <2>4 DEF TypeOK
<1>2. TypeOK /\ [Next]_vars => TypeOK'
  BY ServerKept, RunsKept, SnapsKept, BoundsKept DEF TypeOK
<1> QED
  BY <1>1, <1>2, PTL DEF Spec

-----------------------------------------------------------------------------
(* Auto-save.                                                              *)

\* Auto-save is off only while a backup still owes a save-on, unless a save-on
\* was lost.
THEOREM AutoSaveSafe == Spec => []AutoSaveRestored
<1>1. Init => AutoSaveInv
  BY DEF Init, AutoSaveInv, AutoSaveRestored
<1>2. TypeOK /\ AutoSaveInv /\ [Next]_vars => AutoSaveInv'
  <2> SUFFICES ASSUME TypeOK, AutoSaveInv, [Next]_vars PROVE AutoSaveInv'
    OBVIOUS
  <2> rcon \in BOOLEAN /\ RunsOK
    BY RconAssumption DEF TypeOK, ServerOK
  <2> USE DEF AutoSaveInv, AutoSaveRestored, RunsOK
  <2> USE DEF objVars, cronVars, runVars, worldVars, snapVars, budget, Goto, Return, Forget,
          Failed, CopyBack, KeepBounds, Fault, StartUpdate
  <2>1. CASE UNCHANGED <<rcon, hooked, autosave, lost>>
    BY <2>1
  <2>2. ASSUME NEW p \in Proc, Prepare(p) PROVE AutoSaveInv'
    BY <2>2 DEF Prepare
  <2>3. ASSUME NEW p \in Proc, PrepareFails(p) PROVE AutoSaveInv'
    BY <2>3 DEF PrepareFails
  <2>4. ASSUME NEW p \in Proc, Release(p) PROVE AutoSaveInv'
    BY <2>4 DEF Release
  <2>5. ASSUME NEW p \in Proc, SaveOnFails(p) PROVE AutoSaveInv'
    BY <2>5 DEF SaveOnFails
  <2>6. CASE StopPod
    BY <2>6 DEF StopPod
  <2>7. CASE OperatorCrash
    BY <2>7 DEF OperatorCrash
  <2> QED
    BY <2>1, <2>2, <2>3, <2>4, <2>5, <2>6, <2>7
       DEF Next, PerformBackup, BackupReconcile, UpdateReconcile, Environment, vars,
       GetServerBackupMu, Lock, ConnectFails, CreateSnapshot, CreateSnapshotFails,
       DeleteOldSnapshots, DeleteOldSnapshotsFails, PersistBackupStatus,
       PersistBackupStatusFails, BackupsDisabled, StartScheduled, StartUnscheduled,
       PersistCronCondition, PersistCronConflict, NoManualBackup, StartManualBackup,
       CheckFails, ManualBackupDone, StartScheduledBackup, NoScheduledBackup,
       ScheduledBackupDone, BackupBeforeUpdate, UpdateWithoutBackup,
       PreUpdateBackupDone, PodReady, EditBackupSpec, RequestBackupNow, CronFires,
       CronCallback, OtherWrite, SyncServer, SyncSnapshots
<1>3. AutoSaveInv => AutoSaveRestored
  BY DEF AutoSaveInv
<1> QED
  BY <1>1, <1>2, <1>3, TypeCorrect, PTL DEF Spec

-----------------------------------------------------------------------------
(* The per-server mutex.                                                   *)

\* Until somebody edits spec.backup, the backups of the two controllers do not
\* overlap.
THEOREM SerializedSafe == Spec => []SerializedUntilEdited
<1>1. Init => SerialInv
  BY DEF Init, SerialInv, BackupsSerialized, Performing, Locked, Proc
<1>2. TypeOK /\ SerialInv /\ [Next]_vars => SerialInv'
  <2> SUFFICES ASSUME TypeOK, SerialInv, [Next]_vars, edits' = 0 PROVE SerialInv'
    BY DEF SerialInv
  <2> RunsOK /\ ServerOK /\ edits \in Nat
    BY BackupBoundAssumption DEF TypeOK, BoundsOK
  <2> USE DEF SerialInv, BackupsSerialized, Performing, Locked, Proc, RunsOK, ServerOK, Server
  <2> USE DEF objVars, cronVars, runVars, worldVars, snapVars, budget, Goto, Return, Forget,
          Failed, CopyBack, KeepBounds, Fault, StartUpdate
  <2>1. ASSUME NEW p \in Proc, GetServerBackupMu(p) PROVE SerialInv'
    <3>1. entry' # 0 /\ (entry # 0 => entry' = entry)
      BY <2>1, FetchedMutex DEF Mutexes
    <3> QED
      BY <2>1, <3>1 DEF GetServerBackupMu
  <2>2. ASSUME NEW p \in Proc, Lock(p) PROVE SerialInv'
    BY <2>2 DEF Lock
  <2>3. ASSUME NEW p \in Proc, Prepare(p) PROVE SerialInv'
    BY <2>3 DEF Prepare
  <2>4. ASSUME NEW p \in Proc, ConnectFails(p) PROVE SerialInv'
    BY <2>4 DEF ConnectFails
  <2>5. ASSUME NEW p \in Proc, PrepareFails(p) PROVE SerialInv'
    BY <2>5 DEF PrepareFails
  <2>6. ASSUME NEW p \in Proc, CreateSnapshot(p) PROVE SerialInv'
    BY <2>6 DEF CreateSnapshot
  <2>7. ASSUME NEW p \in Proc, CreateSnapshotFails(p) PROVE SerialInv'
    BY <2>7 DEF CreateSnapshotFails
  <2>8. ASSUME NEW p \in Proc, DeleteOldSnapshots(p) PROVE SerialInv'
    BY <2>8 DEF DeleteOldSnapshots
  <2>9. ASSUME NEW p \in Proc, DeleteOldSnapshotsFails(p) PROVE SerialInv'
    BY <2>9 DEF DeleteOldSnapshotsFails
  <2>10. ASSUME NEW p \in Proc, PersistBackupStatus(p) PROVE SerialInv'
    BY <2>10 DEF PersistBackupStatus
  <2>11. ASSUME NEW p \in Proc, PersistBackupStatusFails(p) PROVE SerialInv'
    BY <2>11 DEF PersistBackupStatusFails
  <2>12. ASSUME NEW p \in Proc, Release(p) PROVE SerialInv'
    BY <2>12 DEF Release
  <2>13. ASSUME NEW p \in Proc, SaveOnFails(p) PROVE SerialInv'
    BY <2>13 DEF SaveOnFails
  <2>14. CASE BackupsDisabled
    BY <2>14 DEF BackupsDisabled
  <2>15. CASE StartScheduled
    BY <2>15 DEF StartScheduled
  <2>16. CASE StartUnscheduled
    BY <2>16 DEF StartUnscheduled
  <2>17. CASE PersistCronCondition
    BY <2>17 DEF PersistCronCondition
  <2>18. CASE PersistCronConflict
    BY <2>18 DEF PersistCronConflict
  <2>19. CASE NoManualBackup
    BY <2>19 DEF NoManualBackup, RemoveBackupNowAnnotation
  <2>20. CASE StartManualBackup
    BY <2>20 DEF StartManualBackup, RemoveBackupNowAnnotation
  <2>21. CASE CheckFails
    BY <2>21 DEF CheckFails
  <2>22. CASE ManualBackupDone
    BY <2>22 DEF ManualBackupDone
  <2>23. CASE StartScheduledBackup
    BY <2>23 DEF StartScheduledBackup
  <2>24. CASE NoScheduledBackup
    BY <2>24 DEF NoScheduledBackup
  <2>25. CASE ScheduledBackupDone
    BY <2>25 DEF ScheduledBackupDone
  <2>26. CASE BackupBeforeUpdate
    BY <2>26 DEF BackupBeforeUpdate
  <2>27. CASE UpdateWithoutBackup
    BY <2>27 DEF UpdateWithoutBackup
  <2>28. CASE PreUpdateBackupDone
    BY <2>28 DEF PreUpdateBackupDone
  <2>29. CASE StopPod
    BY <2>29 DEF StopPod
  <2>30. CASE PodReady
    BY <2>30 DEF PodReady
  <2>31. CASE EditBackupSpec
    BY <2>31 DEF EditBackupSpec
  <2>32. CASE RequestBackupNow
    BY <2>32 DEF RequestBackupNow
  <2>33. CASE CronFires
    BY <2>33 DEF CronFires
  <2>34. CASE CronCallback
    BY <2>34 DEF CronCallback
  <2>35. CASE OtherWrite
    BY <2>35 DEF OtherWrite
  <2>36. CASE SyncServer
    BY <2>36 DEF SyncServer
  <2>37. CASE SyncSnapshots
    BY <2>37 DEF SyncSnapshots
  <2>38. CASE OperatorCrash
    BY <2>38 DEF OperatorCrash
  <2>40. CASE UNCHANGED vars
    BY <2>40 DEF vars
  <2> QED
    BY <2>1, <2>2, <2>3, <2>4, <2>5, <2>6, <2>7, <2>8, <2>9, <2>10, <2>11, <2>12,
       <2>13, <2>14, <2>15, <2>16, <2>17, <2>18, <2>19, <2>20, <2>21, <2>22, <2>23,
       <2>24, <2>25, <2>26, <2>27, <2>28, <2>29, <2>30, <2>31, <2>32, <2>33, <2>34,
       <2>35, <2>36, <2>37, <2>38, <2>40 DEF Next, PerformBackup,
       BackupReconcile, UpdateReconcile, Environment
<1>3. SerialInv => SerializedUntilEdited
  BY DEF SerialInv, SerializedUntilEdited
<1> QED
  BY <1>1, <1>2, <1>3, TypeCorrect, PTL DEF Spec

-----------------------------------------------------------------------------
(* Retention.                                                              *)

\* A set of numbers with a bound has a greatest one.
LEMMA GreatestNatural ==
    ASSUME NEW n \in Nat, NEW T, T \subseteq 1..n, T # {}
    PROVE  \E m \in T : \A y \in T : y <= m
<1> DEFINE R == {ss \in Nat \X Nat : ss[1] < ss[2]}
           D == {n - x : x \in T}
<1>1. IsWellFoundedOn(R, Nat)
  BY NatLessThanWellFounded, Zenon DEF OpToRel
<1>2. D \subseteq Nat /\ D # {}
  <2>1. \A x \in T : x \in 1..n
    OBVIOUS
  <2>2. \A x \in 1..n : n - x \in Nat
    OBVIOUS
  <2> QED
    BY <2>1, <2>2
<1>3. PICK d \in D : \A e \in D : ~ (<<e, d>> \in R)
  <2> HIDE DEF R, D
  <2> QED
    BY <1>1, <1>2, WFMin, Zenon
<1>4. PICK m \in T : d = n - m
  OBVIOUS
<1>5. ASSUME NEW y \in T PROVE y <= m
  <2>1. n - y \in D /\ n - y \in Nat /\ d \in Nat
    BY <1>2
  <2>2. ~(n - y < d)
    BY <1>3, <2>1
  <2> QED
    BY <1>4, <2>2
<1> QED
  BY <1>4, <1>5

\* What retention spares in a listing it finds too long: MaxCount snapshots, each newer
\* than every one it may delete.
LEMMA Spared ==
    ASSUME NEW n \in Nat, NEW list, list \subseteq 1..n, NEW i \in TooMany(list),
           NEW rest, IsFiniteSet(rest), list \ TooMany(list) \subseteq rest
    PROVE  Cardinality({j \in rest : j > i}) >= MaxCount
<1> DEFINE Later(k) == {j \in list : j > k}
<1>0. \A k \in list : k \in Nat
  OBVIOUS
<1>1. IsFiniteSet(list)
  <2>1. IsFiniteSet(1..n)
    BY FS_Interval
  <2> HIDE DEF Later
  <2> QED
    BY <2>1, FS_Subset
<1>2. \A k : IsFiniteSet(Later(k)) /\ Cardinality(Later(k)) \in Nat
  BY <1>1, FS_Subset, FS_CardinalityType
<1>3. TooMany(list) = {k \in list : Cardinality(Later(k)) >= MaxCount}
  BY DEF TooMany
<1>4. PICK m \in TooMany(list) : \A y \in TooMany(list) : y <= m
  BY <1>3, GreatestNatural
<1>5. ASSUME NEW k \in list, k <= m PROVE k \in TooMany(list)
  <2>1. Later(m) \subseteq Later(k)
    <3>1. m \in Nat /\ k \in Nat
      BY <1>0, <1>3
    <3> QED
      <4>1. ASSUME NEW j \in list, j > m PROVE j > k
        BY <1>0, <1>5, <3>1, <4>1
      <4> QED
        BY <4>1
  <2>2. Cardinality(Later(m)) <= Cardinality(Later(k))
    BY <1>2, <2>1, FS_Subset
  <2>3. Cardinality(Later(m)) >= MaxCount
    BY <1>3
  <2> HIDE DEF Later
  <2> QED
    BY <1>2, <1>3, <2>2, <2>3, CountAssumption
<1>6. Later(m) \subseteq {j \in rest : j > i}
  <2> SUFFICES ASSUME NEW j \in list, j > m PROVE j \in rest /\ j > i
    OBVIOUS
  <2>1. i <= m /\ i \in Nat /\ m \in Nat /\ j \in Nat
    <3>1. i \in list /\ m \in list
      BY <1>3
    <3> QED
      BY <1>0, <1>4, <3>1
  <2>2. j \notin TooMany(list)
    BY <1>4, <2>1
  <2> QED
    BY <2>1, <2>2
<1>7. IsFiniteSet({j \in rest : j > i})
  BY FS_Subset
<1>8. Cardinality(Later(m)) <= Cardinality({j \in rest : j > i})
  BY <1>6, <1>7, FS_Subset
<1>9. Cardinality(Later(m)) >= MaxCount /\ Cardinality({j \in rest : j > i}) \in Nat
  BY <1>3, <1>7, FS_CardinalityType
<1> HIDE DEF Later
<1> QED
  BY <1>2, <1>8, <1>9, CountAssumption

\* However far the informer lags: what it still lists and the cluster no longer has was
\* one too many in this very listing.
ListedOrDeleted == listed \subseteq snaps \cup TooMany(listed)

\* What a step does to snapshots and listing.
LEMMA SnapSteps ==
    ASSUME [Next]_vars, SnapsOK
    PROVE  \/ snaps' = snaps /\ listed' = listed
           \/ listed' = listed /\ snaps \subseteq snaps'
           \/ snaps' = snaps /\ listed' = snaps
           \/ listed' = listed /\ snaps' \subseteq snaps /\ snaps \ snaps' \subseteq TooMany(listed)
<1> USE DEF objVars, cronVars, runVars, worldVars, snapVars, budget, Goto, Return, Forget,
        Failed, CopyBack, KeepBounds, Fault, StartUpdate
<1>1. CASE UNCHANGED snapVars
  BY <1>1
<1>2. ASSUME NEW p \in Proc, CreateSnapshot(p)
      PROVE  listed' = listed /\ snaps \subseteq snaps'
  BY <1>2 DEF CreateSnapshot
<1>3. ASSUME NEW p \in Proc, DeleteOldSnapshots(p) \/ DeleteOldSnapshotsFails(p)
      PROVE  listed' = listed /\ snaps' \subseteq snaps /\ snaps \ snaps' \subseteq TooMany(listed)
  BY <1>3 DEF DeleteOldSnapshots, DeleteOldSnapshotsFails
<1>4. CASE SyncSnapshots \/ OperatorCrash
  BY <1>4 DEF SyncSnapshots, OperatorCrash
<1> QED
  BY <1>1, <1>2, <1>3, <1>4
     DEF Next, PerformBackup, BackupReconcile, UpdateReconcile, Environment, vars,
     GetServerBackupMu, Lock, Prepare, ConnectFails, PrepareFails,
     CreateSnapshotFails, PersistBackupStatus, PersistBackupStatusFails, Release,
     SaveOnFails, BackupsDisabled, StartScheduled, StartUnscheduled,
     PersistCronCondition, PersistCronConflict, NoManualBackup, StartManualBackup,
     CheckFails, ManualBackupDone, StartScheduledBackup, NoScheduledBackup,
     ScheduledBackupDone, BackupBeforeUpdate, UpdateWithoutBackup,
     PreUpdateBackupDone, StopPod, PodReady, EditBackupSpec, RequestBackupNow,
     CronFires, CronCallback, OtherWrite, SyncServer

\* The listing lags only by snapshots that were too many in it.
THEOREM ListingInvariant == Spec => []ListedOrDeleted
<1>1. Init => ListedOrDeleted
  BY DEF Init, ListedOrDeleted
<1>2. TypeOK /\ ListedOrDeleted /\ [Next]_vars => ListedOrDeleted'
  <2> SUFFICES ASSUME SnapsOK, ListedOrDeleted, [Next]_vars PROVE ListedOrDeleted'
    BY DEF TypeOK
  <2>1. listed' = listed => TooMany(listed)' = TooMany(listed)
    BY DEF TooMany
  <2> QED
    BY <2>1, SnapSteps DEF ListedOrDeleted
<1> QED
  BY <1>1, <1>2, TypeCorrect, PTL DEF Spec

\* Retention spares the maxCount newest snapshots, for every maxCount and however far the
\* listing lags: two backups that both run it, a call that fails part of the way and a
\* restart of the operator included (DeleteOldSnapshots).
THEOREM RetentionSafe == Spec => RetentionKeepsNewest
<1>1. ASSUME SnapsOK, SnapsOK', ListedOrDeleted, [Next]_vars, NEW i \in snaps \ snaps'
      PROVE  Cardinality({j \in snaps' : j > i}) >= MaxCount
  <2>1. /\ listed' = listed /\ snaps' \subseteq snaps
        /\ snaps \ snaps' \subseteq TooMany(listed)
    BY <1>1, SnapSteps
  <2>2. listed \ TooMany(listed) \subseteq snaps'
    BY <1>1, <2>1 DEF ListedOrDeleted
  <2>3. made \in Nat /\ listed \subseteq 1..made /\ snaps' \subseteq 1..made
    BY <1>1, <2>1 DEF SnapsOK
  <2>4. IsFiniteSet(snaps')
    <3>1. IsFiniteSet(1..made)
      BY <2>3, FS_Interval
    <3> QED
      BY <2>3, <3>1, FS_Subset
  <2>5. i \in TooMany(listed)
    BY <1>1, <2>1
  <2> QED
    BY <2>2, <2>3, <2>4, <2>5, Spared
<1>2. TypeOK /\ TypeOK' /\ ListedOrDeleted /\ [Next]_vars =>
        [\A i \in snaps \ snaps' : Cardinality({j \in snaps' : j > i}) >= MaxCount]_vars
  BY <1>1 DEF TypeOK
<1> QED
  BY <1>2, TypeCorrect, ListingInvariant, PTL DEF Spec, RetentionKeepsNewest
=============================================================================
