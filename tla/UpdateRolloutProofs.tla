------------------------ MODULE UpdateRolloutProofs ------------------------
(***************************************************************************)
(* Theorems about UpdateRollout for every number of versions and every     *)
(* value of the bounds.                                                    *)
(***************************************************************************)
EXTENDS UpdateRollout, TLAPS

\* A server whose status is empty is a server.
LEMMA NewServerOK == NewServer \in Server
  BY RolloutAssumption DEF NewServer, Server, Versions, Windows

\* manageCronSchedule changes nothing but the condition.
LEMMA ConditionType ==
    ASSUME NEW server \in Server, job \in BOOLEAN
    PROVE  /\ [server EXCEPT !.cronValid = CronCondition(server)] \in Server
           /\ JobAfter(server) \in BOOLEAN
<1>1. server.window \in {"none", "valid", "invalid"} /\ server.cronValid \in BOOLEAN
  BY DEF Server, Windows
<1>2. CronCondition(server) \in BOOLEAN
  <2>1. CASE server.window = "none"
    BY <1>1, <2>1 DEF CronCondition
  <2>2. CASE server.window = "valid"
    BY <1>1, <2>2 DEF CronCondition
  <2>3. CASE server.window = "invalid"
    BY <1>1, <2>3 DEF CronCondition
  <2> QED
    BY <1>1, <2>1, <2>2, <2>3
<1>3. ASSUME NEW c \in BOOLEAN
      PROVE  [server EXCEPT !.cronValid = c] \in Server
  BY DEF Server
<1> QED
  BY <1>2, <1>3 DEF JobAfter

\* Every step leaves servers servers and versions versions.
LEMMA ObjectsKept == TypeOK /\ [Next]_vars => ObjectsOK'
<1> SUFFICES ASSUME TypeOK, [Next]_vars
             PROVE  ObjectsOK'
  OBVIOUS
<1> USE RolloutAssumption DEF TypeOK, ObjectsOK, ControllersOK, Server, Versions
<1>1. CASE Resolve
  BY <1>1 DEF Resolve, DesiredVersion, Candidate, Resolvable, Downgrade, serverVars,
    stsVars, pVars, uVars, budget
<1>2. CASE EnsureStatefulSet
  BY <1>2 DEF EnsureStatefulSet, Outdated, WriteStatefulSet, serverVars, stsVars, pVars,
    uVars, budget
<1>3. CASE EnsureFails
  BY <1>3 DEF EnsureFails, serverVars, stsVars, pVars, uVars, budget
<1>24. CASE InfrastructureFails
  BY <1>24 DEF InfrastructureFails, Outdated, WriteStatefulSet, serverVars, stsVars, pVars,
    uVars, budget
<1>4. CASE WriteStatus
  BY <1>4 DEF WriteStatus, WriteServer, PReturn, NewServer, serverVars, stsVars, pVars,
    uVars, budget
<1>5. CASE RejectCron
  BY <1>5 DEF RejectCron, ReadServer, CronCondition, JobAfter, serverVars, stsVars,
    pVars, uVars, budget
<1>6. CASE NothingToDo
  BY <1>6 DEF NothingToDo, JobAfter, serverVars, stsVars, pVars, uVars, budget
<1>7. CASE StartUpdate
  BY <1>7 DEF StartUpdate, ReadServer, CronCondition, JobAfter, Begin, serverVars,
    stsVars, pVars, uVars, budget
<1>8. CASE StartUpdateNow
  BY <1>8 DEF StartUpdateNow, ReadServer, CronCondition, JobAfter, Begin, WriteServer,
    serverVars, stsVars, pVars, uVars, budget
<1>9. CASE PersistCronCondition
  BY <1>9 DEF PersistCronCondition, WriteServer, UReturn, NewServer, serverVars,
    stsVars, pVars, uVars, budget
<1>10. CASE Shutdown
  BY <1>10 DEF Shutdown, RefreshedByBackup, WriteServer, serverVars, stsVars, pVars, uVars, budget
<1>11. CASE UpdateStatefulSetImage
  BY <1>11 DEF UpdateStatefulSetImage, WriteStatefulSet, serverVars, stsVars, pVars,
    uVars, budget
<1>12. CASE DeletePod
  BY <1>12 DEF DeletePod, serverVars, stsVars, pVars, uVars, budget
<1>13. CASE PodReady
  BY <1>13 DEF PodReady, serverVars, stsVars, pVars, uVars, budget
<1>14. CASE UpdateFails
  BY <1>14 DEF UpdateFails, serverVars, stsVars, pVars, uVars, budget
<1>15. CASE UpdateStatus
  BY <1>15 DEF UpdateStatus, WriteServer, UReturn, NewServer, serverVars, stsVars,
    pVars, uVars, budget
<1>16. CASE RetryStatus
  BY <1>16 DEF RetryStatus, WriteServer, UReturn, MaxStatusRetries, NewServer,
    serverVars, stsVars, pVars, uVars, budget
<1>17. CASE RollPod
  BY <1>17 DEF RollPod, serverVars, stsVars, pVars, uVars, budget
<1>18. CASE Release
  BY <1>18 DEF Release, serverVars, stsVars, pVars, uVars, budget
<1>25. CASE Withdraw
  BY <1>25 DEF Withdraw, serverVars, stsVars, pVars, uVars, budget
<1>19. CASE EditServer
  <2>1. CASE \E v \in Versions \ {obj.pin} : WriteServer([obj EXCEPT !.pin = v])
    BY <1>19, <2>1 DEF EditServer, WriteServer, stsVars
  <2>2. CASE \E w \in Windows \ {obj.window} : WriteServer([obj EXCEPT !.window = w])
    BY <1>19, <2>2 DEF EditServer, WriteServer, stsVars
  <2>3. CASE WriteServer([obj EXCEPT !.applyNow = TRUE])
    BY <1>19, <2>3 DEF EditServer, WriteServer, stsVars
  <2> QED
    BY <1>19, <2>1, <2>2, <2>3 DEF EditServer
<1>20. CASE SyncServer
  BY <1>20 DEF SyncServer, serverVars, stsVars, pVars, uVars, budget
<1>21. CASE SyncStatefulSet
  BY <1>21 DEF SyncStatefulSet, serverVars, stsVars, pVars, uVars, budget
<1>22. CASE OperatorCrash
  BY <1>22 DEF OperatorCrash, PReturn, UReturn, NewServer, serverVars, stsVars, pVars,
    uVars, budget
<1>23. CASE UNCHANGED vars
  BY <1>23 DEF vars, serverVars, stsVars, pVars, uVars, budget
<1> QED
  BY <1>1, <1>2, <1>3, <1>4, <1>5, <1>6, <1>7, <1>8, <1>9, <1>10, <1>11, <1>12, <1>13,
     <1>14, <1>15, <1>16, <1>17, <1>18, <1>19, <1>20, <1>21, <1>22, <1>23,
     <1>24, <1>25
     DEF Next, ServerController, UpdateController, UpdateSteps

\* Program counters, copies and the retry counter keep their types: the third failed
\* attempt ends updateStatusWithRetry.
LEMMA ControllersKept == TypeOK /\ [Next]_vars => ControllersOK'
<1> SUFFICES ASSUME TypeOK, [Next]_vars
             PROVE  ControllersOK'
  OBVIOUS
<1> USE RolloutAssumption DEF TypeOK, ObjectsOK, ControllersOK
<1>1. CASE Resolve
  <2>1. PICK failed \in BOOLEAN :
          pcopy' = [cache EXCEPT !.desired = DesiredVersion(cache, failed)]
    BY <1>1 DEF Resolve
  <2>2. DesiredVersion(cache, failed) \in Versions
    <3>1. \A v : v \in avail => v \in Versions
      BY DEF BoundsOK, Versions
    <3>2. cache.desired \in Versions
      BY DEF Server
    <3>3. DesiredVersion(cache, failed) \in avail \cup {cache.desired}
      BY DEF DesiredVersion, Resolvable
    <3> QED
      BY <3>1, <3>2, <3>3
  <2>3. pcopy' \in Server
    BY <2>1, <2>2 DEF Server
  <2> QED
    BY <1>1, <2>3 DEF Resolve, uVars
<1>2. CASE EnsureStatefulSet
  <2>1. pcopy' \in Server
    BY <1>2 DEF EnsureStatefulSet, Server
  <2> QED
    BY <1>2, <2>1 DEF EnsureStatefulSet, uVars
<1>3. CASE EnsureFails
  BY <1>3 DEF EnsureFails, serverVars, stsVars, pVars, uVars, budget
<1>24. CASE InfrastructureFails
  BY <1>24 DEF InfrastructureFails, Outdated, WriteStatefulSet, serverVars, stsVars, pVars,
    uVars, budget
<1>4. CASE WriteStatus
  BY <1>4, NewServerOK DEF WriteStatus, PReturn
<1>5. CASE RejectCron
  <2>1. ucopy' \in Server /\ job' \in BOOLEAN
    BY <1>5, ConditionType DEF RejectCron, ReadServer
  <2> QED
    BY <1>5, <2>1 DEF RejectCron, pVars
<1>6. CASE NothingToDo
  BY <1>6 DEF NothingToDo, JobAfter, serverVars, stsVars, pVars, uVars, budget
<1>7. CASE StartUpdate
  <2>1. ucopy' \in Server /\ job' \in BOOLEAN
    BY <1>7, ConditionType DEF StartUpdate, ReadServer
  <2> QED
    BY <1>7, <2>1 DEF StartUpdate, Begin, pVars
<1>8. CASE StartUpdateNow
  <2>1. ucopy' \in Server /\ job' \in BOOLEAN
    BY <1>8, ConditionType DEF StartUpdateNow, ReadServer
  <2> QED
    BY <1>8, <2>1 DEF StartUpdateNow, Begin, pVars
<1>9. CASE PersistCronCondition
  BY <1>9, NewServerOK DEF PersistCronCondition, UReturn
<1>10. CASE Shutdown
  BY <1>10 DEF Shutdown, RefreshedByBackup, WriteServer, serverVars, stsVars, pVars, uVars, budget
<1>11. CASE UpdateStatefulSetImage
  BY <1>11 DEF UpdateStatefulSetImage, WriteStatefulSet, serverVars, stsVars, pVars,
    uVars, budget
<1>12. CASE DeletePod
  BY <1>12 DEF DeletePod, serverVars, stsVars, pVars, uVars, budget
<1>13. CASE PodReady
  <2>1. ucopy' \in Server
    BY <1>13 DEF PodReady, Server
  <2> QED
    BY <1>13, <2>1 DEF PodReady, pVars
<1>14. CASE UpdateFails
  BY <1>14 DEF UpdateFails, pVars
<1>15. CASE UpdateStatus
  BY <1>15, NewServerOK DEF UpdateStatus, UReturn
<1>16. CASE RetryStatus
  <2>1. CASE UReturn
    BY <1>16, <2>1, NewServerOK DEF RetryStatus, UReturn
  <2>2. CASE /\ utries + 2 < MaxStatusRetries /\ utries' = utries + 1
             /\ UNCHANGED <<pfresh, upc, ucopy, ufresh>>
    BY <1>16, <2>2 DEF RetryStatus, MaxStatusRetries
  <2> QED
    BY <1>16, <2>1, <2>2 DEF RetryStatus
<1>17. CASE RollPod
  BY <1>17 DEF RollPod, serverVars, stsVars, pVars, uVars, budget
<1>18. CASE Release
  BY <1>18 DEF Release, serverVars, stsVars, pVars, uVars, budget
<1>25. CASE Withdraw
  BY <1>25 DEF Withdraw, serverVars, stsVars, pVars, uVars, budget
<1>19. CASE EditServer
  BY <1>19 DEF EditServer
<1>20. CASE SyncServer
  BY <1>20 DEF SyncServer, serverVars, stsVars, pVars, uVars, budget
<1>21. CASE SyncStatefulSet
  BY <1>21 DEF SyncStatefulSet, serverVars, stsVars, pVars, uVars, budget
<1>22. CASE OperatorCrash
  BY <1>22, NewServerOK DEF OperatorCrash, PReturn, UReturn
<1>23. CASE UNCHANGED vars
  BY <1>23 DEF vars, serverVars, stsVars, pVars, uVars, budget
<1> QED
  BY <1>1, <1>2, <1>3, <1>4, <1>5, <1>6, <1>7, <1>8, <1>9, <1>10, <1>11, <1>12, <1>13,
     <1>14, <1>15, <1>16, <1>17, <1>18, <1>19, <1>20, <1>21, <1>22, <1>23,
     <1>24, <1>25
     DEF Next, ServerController, UpdateController, UpdateSteps

\* No step exceeds a bound.
LEMMA BoundsKept == TypeOK /\ [Next]_vars => BoundsOK'
<1> SUFFICES ASSUME TypeOK, [Next]_vars
             PROVE  BoundsOK'
  OBVIOUS
<1> USE RolloutAssumption DEF TypeOK, BoundsOK
<1>1. CASE Resolve
  BY <1>1 DEF Resolve, DesiredVersion, Candidate, Resolvable, Downgrade, serverVars,
    stsVars, pVars, uVars, budget
<1>2. CASE EnsureStatefulSet
  BY <1>2 DEF EnsureStatefulSet, Outdated, WriteStatefulSet, serverVars, stsVars, pVars,
    uVars, budget
<1>3. CASE EnsureFails
  BY <1>3 DEF EnsureFails, serverVars, stsVars, pVars, uVars, budget
<1>24. CASE InfrastructureFails
  BY <1>24 DEF InfrastructureFails, Outdated, WriteStatefulSet, serverVars, stsVars, pVars,
    uVars, budget
<1>4. CASE WriteStatus
  BY <1>4 DEF WriteStatus, WriteServer, PReturn, NewServer, serverVars, stsVars, pVars,
    uVars, budget
<1>5. CASE RejectCron
  BY <1>5 DEF RejectCron, ReadServer, CronCondition, JobAfter, serverVars, stsVars,
    pVars, uVars, budget
<1>6. CASE NothingToDo
  BY <1>6 DEF NothingToDo, JobAfter, serverVars, stsVars, pVars, uVars, budget
<1>7. CASE StartUpdate
  BY <1>7 DEF StartUpdate, ReadServer, CronCondition, JobAfter, Begin, serverVars,
    stsVars, pVars, uVars, budget
<1>8. CASE StartUpdateNow
  BY <1>8 DEF StartUpdateNow, ReadServer, CronCondition, JobAfter, Begin, WriteServer,
    serverVars, stsVars, pVars, uVars, budget
<1>9. CASE PersistCronCondition
  BY <1>9 DEF PersistCronCondition, WriteServer, UReturn, NewServer, serverVars,
    stsVars, pVars, uVars, budget
<1>10. CASE Shutdown
  BY <1>10 DEF Shutdown, RefreshedByBackup, WriteServer, serverVars, stsVars, pVars, uVars, budget
<1>11. CASE UpdateStatefulSetImage
  BY <1>11 DEF UpdateStatefulSetImage, WriteStatefulSet, serverVars, stsVars, pVars,
    uVars, budget
<1>12. CASE DeletePod
  BY <1>12 DEF DeletePod, serverVars, stsVars, pVars, uVars, budget
<1>13. CASE PodReady
  BY <1>13 DEF PodReady, serverVars, stsVars, pVars, uVars, budget
<1>14. CASE UpdateFails
  BY <1>14 DEF UpdateFails, serverVars, stsVars, pVars, uVars, budget
<1>15. CASE UpdateStatus
  BY <1>15 DEF UpdateStatus, WriteServer, UReturn, NewServer, serverVars, stsVars,
    pVars, uVars, budget
<1>16. CASE RetryStatus
  BY <1>16 DEF RetryStatus, WriteServer, UReturn, MaxStatusRetries, NewServer,
    serverVars, stsVars, pVars, uVars, budget
<1>17. CASE RollPod
  BY <1>17 DEF RollPod, serverVars, stsVars, pVars, uVars, budget
<1>18. CASE Release
  BY <1>18 DEF Release, serverVars, stsVars, pVars, uVars, budget
<1>25. CASE Withdraw
  BY <1>25 DEF Withdraw, serverVars, stsVars, pVars, uVars, budget
<1>19. CASE EditServer
  BY <1>19 DEF EditServer, WriteServer, serverVars, stsVars, pVars, uVars, budget
<1>20. CASE SyncServer
  BY <1>20 DEF SyncServer, serverVars, stsVars, pVars, uVars, budget
<1>21. CASE SyncStatefulSet
  BY <1>21 DEF SyncStatefulSet, serverVars, stsVars, pVars, uVars, budget
<1>22. CASE OperatorCrash
  BY <1>22 DEF OperatorCrash, PReturn, UReturn, NewServer, serverVars, stsVars, pVars,
    uVars, budget
<1>23. CASE UNCHANGED vars
  BY <1>23 DEF vars, serverVars, stsVars, pVars, uVars, budget
<1> QED
  BY <1>1, <1>2, <1>3, <1>4, <1>5, <1>6, <1>7, <1>8, <1>9, <1>10, <1>11, <1>12, <1>13,
     <1>14, <1>15, <1>16, <1>17, <1>18, <1>19, <1>20, <1>21, <1>22, <1>23,
     <1>24, <1>25
     DEF Next, ServerController, UpdateController, UpdateSteps

\* Type correctness of both controllers, of what they leave at the API server and of
\* the retry counter of updateStatusWithRetry (update_controller.go:950-996).
THEOREM TypeCorrect == Spec => []TypeOK
<1>1. Init => TypeOK
  <2> SUFFICES ASSUME Init PROVE TypeOK
    OBVIOUS
  <2>1. obj \in Server
    <3>1. PICK w \in Windows : obj = [NewServer EXCEPT !.window = w]
      BY RolloutAssumption DEF Init
    <3> QED
      BY <3>1, NewServerOK DEF Server
  <2>2. ObjectsOK
    BY <2>1, RolloutAssumption DEF Init, ObjectsOK, Versions
  <2>3. ControllersOK
    BY NewServerOK DEF Init, ControllersOK
  <2>4. BoundsOK
    BY RolloutAssumption DEF Init, BoundsOK
  <2> QED
    BY <2>2, <2>3, <2>4 DEF TypeOK
<1>2. TypeOK /\ [Next]_vars => TypeOK'
  BY ObjectsKept, ControllersKept, BoundsKept DEF TypeOK
<1> QED
  BY <1>1, <1>2, PTL DEF Spec

-----------------------------------------------------------------------------
\* DowngradeGuarded, copy by copy.
Guarded ==
    /\ obj.desired >= obj.current
    /\ cache.desired >= cache.current
    /\ pcopy.desired >= pcopy.current
    /\ ucopy.desired >= ucopy.current

\* Every step keeps each copy's desired version at or above its current one.
LEMMA GuardedSteps == TypeOK /\ Guarded /\ [Next]_vars => Guarded'
<1> SUFFICES ASSUME TypeOK, Guarded, [Next]_vars
             PROVE  Guarded'
  OBVIOUS
<1> USE RolloutAssumption DEF TypeOK, ObjectsOK, ControllersOK, BoundsOK, Server, Versions,
             Guarded
<1>1. CASE Resolve
  BY <1>1 DEF Resolve, DesiredVersion, Candidate, Resolvable, Downgrade, serverVars,
    stsVars, pVars, uVars, budget
<1>2. CASE EnsureStatefulSet
  BY <1>2 DEF EnsureStatefulSet, Outdated, WriteStatefulSet, serverVars, stsVars, pVars,
    uVars, budget
<1>3. CASE EnsureFails
  BY <1>3 DEF EnsureFails, serverVars, stsVars, pVars, uVars, budget
<1>24. CASE InfrastructureFails
  BY <1>24 DEF InfrastructureFails, Outdated, WriteStatefulSet, serverVars, stsVars, pVars,
    uVars, budget
<1>4. CASE WriteStatus
  BY <1>4 DEF WriteStatus, WriteServer, PReturn, NewServer, serverVars, stsVars, pVars,
    uVars, budget
<1>5. CASE RejectCron
  BY <1>5 DEF RejectCron, ReadServer, CronCondition, JobAfter, serverVars, stsVars,
    pVars, uVars, budget
<1>6. CASE NothingToDo
  BY <1>6 DEF NothingToDo, JobAfter, serverVars, stsVars, pVars, uVars, budget
<1>7. CASE StartUpdate
  BY <1>7 DEF StartUpdate, ReadServer, CronCondition, JobAfter, Begin, serverVars,
    stsVars, pVars, uVars, budget
<1>8. CASE StartUpdateNow
  BY <1>8 DEF StartUpdateNow, ReadServer, CronCondition, JobAfter, Begin, WriteServer,
    serverVars, stsVars, pVars, uVars, budget
<1>9. CASE PersistCronCondition
  BY <1>9 DEF PersistCronCondition, WriteServer, UReturn, NewServer, serverVars,
    stsVars, pVars, uVars, budget
<1>10. CASE Shutdown
  BY <1>10 DEF Shutdown, RefreshedByBackup, WriteServer, serverVars, stsVars, pVars, uVars, budget
<1>11. CASE UpdateStatefulSetImage
  BY <1>11 DEF UpdateStatefulSetImage, WriteStatefulSet, serverVars, stsVars, pVars,
    uVars, budget
<1>12. CASE DeletePod
  BY <1>12 DEF DeletePod, serverVars, stsVars, pVars, uVars, budget
<1>13. CASE PodReady
  BY <1>13 DEF PodReady, serverVars, stsVars, pVars, uVars, budget
<1>14. CASE UpdateFails
  BY <1>14 DEF UpdateFails, serverVars, stsVars, pVars, uVars, budget
<1>15. CASE UpdateStatus
  BY <1>15 DEF UpdateStatus, WriteServer, UReturn, NewServer, serverVars, stsVars,
    pVars, uVars, budget
<1>16. CASE RetryStatus
  <2>1. CASE current
    <3>1. obj' = [cache EXCEPT !.cronValid = ucopy.cronValid]
      BY <1>16, <2>1 DEF RetryStatus, WriteServer
    <3>2. obj'.desired = cache.desired /\ obj'.current = cache.current
      BY <3>1
    <3> QED
      BY <1>16, <2>1, <3>2 DEF RetryStatus, WriteServer, UReturn, NewServer
  <2>2. CASE ~current
    BY <1>16, <2>2 DEF RetryStatus, UReturn, NewServer, serverVars
  <2> QED
    BY <2>1, <2>2
<1>17. CASE RollPod
  BY <1>17 DEF RollPod, serverVars, stsVars, pVars, uVars, budget
<1>18. CASE Release
  BY <1>18 DEF Release, serverVars, stsVars, pVars, uVars, budget
<1>25. CASE Withdraw
  BY <1>25 DEF Withdraw, serverVars, stsVars, pVars, uVars, budget
<1>19. CASE EditServer
  BY <1>19 DEF EditServer, WriteServer, serverVars, stsVars, pVars, uVars, budget
<1>20. CASE SyncServer
  BY <1>20 DEF SyncServer, serverVars, stsVars, pVars, uVars, budget
<1>21. CASE SyncStatefulSet
  BY <1>21 DEF SyncStatefulSet, serverVars, stsVars, pVars, uVars, budget
<1>22. CASE OperatorCrash
  BY <1>22 DEF OperatorCrash, PReturn, UReturn, NewServer, serverVars, stsVars, pVars,
    uVars, budget
<1>23. CASE UNCHANGED vars
  BY <1>23 DEF vars, serverVars, stsVars, pVars, uVars, budget
<1> QED
  BY <1>1, <1>2, <1>3, <1>4, <1>5, <1>6, <1>7, <1>8, <1>9, <1>10, <1>11, <1>12, <1>13,
     <1>14, <1>15, <1>16, <1>17, <1>18, <1>19, <1>20, <1>21, <1>22, <1>23,
     <1>24, <1>25
     DEF Next, ServerController, UpdateController, UpdateSteps

\* checkDowngrade and the fallback of updateDesiredVersion together: a desired version
\* is never older than the current version of the same status, in any copy.
THEOREM DowngradeSafe == Spec => []DowngradeGuarded
<1>1. Init => Guarded
  BY DEF Init, Guarded, NewServer
<1>2. TypeOK /\ Guarded /\ [Next]_vars => Guarded'
  BY GuardedSteps
<1>3. Guarded => DowngradeGuarded
  BY DEF Guarded, DowngradeGuarded
<1> QED
  BY <1>1, <1>2, <1>3, TypeCorrect, PTL DEF Spec

-----------------------------------------------------------------------------
\* What makes a write keep the version: a copy that the API server would still accept
\* agrees with it on the desired version, and an image is only written from a copy
\* that has one.
VersionInv ==
    /\ current => cache = obj
    /\ pfresh /\ obj.desired # 0 => pcopy.desired # 0
    /\ ufresh => ucopy.desired = obj.desired
    /\ ppc = "ensure" => pcopy.desired # 0
    /\ upc = "image" => ucopy.desired # 0
    /\ cache.desired # 0 => obj.desired # 0
    /\ upc \notin {"idle", "reject"} => cache.desired # 0

\* Every step keeps the copies in agreement on having a version.
LEMMA VersionSteps ==
    TypeOK /\ Guarded /\ VersionInv /\ [Next]_vars => VersionInv'
<1> SUFFICES ASSUME TypeOK, Guarded, VersionInv, [Next]_vars
             PROVE  VersionInv'
  OBVIOUS
<1> USE RolloutAssumption DEF TypeOK, ObjectsOK, ControllersOK, BoundsOK, Server, Versions,
             Guarded, VersionInv
<1>1. CASE Resolve
  BY <1>1 DEF Resolve, DesiredVersion, Candidate, Resolvable, Downgrade, serverVars,
    stsVars, pVars, uVars, budget
<1>2. CASE EnsureStatefulSet
  BY <1>2 DEF EnsureStatefulSet, Outdated, WriteStatefulSet, serverVars, stsVars, pVars,
    uVars, budget
<1>3. CASE EnsureFails
  BY <1>3 DEF EnsureFails, serverVars, stsVars, pVars, uVars, budget
<1>24. CASE InfrastructureFails
  BY <1>24 DEF InfrastructureFails, Outdated, WriteStatefulSet, serverVars, stsVars, pVars,
    uVars, budget
<1>4. CASE WriteStatus
  BY <1>4 DEF WriteStatus, WriteServer, PReturn, NewServer, serverVars, stsVars, pVars,
    uVars, budget
<1>5. CASE RejectCron
  BY <1>5 DEF RejectCron, ReadServer, CronCondition, JobAfter, serverVars, stsVars,
    pVars, uVars, budget
<1>6. CASE NothingToDo
  BY <1>6 DEF NothingToDo, JobAfter, serverVars, stsVars, pVars, uVars, budget
<1>7. CASE StartUpdate
  BY <1>7 DEF StartUpdate, ReadServer, CronCondition, JobAfter, Begin, serverVars,
    stsVars, pVars, uVars, budget
<1>8. CASE StartUpdateNow
  BY <1>8 DEF StartUpdateNow, ReadServer, CronCondition, JobAfter, Begin, WriteServer,
    serverVars, stsVars, pVars, uVars, budget
<1>9. CASE PersistCronCondition
  BY <1>9 DEF PersistCronCondition, WriteServer, UReturn, NewServer, serverVars,
    stsVars, pVars, uVars, budget
<1>10. CASE Shutdown
  BY <1>10 DEF Shutdown, RefreshedByBackup, WriteServer, serverVars, stsVars, pVars, uVars, budget
<1>11. CASE UpdateStatefulSetImage
  BY <1>11 DEF UpdateStatefulSetImage, WriteStatefulSet, serverVars, stsVars, pVars,
    uVars, budget
<1>12. CASE DeletePod
  BY <1>12 DEF DeletePod, serverVars, stsVars, pVars, uVars, budget
<1>13. CASE PodReady
  BY <1>13 DEF PodReady, serverVars, stsVars, pVars, uVars, budget
<1>14. CASE UpdateFails
  BY <1>14 DEF UpdateFails, serverVars, stsVars, pVars, uVars, budget
<1>15. CASE UpdateStatus
  BY <1>15 DEF UpdateStatus, WriteServer, UReturn, NewServer, serverVars, stsVars,
    pVars, uVars, budget
<1>16. CASE RetryStatus
  BY <1>16 DEF RetryStatus, WriteServer, UReturn, MaxStatusRetries, NewServer,
    serverVars, stsVars, pVars, uVars, budget
<1>17. CASE RollPod
  BY <1>17 DEF RollPod, serverVars, stsVars, pVars, uVars, budget
<1>18. CASE Release
  BY <1>18 DEF Release, serverVars, stsVars, pVars, uVars, budget
<1>25. CASE Withdraw
  BY <1>25 DEF Withdraw, serverVars, stsVars, pVars, uVars, budget
<1>19. CASE EditServer
  BY <1>19 DEF EditServer, WriteServer, serverVars, stsVars, pVars, uVars, budget
<1>20. CASE SyncServer
  BY <1>20 DEF SyncServer, serverVars, stsVars, pVars, uVars, budget
<1>21. CASE SyncStatefulSet
  BY <1>21 DEF SyncStatefulSet, serverVars, stsVars, pVars, uVars, budget
<1>22. CASE OperatorCrash
  BY <1>22 DEF OperatorCrash, PReturn, UReturn, NewServer, serverVars, stsVars, pVars,
    uVars, budget
<1>23. CASE UNCHANGED vars
  BY <1>23 DEF vars, serverVars, stsVars, pVars, uVars, budget
<1> QED
  BY <1>1, <1>2, <1>3, <1>4, <1>5, <1>6, <1>7, <1>8, <1>9, <1>10, <1>11, <1>12, <1>13,
     <1>14, <1>15, <1>16, <1>17, <1>18, <1>19, <1>20, <1>21, <1>22, <1>23,
     <1>24, <1>25
     DEF Next, ServerController, UpdateController, UpdateSteps

\* No step takes the desired version or the image away.
LEMMA VersionStaysSet ==
    ASSUME TypeOK, VersionInv, [Next]_vars
    PROVE  /\ obj.desired # 0 => obj'.desired # 0
           /\ sts # 0 => sts' # 0
<1> USE DEF TypeOK, ObjectsOK, ControllersOK, Server, Versions, VersionInv
<1>1. CASE Resolve
  BY <1>1 DEF Resolve, DesiredVersion, Candidate, Resolvable, Downgrade, serverVars,
    stsVars, pVars, uVars, budget
<1>2. CASE EnsureStatefulSet
  BY <1>2 DEF EnsureStatefulSet, Outdated, WriteStatefulSet, serverVars, stsVars, pVars,
    uVars, budget
<1>3. CASE EnsureFails
  BY <1>3 DEF EnsureFails, serverVars, stsVars, pVars, uVars, budget
<1>24. CASE InfrastructureFails
  BY <1>24 DEF InfrastructureFails, Outdated, WriteStatefulSet, serverVars, stsVars, pVars,
    uVars, budget
<1>4. CASE WriteStatus
  BY <1>4 DEF WriteStatus, WriteServer, PReturn, NewServer, serverVars, stsVars, pVars,
    uVars, budget
<1>5. CASE RejectCron
  BY <1>5 DEF RejectCron, ReadServer, CronCondition, JobAfter, serverVars, stsVars,
    pVars, uVars, budget
<1>6. CASE NothingToDo
  BY <1>6 DEF NothingToDo, JobAfter, serverVars, stsVars, pVars, uVars, budget
<1>7. CASE StartUpdate
  BY <1>7 DEF StartUpdate, ReadServer, CronCondition, JobAfter, Begin, serverVars,
    stsVars, pVars, uVars, budget
<1>8. CASE StartUpdateNow
  BY <1>8 DEF StartUpdateNow, ReadServer, CronCondition, JobAfter, Begin, WriteServer,
    serverVars, stsVars, pVars, uVars, budget
<1>9. CASE PersistCronCondition
  BY <1>9 DEF PersistCronCondition, WriteServer, UReturn, NewServer, serverVars,
    stsVars, pVars, uVars, budget
<1>10. CASE Shutdown
  BY <1>10 DEF Shutdown, RefreshedByBackup, WriteServer, serverVars, stsVars, pVars, uVars, budget
<1>11. CASE UpdateStatefulSetImage
  BY <1>11 DEF UpdateStatefulSetImage, WriteStatefulSet, serverVars, stsVars, pVars,
    uVars, budget
<1>12. CASE DeletePod
  BY <1>12 DEF DeletePod, serverVars, stsVars, pVars, uVars, budget
<1>13. CASE PodReady
  BY <1>13 DEF PodReady, serverVars, stsVars, pVars, uVars, budget
<1>14. CASE UpdateFails
  BY <1>14 DEF UpdateFails, serverVars, stsVars, pVars, uVars, budget
<1>15. CASE UpdateStatus
  BY <1>15 DEF UpdateStatus, WriteServer, UReturn, NewServer, serverVars, stsVars,
    pVars, uVars, budget
<1>16. CASE RetryStatus
  BY <1>16 DEF RetryStatus, WriteServer, UReturn, MaxStatusRetries, NewServer,
    serverVars, stsVars, pVars, uVars, budget
<1>17. CASE RollPod
  BY <1>17 DEF RollPod, serverVars, stsVars, pVars, uVars, budget
<1>18. CASE Release
  BY <1>18 DEF Release, serverVars, stsVars, pVars, uVars, budget
<1>25. CASE Withdraw
  BY <1>25 DEF Withdraw, serverVars, stsVars, pVars, uVars, budget
<1>19. CASE EditServer
  BY <1>19 DEF EditServer, WriteServer, serverVars, stsVars, pVars, uVars, budget
<1>20. CASE SyncServer
  BY <1>20 DEF SyncServer, serverVars, stsVars, pVars, uVars, budget
<1>21. CASE SyncStatefulSet
  BY <1>21 DEF SyncStatefulSet, serverVars, stsVars, pVars, uVars, budget
<1>22. CASE OperatorCrash
  BY <1>22 DEF OperatorCrash, PReturn, UReturn, NewServer, serverVars, stsVars, pVars,
    uVars, budget
<1>23. CASE UNCHANGED vars
  BY <1>23 DEF vars, serverVars, stsVars, pVars, uVars, budget
<1> QED
  BY <1>1, <1>2, <1>3, <1>4, <1>5, <1>6, <1>7, <1>8, <1>9, <1>10, <1>11, <1>12, <1>13,
     <1>14, <1>15, <1>16, <1>17, <1>18, <1>19, <1>20, <1>21, <1>22, <1>23,
     <1>24, <1>25
     DEF Next, ServerController, UpdateController, UpdateSteps

\* "Keep existing desired if set" (papermcserver_controller.go:231-236): failed lookups,
\* conflicts, crashes and the second writer of the image never leave a server that had
\* a version without one.
THEOREM VersionSafe == Spec => VersionKept
<1>1. Init => Guarded /\ VersionInv
  BY DEF Init, Guarded, VersionInv, NewServer
<1>2. TypeOK /\ Guarded /\ VersionInv /\ [Next]_vars => Guarded' /\ VersionInv'
  BY GuardedSteps, VersionSteps
<1>3. TypeOK /\ VersionInv /\ [Next]_vars
        => [/\ obj.desired # 0 => obj'.desired # 0
            /\ sts # 0 => sts' # 0]_vars
  BY VersionStaysSet
<1> QED
  BY <1>1, <1>2, <1>3, TypeCorrect, PTL DEF Spec, VersionKept

-----------------------------------------------------------------------------
\* The rollout has converged: the image carries the desired version, every status says
\* so, and no resolution of it would give another version.
Stays(server) ==
    Candidate(server) = sts \/ ~Resolvable(server, Candidate(server))

AgreesOn(server) ==
    server.desired = sts /\ server.current = sts /\ server.pin = obj.pin

Agreed ==
    /\ sts # 0 /\ stsCache = sts
    /\ AgreesOn(obj) /\ AgreesOn(cache)
    /\ ppc # "idle" => AgreesOn(pcopy)
    /\ upc # "idle" => AgreesOn(ucopy)
    /\ Stays(obj)

\* What was agreed on stays so until the user pins another version or one is released or
\* withdrawn: neither controller writes the image again, no refused or late status write
\* and no crash takes the status back (the safety part of RolloutConverges).
AgreementStays ==
    [][Agreed /\ avail' = avail /\ obj'.pin = obj.pin =>
          Agreed' /\ sts' = sts /\ pod' \in {pod, 0, sts}]_vars

\* No step of either controller ends the agreement.
LEMMA AgreedSteps ==
    ASSUME TypeOK, Agreed, [Next]_vars, avail' = avail, obj'.pin = obj.pin
    PROVE  Agreed' /\ sts' = sts /\ pod' \in {pod, 0, sts}
<1> USE RolloutAssumption DEF TypeOK, ObjectsOK, ControllersOK, BoundsOK, Server, Versions,
             Agreed, AgreesOn, Stays, Candidate, Resolvable, Downgrade
<1>0. Newest' = Newest
  BY DEF Newest
<1> USE <1>0
<1>1. CASE Resolve
  BY <1>1 DEF Resolve, DesiredVersion, Candidate, Resolvable, Downgrade, serverVars,
    stsVars, pVars, uVars, budget
<1>2. CASE EnsureStatefulSet
  BY <1>2 DEF EnsureStatefulSet, Outdated, WriteStatefulSet, serverVars, stsVars,
    pVars, uVars, budget
<1>3. CASE EnsureFails
  BY <1>3 DEF EnsureFails, serverVars, stsVars, pVars, uVars, budget
<1>24. CASE InfrastructureFails
  BY <1>24 DEF InfrastructureFails, Outdated, WriteStatefulSet, serverVars, stsVars, pVars,
    uVars, budget
<1>4. CASE WriteStatus
  BY <1>4 DEF WriteStatus, WriteServer, PReturn, NewServer, serverVars, stsVars,
    pVars, uVars, budget
<1>5. CASE RejectCron
  BY <1>5 DEF RejectCron, ReadServer, serverVars, stsVars, pVars, uVars, budget
<1>6. CASE NothingToDo
  BY <1>6 DEF NothingToDo, serverVars, stsVars, pVars, uVars, budget
<1>7. CASE StartUpdate
  BY <1>7 DEF StartUpdate, ReadServer, Begin, serverVars, stsVars, pVars, uVars,
    budget
<1>8. CASE StartUpdateNow
  BY <1>8 DEF StartUpdateNow, ReadServer, Begin, WriteServer, serverVars, stsVars,
    pVars, uVars, budget
<1>9. CASE PersistCronCondition
  BY <1>9 DEF PersistCronCondition, WriteServer, UReturn, NewServer, serverVars,
    stsVars, pVars, uVars, budget
<1>10. CASE Shutdown
  BY <1>10 DEF Shutdown, RefreshedByBackup, WriteServer, serverVars, stsVars, pVars, uVars, budget
<1>11. CASE UpdateStatefulSetImage
  BY <1>11 DEF UpdateStatefulSetImage, WriteStatefulSet, serverVars, stsVars, pVars,
    uVars, budget
<1>12. CASE DeletePod
  BY <1>12 DEF DeletePod, serverVars, stsVars, pVars, uVars, budget
<1>13. CASE PodReady
  BY <1>13 DEF PodReady, serverVars, stsVars, pVars, uVars, budget
<1>14. CASE UpdateFails
  BY <1>14 DEF UpdateFails, serverVars, stsVars, pVars, uVars, budget
<1>15. CASE UpdateStatus
  BY <1>15 DEF UpdateStatus, WriteServer, UReturn, NewServer, serverVars, stsVars,
    pVars, uVars, budget
<1>16. CASE RetryStatus
  BY <1>16 DEF RetryStatus, WriteServer, UReturn, NewServer, serverVars, stsVars,
    pVars, uVars, budget
<1>17. CASE RollPod
  BY <1>17 DEF RollPod, serverVars, stsVars, pVars, uVars, budget
<1>18. CASE Release
  BY <1>18 DEF Release, serverVars, stsVars, pVars, uVars, budget
<1>25. CASE Withdraw
  BY <1>25 DEF Withdraw, serverVars, stsVars, pVars, uVars, budget
<1>19. CASE EditServer
  BY <1>19 DEF EditServer, WriteServer, serverVars, stsVars, pVars, uVars, budget
<1>20. CASE SyncServer
  BY <1>20 DEF SyncServer, serverVars, stsVars, pVars, uVars, budget
<1>21. CASE SyncStatefulSet
  BY <1>21 DEF SyncStatefulSet, serverVars, stsVars, pVars, uVars, budget
<1>22. CASE OperatorCrash
  BY <1>22 DEF OperatorCrash, PReturn, UReturn, NewServer, serverVars, stsVars, pVars,
    uVars, budget
<1>23. CASE UNCHANGED vars
  BY <1>23 DEF vars, serverVars, stsVars, pVars, uVars, budget
<1> QED
  BY <1>1, <1>2, <1>3, <1>4, <1>5, <1>6, <1>7, <1>8, <1>9, <1>10, <1>11, <1>12, <1>13,
     <1>14, <1>15, <1>16, <1>17, <1>18, <1>19, <1>20, <1>21, <1>22, <1>23,
     <1>24, <1>25
     DEF Next, ServerController, UpdateController, UpdateSteps

\* Two writers of the image and three stores of versions do not flap once they agree.
THEOREM AgreementSafe == Spec => AgreementStays
<1>1. TypeOK /\ [Next]_vars =>
        [Agreed /\ avail' = avail /\ obj'.pin = obj.pin =>
            Agreed' /\ sts' = sts /\ pod' \in {pod, 0, sts}]_vars
  BY AgreedSteps
<1> QED
  BY <1>1, TypeCorrect, PTL DEF Spec, AgreementStays
=============================================================================
