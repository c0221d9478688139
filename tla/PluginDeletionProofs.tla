------------------------ MODULE PluginDeletionProofs ------------------------
(***************************************************************************)
(* Theorems about PluginDeletion for every set of servers, every number of *)
(* versions and every value of the bounds.                                 *)
(***************************************************************************)
EXTENDS PluginDeletion, TLAPS

\* Changing entries of the DeletionProgress yields a Plugin object again.
LEMMA SetProgressType ==
    ASSUME NEW p \in PluginObject, NEW S \in SUBSET Servers, NEW v \in Progress
    PROVE  /\ SetProgress(p, S, v) \in PluginObject
           /\ SetProgress(p, S, v).phase = p.phase
           /\ SetProgress(p, S, v).uid = p.uid
           /\ SetProgress(p, S, v).finalizer = p.finalizer
           /\ SetProgress(p, S, v).latest = p.latest
           /\ \A s \in Servers : SetProgress(p, S, v).progress[s] =
                                    IF s \in S THEN v ELSE p.progress[s]
  BY DEF SetProgress, PluginObject, Progress, Versions

\* Changing no entry changes nothing.
LEMMA SetNoProgress ==
    ASSUME NEW p \in PluginObject, NEW v
    PROVE  SetProgress(p, {}, v) = p
  <1>1. [s \in Servers |-> IF s \in {} THEN v ELSE p.progress[s]] = p.progress
    BY DEF PluginObject
  <1> QED
    BY <1>1 DEF SetProgress, PluginObject

\* The empty objects are objects.
LEMMA EmptyObjects ==
    NoPlugin \in PluginObject /\ NoEntry \in Entry /\ NoServer \in ServerObject
  BY VersionAssumption, BoundAssumption DEF NoPlugin, NoEntry, NoServer, PluginObject,
     Entry, ServerObject, Progress, Versions, Uids

\* So are the objects after an installation.
LEMMA InstalledObjects ==
    /\ InstalledEntry \in Entry
    /\ MaxCreations > 0 => InstalledPlugin \in PluginObject
    /\ InstalledPlugin.phase = "active" /\ InstalledPlugin.uid = 1
    /\ InstalledPlugin.finalizer /\ InstalledPlugin.progress = NoPlugin.progress
    /\ InstalledEntry.mark = 0
<1>1. InstalledEntry \in Entry /\ InstalledEntry.mark = 0
  <2>1. 0 \in Uids /\ 1 \in Versions
    BY VersionAssumption, BoundAssumption DEF Versions, Uids
  <2> QED
    BY <2>1 DEF InstalledEntry, Entry
<1>2. InstalledPlugin = [phase |-> "active", uid |-> 1, finalizer |-> TRUE, latest |-> 1,
                         progress |-> [s \in Servers |-> "none"]]
  BY DEF InstalledPlugin
<1>3. MaxCreations > 0 => 1 \in Uids
  BY BoundAssumption DEF Uids
<1>4. 1 \in Versions
  BY VersionAssumption DEF Versions
<1>5. MaxCreations > 0 => InstalledPlugin \in PluginObject
  BY <1>2, <1>3, <1>4 DEF PluginObject, Progress
<1> QED
  BY <1>1, <1>2, <1>5 DEF NoPlugin

\* The entries the controllers compute are entries.
LEMMA MergeType ==
    ASSUME NEW a \in Entry, NEW b \in Entry
    PROVE  Merge(a, b) \in Entry
  BY DEF Merge, Entry

\* The entry buildPluginStatus makes is an entry.
LEMMA BuildPluginStatusType ==
    ASSUME NEW obj \in ServerObject, NEW p \in PluginObject
    PROVE  BuildPluginStatus(obj, p) \in Entry
  <1>1. obj.entry \in Entry /\ p.latest \in Versions
    BY DEF ServerObject, PluginObject
  <1>2. [obj.entry EXCEPT !.listed = TRUE, !.resolved = p.latest] \in Entry
    BY <1>1 DEF Entry
  <1> QED
    BY <1>2, EmptyObjects DEF BuildPluginStatus

\* No step exceeds a bound.
LEMMA BoundsKept == BoundsOK /\ [Next]_vars => BoundsOK'
<1> SUFFICES ASSUME BoundsOK, [Next]_vars PROVE BoundsOK'
  OBVIOUS
<1> USE BoundAssumption DEF BoundsOK
<1>1. CASE UNCHANGED budget
  BY <1>1 DEF budget
<1>2. CASE CreatePlugin
  BY <1>2 DEF CreatePlugin
<1>3. CASE \E s \in Servers : RelabelServer(s)
  BY <1>3 DEF RelabelServer
<1>4. CASE \E s \in Servers : DeleteServer(s)
  BY <1>4 DEF DeleteServer
<1>5. CASE \E s \in Servers : TakeServer(s)
  BY <1>5 DEF TakeServer
<1>6. CASE DeleteError \/ OperatorRestart
  BY <1>6 DEF DeleteError, OperatorRestart
<1>7. CASE PluginController
  BY <1>1, <1>6, <1>7 DEF PluginController, AddFinalizer, SyncMetadata,
     InitDeletionProgress, BeginDelete, CleanupDeletedServers, MarkNoJAR, MarkPending,
     MarkDone, ForceCompleteStaleDeletions, RemoveFinalizer, DeleteConflict
<1>8. CASE UpdateController
  BY <1>1, <1>5, <1>8 DEF UpdateController, StartUpdate, StartUpdateNow,
     DeletePluginJAR, ConfirmDeletion, ApplyPluginUpdates, RestartPod, UpdateFails,
     UpdateStatus, RetryStatus, StatusError
<1>9. CASE Environment
  BY <1>1, <1>2, <1>3, <1>4, <1>6, <1>9 DEF Environment, DeletePlugin, TimePasses
<1>10. CASE \/ SyncPlugin
            \/ \E s \in Servers : ReconcileServer(s) \/ SyncServer(s)
            \/ UNCHANGED vars
  BY <1>1, <1>10 DEF SyncPlugin, ReconcileServer, SyncServer, vars
<1> QED
  BY <1>7, <1>8, <1>9, <1>10 DEF Next

\* Every variable keeps its type.
THEOREM TypeCorrect == Spec => []TypeOK
<1>1. Init => TypeOK
  <2> SUFFICES ASSUME Init PROVE TypeOK
    OBVIOUS
  <2>1. ASSUME NEW m \in BOOLEAN, NEW e \in {NoEntry, InstalledEntry}
        PROVE  [alive |-> TRUE, matched |-> m, entry |-> e] \in ServerObject
    BY EmptyObjects, InstalledObjects DEF ServerObject
  <2>2. server \in [Servers -> ServerObject]
    <3>1. PICK installed \in SUBSET Servers, matched \in SUBSET Servers :
             server = [s \in Servers |->
                         [alive |-> TRUE, matched |-> s \in matched \cup installed,
                          entry |-> IF s \in installed THEN InstalledEntry ELSE NoEntry]]
      BY DEF Init
    <3>2. ASSUME NEW s \in Servers
          PROVE  [alive |-> TRUE, matched |-> s \in matched \cup installed,
                  entry |-> IF s \in installed THEN InstalledEntry ELSE NoEntry]
                     \in ServerObject
      <4>1. (s \in matched \cup installed) \in BOOLEAN
        OBVIOUS
      <4>2. (IF s \in installed THEN InstalledEntry ELSE NoEntry) \in {NoEntry, InstalledEntry}
        OBVIOUS
      <4> QED
        BY <2>1, <4>1, <4>2, Zenon
    <3> QED
      BY <3>1, <3>2, Zenon
  <2>3. plugin \in PluginObject /\ disk \in [Servers -> Uids]
    BY EmptyObjects, InstalledObjects, BoundAssumption DEF Init, Uids
  <2>4. ObjectsOK
    BY <2>2, <2>3 DEF Init, ObjectsOK
  <2>5. ControllersOK
    BY EmptyObjects DEF Init, ControllersOK
  <2>6. BoundsOK
    BY <2>3, BoundAssumption DEF Init, BoundsOK, PluginObject, Uids
  <2> QED
    BY <2>4, <2>5, <2>6 DEF TypeOK
<1>2. BoundsOK /\ ObjectsOK /\ ControllersOK /\ [Next]_vars => (ObjectsOK /\ ControllersOK)'
  <2> SUFFICES ASSUME BoundsOK, ObjectsOK, ControllersOK, [Next]_vars
               PROVE  (ObjectsOK /\ ControllersOK)'
    OBVIOUS
  <2> USE EmptyObjects
  <2> USE DEF pluginVars, serverVars, pVars, uVars
  <2>1. CASE AddFinalizer
    <3>1. [pluginCache EXCEPT !.finalizer = TRUE] \in PluginObject
      BY DEF ObjectsOK, PluginObject
    <3> QED
      BY <2>1, <3>1 DEF AddFinalizer, WritePlugin, ObjectsOK, ControllersOK
  <2>2. CASE SyncMetadata
    <3>1. [pluginCache EXCEPT !.latest = @ + 1] \in PluginObject
      BY <2>2, VersionAssumption DEF SyncMetadata, ObjectsOK, PluginObject, Versions
    <3> QED
      BY <2>2, <3>1 DEF SyncMetadata, WritePlugin, ObjectsOK, ControllersOK
  <2>3. CASE InitDeletionProgress
    <3> DEFINE matched == {s \in Servers : serverCache[s].alive /\ serverCache[s].matched}
               new == SetProgress(pluginCache, matched, "requested")
    <3>1. new \in PluginObject
      BY SetProgressType DEF ObjectsOK, ControllersOK, Progress
    <3> HIDE DEF new
    <3> QED
      BY <2>3, <3>1 DEF InitDeletionProgress, WritePlugin, ObjectsOK, ControllersOK, new
  <2>4. CASE BeginDelete
    BY <2>4 DEF BeginDelete, ObjectsOK, ControllersOK
  <2>5. CASE CleanupDeletedServers
    <3> DEFINE gone == {s \in Requested(pcopy) : Lost(s)}
               new == SetProgress(pcopy, gone, "none")
    <3>1. new \in PluginObject
      BY SetProgressType DEF ObjectsOK, ControllersOK, Progress, Requested
    <3>2. Requested(new) \subseteq Servers
      BY DEF Requested
    <3> HIDE DEF new
    <3> QED
      BY <2>5, <3>1, <3>2 DEF CleanupDeletedServers, WritePlugin,
         ObjectsOK, ControllersOK, new
  <2>6. ASSUME NEW s \in Servers, MarkNoJAR(s) PROVE (ObjectsOK /\ ControllersOK)'
    <3>1. SetProgress(pcopy, {s}, "deleted") \in PluginObject
      BY SetProgressType DEF ObjectsOK, ControllersOK, Progress
    <3> QED
      BY <2>6, <3>1 DEF MarkNoJAR, WritePlugin, ObjectsOK, ControllersOK
  <2>7. ASSUME NEW s \in Servers, MarkPending(s) PROVE (ObjectsOK /\ ControllersOK)'
    <3>1. [serverCache[s] EXCEPT !.entry.mark = pcopy.uid] \in ServerObject
      <4>1. pcopy.uid \in Uids /\ serverCache[s] \in ServerObject
        BY DEF ObjectsOK, ControllersOK, PluginObject
      <4>2. [serverCache[s].entry EXCEPT !.mark = pcopy.uid] \in Entry
        BY <4>1 DEF ServerObject, Entry
      <4> QED
        BY <4>1, <4>2 DEF ServerObject
    <3> QED
      BY <2>7, <3>1 DEF MarkPending, WriteServer, AgeServerCopy, ObjectsOK, ControllersOK
  <2>8. CASE MarkDone
    BY <2>8 DEF MarkDone, ObjectsOK, ControllersOK
  <2>9. CASE ForceCompleteStaleDeletions
    <3> DEFINE new == SetProgress(pcopy, Requested(pcopy) \cap old, "deleted")
    <3>1. new \in PluginObject
      BY SetProgressType DEF ObjectsOK, ControllersOK, Progress, Requested
    <3> HIDE DEF new
    <3> QED
      BY <2>9, <3>1 DEF ForceCompleteStaleDeletions, WritePlugin, ForgetPlugin,
         ObjectsOK, ControllersOK, new
  <2>10. CASE RemoveFinalizer
    BY <2>10 DEF RemoveFinalizer, WritePlugin, ForgetPlugin, ObjectsOK, ControllersOK
  <2>11. CASE DeleteConflict
    BY <2>11 DEF DeleteConflict, ForgetPlugin, ObjectsOK, ControllersOK
  <2>12. CASE DeleteError
    BY <2>12 DEF DeleteError, ForgetPlugin, ObjectsOK, ControllersOK
  <2>13. ASSUME NEW s \in Servers, StartUpdate(s) \/ StartUpdateNow(s)
         PROVE (ObjectsOK /\ ControllersOK)'
    <3>1. serverCache[s].entry \in Entry
      BY DEF ObjectsOK, ServerObject
    <3> QED
      BY <2>13, <3>1 DEF StartUpdate, StartUpdateNow, TakeServer, WriteServer,
         ObjectsOK, ControllersOK
  <2>14. CASE DeletePluginJAR
    BY <2>14, BoundAssumption DEF DeletePluginJAR, ObjectsOK, ControllersOK, Uids
  <2>15. CASE ConfirmDeletion
    <3>1. ASSUME userver \in Servers
          PROVE  SetProgress(pluginCache, {userver}, "deleted") \in PluginObject
      BY <3>1, SetProgressType DEF ObjectsOK, Progress
    <3> QED
      BY <2>15, <3>1 DEF ConfirmDeletion, WritePlugin, ObjectsOK, ControllersOK
  <2>16. CASE ApplyPluginUpdates
    <3>1. [uentry EXCEPT !.jar = TRUE] \in Entry
      BY DEF ControllersOK, Entry
    <3>2. pluginCache.uid \in Uids
      BY DEF ObjectsOK, PluginObject
    <3> QED
      BY <2>16, <3>1, <3>2 DEF ApplyPluginUpdates, ObjectsOK, ControllersOK
  <2>17. CASE RestartPod
    <3>1. [uentry EXCEPT !.current = uentry.resolved] \in Entry
      BY DEF ControllersOK, Entry
    <3> QED
      BY <2>17, <3>1 DEF RestartPod, ObjectsOK, ControllersOK
  <2>18. CASE UpdateFails
    BY <2>18 DEF UpdateFails, ObjectsOK, ControllersOK
  <2>19. CASE UpdateStatus
    <3>1. ASSUME userver \in Servers
          PROVE  [server[userver] EXCEPT !.entry = uentry] \in ServerObject
      BY <3>1 DEF ObjectsOK, ControllersOK, ServerObject
    <3> QED
      BY <2>19, <3>1 DEF UpdateStatus, WriteServer, ForgetServer, ObjectsOK, ControllersOK
  <2>20. CASE RetryStatus
    <3>1. ASSUME userver \in Servers
          PROVE  [serverCache[userver] EXCEPT
                     !.entry = Merge(@, uentry)] \in ServerObject
      <4>1. Merge(serverCache[userver].entry, uentry) \in Entry
        BY <3>1, MergeType DEF ObjectsOK, ControllersOK, ServerObject
      <4> QED
        BY <3>1, <4>1 DEF ObjectsOK, ServerObject
    <3>2. utries' \in {0, 1}
      BY <2>20 DEF RetryStatus, ForgetServer, MaxStatusRetries, ControllersOK
    <3>3. CASE serverCurrent[userver]
      BY <2>20, <3>1, <3>2, <3>3
         DEF RetryStatus, WriteServer, ForgetServer, ObjectsOK, ControllersOK
    <3>4. CASE ~serverCurrent[userver]
      BY <2>20, <3>2, <3>4 DEF RetryStatus, ForgetServer, ObjectsOK, ControllersOK
    <3> QED
      BY <3>3, <3>4
  <2>21. CASE StatusError
    BY <2>21 DEF StatusError, ForgetServer, ObjectsOK, ControllersOK
  <2>22. ASSUME NEW s \in Servers, ReconcileServer(s) PROVE (ObjectsOK /\ ControllersOK)'
    <3>1. [serverCache[s] EXCEPT
              !.entry = BuildPluginStatus(serverCache[s], pluginCache)] \in ServerObject
      <4>1. BuildPluginStatus(serverCache[s], pluginCache) \in Entry
        BY BuildPluginStatusType DEF ObjectsOK
      <4> QED
        BY <4>1 DEF ObjectsOK, ServerObject
    <3> QED
      BY <2>22, <3>1 DEF ReconcileServer, WriteServer, AgeServerCopy, ObjectsOK, ControllersOK
  <2>23. CASE CreatePlugin
    <3>1. [NoPlugin EXCEPT !.phase = "active", !.uid = creations + 1] \in PluginObject
      <4>1. creations + 1 \in Uids
        BY <2>23, BoundAssumption DEF CreatePlugin, Uids, BoundsOK
      <4> QED
        BY <4>1 DEF PluginObject
    <3> QED
      BY <2>23, <3>1 DEF CreatePlugin, WritePlugin, ObjectsOK, ControllersOK
  <2>24. CASE DeletePlugin
    <3>1. [plugin EXCEPT !.phase = "terminating"] \in PluginObject
      BY DEF PluginObject, ObjectsOK, ControllersOK
    <3> QED
      BY <2>24, <3>1 DEF DeletePlugin, WritePlugin, ObjectsOK, ControllersOK
  <2>25. ASSUME NEW s \in Servers, RelabelServer(s) PROVE (ObjectsOK /\ ControllersOK)'
    <3>1. [server[s] EXCEPT !.matched = ~@] \in ServerObject
      BY DEF ObjectsOK, ServerObject
    <3> QED
      BY <2>25, <3>1 DEF RelabelServer, WriteServer, AgeServerCopy, ObjectsOK, ControllersOK
  <2>26. ASSUME NEW s \in Servers, DeleteServer(s) PROVE (ObjectsOK /\ ControllersOK)'
    BY <2>26 DEF DeleteServer, WriteServer, AgeServerCopy, ObjectsOK, ControllersOK
  <2>27. ASSUME NEW s \in Servers, TimePasses(s) PROVE (ObjectsOK /\ ControllersOK)'
    BY <2>27 DEF TimePasses, ObjectsOK, ControllersOK
  <2>28. CASE SyncPlugin
    BY <2>28 DEF SyncPlugin, ObjectsOK, ControllersOK
  <2>29. ASSUME NEW s \in Servers, SyncServer(s) PROVE (ObjectsOK /\ ControllersOK)'
    BY <2>29 DEF SyncServer, ObjectsOK, ControllersOK
  <2>30. CASE OperatorRestart
    BY <2>30 DEF OperatorRestart, ForgetPlugin, ForgetServer, ObjectsOK, ControllersOK
  <2>31. CASE UNCHANGED vars
    BY <2>31 DEF vars, ObjectsOK, ControllersOK
  <2> QED
    BY <2>1, <2>2, <2>3, <2>4, <2>5, <2>6, <2>7, <2>8, <2>9, <2>10, <2>11, <2>12,
       <2>13, <2>14, <2>15, <2>16, <2>17, <2>18, <2>19, <2>20, <2>21, <2>22, <2>23,
       <2>24, <2>25, <2>26, <2>27, <2>28, <2>29, <2>30, <2>31
       DEF Next, PluginController, UpdateController, Environment
<1> QED
  BY <1>1, <1>2, BoundsKept, PTL DEF Spec, TypeOK

-----------------------------------------------------------------------------
(* The copies the controllers hold, and what follows for the finalizer.    *)

DeletionInv == CopiesAgree /\ ProgressShape /\ LossesArePermanent

\* What reconcileDelete may rely on: a copy with the current resource version is
\* the stored object, progress belongs to a Plugin being deleted, and a server that
\* a cache does not know is gone.
THEOREM DeletionInvariant == Spec => []DeletionInv
<1> USE DEF DeletionInv
<1>1. Init => DeletionInv
  BY InstalledObjects DEF Init, CopiesAgree, ProgressShape, LossesArePermanent, HasProgress,
     NoPlugin, NoServer
<1>2. TypeOK /\ DeletionInv /\ [Next]_vars => DeletionInv'
  <2> SUFFICES ASSUME ObjectsOK, ControllersOK, DeletionInv, [Next]_vars
               PROVE  DeletionInv'
    BY DEF TypeOK
  <2> USE DEF pluginVars, serverVars, pVars, uVars
  <2>1. CASE AddFinalizer
    BY <2>1 DEF AddFinalizer, WritePlugin, CopiesAgree, ProgressShape, HasProgress,
       LossesArePermanent, ObjectsOK, PluginObject
  <2>2. CASE SyncMetadata
    BY <2>2 DEF SyncMetadata, WritePlugin, CopiesAgree, ProgressShape, HasProgress,
       LossesArePermanent, ObjectsOK, PluginObject
  <2>3. CASE InitDeletionProgress
    <3> DEFINE matched == {s \in Servers : serverCache[s].alive /\ serverCache[s].matched}
               new == SetProgress(pluginCache, matched, "requested")
    <3>1. new.phase = pluginCache.phase
      BY SetProgressType DEF ObjectsOK, Progress
    <3> HIDE DEF new
    <3> QED
      BY <2>3, <3>1 DEF InitDeletionProgress, WritePlugin, CopiesAgree, ProgressShape,
         LossesArePermanent, new
  <2>4. CASE BeginDelete
    BY <2>4 DEF BeginDelete, CopiesAgree, ProgressShape, LossesArePermanent
  <2>5. CASE CleanupDeletedServers
    <3> DEFINE gone == {s \in Requested(pcopy) : Lost(s)}
               new == SetProgress(pcopy, gone, "none")
    <3>1. new.phase = pcopy.phase
      BY SetProgressType DEF ControllersOK, Progress, Requested
    <3>2. gone = {} => new = pcopy
      BY SetNoProgress DEF ControllersOK
    <3> HIDE DEF new, gone
    <3> QED
      BY <2>5, <3>1, <3>2 DEF CleanupDeletedServers, WritePlugin, CopiesAgree, ProgressShape,
         LossesArePermanent, new, gone
  <2>6. ASSUME NEW s \in Servers, MarkNoJAR(s) PROVE DeletionInv'
    <3>1. SetProgress(pcopy, {s}, "deleted").phase = pcopy.phase
      BY SetProgressType DEF ControllersOK, Progress
    <3> QED
      BY <2>6, <3>1 DEF MarkNoJAR, WritePlugin, CopiesAgree, ProgressShape,
         LossesArePermanent
  <2>7. ASSUME NEW s \in Servers, MarkPending(s) PROVE DeletionInv'
    BY <2>7 DEF MarkPending, NoJARToDelete, WriteServer, CopiesAgree, ProgressShape,
       LossesArePermanent, HasProgress, ObjectsOK
  <2>8. CASE MarkDone
    BY <2>8 DEF MarkDone, CopiesAgree, ProgressShape, LossesArePermanent
  <2>9. CASE ForceCompleteStaleDeletions
    <3> DEFINE new == SetProgress(pcopy, Requested(pcopy) \cap old, "deleted")
    <3>1. new.phase = pcopy.phase
      BY SetProgressType DEF ControllersOK, Progress, Requested
    <3> HIDE DEF new
    <3> QED
      BY <2>9, <3>1 DEF ForceCompleteStaleDeletions, AllJARsDeleted, WritePlugin,
         ForgetPlugin, CopiesAgree, ProgressShape, LossesArePermanent, new
  <2>10. CASE RemoveFinalizer
    BY <2>10 DEF RemoveFinalizer, WritePlugin, ForgetPlugin, CopiesAgree, ProgressShape,
       LossesArePermanent, HasProgress, NoPlugin
  <2>11. CASE DeleteConflict \/ DeleteError
    BY <2>11 DEF DeleteConflict, DeleteError, ForgetPlugin, CopiesAgree, ProgressShape,
       LossesArePermanent
  <2>12. ASSUME NEW s \in Servers, StartUpdate(s) PROVE DeletionInv'
    BY <2>12 DEF StartUpdate, CopiesAgree, ProgressShape, LossesArePermanent
  <2>13. ASSUME NEW s \in Servers, StartUpdateNow(s) PROVE DeletionInv'
    BY <2>13 DEF StartUpdateNow, TakeServer, WriteServer, CopiesAgree, ProgressShape,
       LossesArePermanent, ObjectsOK
  <2>14. CASE DeletePluginJAR \/ ApplyPluginUpdates \/ RestartPod \/ UpdateFails
              \/ StatusError
    BY <2>14 DEF DeletePluginJAR, ApplyPluginUpdates, RestartPod, UpdateFails,
       StatusError, CopiesAgree, ProgressShape, LossesArePermanent
  <2>15. CASE ConfirmDeletion
    <3> DEFINE new == SetProgress(pluginCache, {userver}, "deleted")
    <3>1. userver \in Servers
      BY <2>15 DEF ConfirmDeletion, ControllersOK
    <3>2. new.phase = pluginCache.phase
      BY <3>1, SetProgressType DEF ObjectsOK, Progress
    <3>3. pluginCurrent /\ pluginCache.progress[userver] # "none" =>
             plugin.phase = "terminating"
      BY <3>1 DEF CopiesAgree, ProgressShape, HasProgress
    <3> HIDE DEF new
    <3> QED
      BY <2>15, <3>2, <3>3 DEF ConfirmDeletion, WritePlugin, CopiesAgree, ProgressShape,
         LossesArePermanent, new
  <2>16. CASE UpdateStatus
    BY <2>16 DEF UpdateStatus, WriteServer, CopiesAgree, ProgressShape,
       LossesArePermanent, ObjectsOK, ControllersOK, ServerObject
  <2>17. CASE RetryStatus
    BY <2>17 DEF RetryStatus, WriteServer, CopiesAgree, ProgressShape,
       LossesArePermanent, ObjectsOK, ControllersOK
  <2>18. ASSUME NEW s \in Servers, ReconcileServer(s) PROVE DeletionInv'
    BY <2>18 DEF ReconcileServer, WriteServer, CopiesAgree, ProgressShape,
       LossesArePermanent, ObjectsOK
  <2>19. CASE CreatePlugin
    BY <2>19 DEF CreatePlugin, WritePlugin, CopiesAgree, ProgressShape, HasProgress,
       LossesArePermanent, NoPlugin
  <2>20. CASE DeletePlugin
    BY <2>20 DEF DeletePlugin, WritePlugin, CopiesAgree, ProgressShape, HasProgress,
       LossesArePermanent, NoPlugin, ObjectsOK, PluginObject
  <2>21. ASSUME NEW s \in Servers, RelabelServer(s) \/ DeleteServer(s)
         PROVE DeletionInv'
    <3>1. server'[s].alive => server[s].alive
      BY <2>21 DEF RelabelServer, DeleteServer, WriteServer, NoServer, ObjectsOK, ServerObject
    <3> QED
      BY <2>21, <3>1 DEF RelabelServer, DeleteServer, WriteServer, CopiesAgree,
         ProgressShape, LossesArePermanent, ObjectsOK
  <2>22. ASSUME NEW s \in Servers, TimePasses(s) PROVE DeletionInv'
    BY <2>22 DEF TimePasses, CopiesAgree, ProgressShape, LossesArePermanent
  <2>23. CASE SyncPlugin
    BY <2>23 DEF SyncPlugin, CopiesAgree, ProgressShape, LossesArePermanent
  <2>24. ASSUME NEW s \in Servers, SyncServer(s) PROVE DeletionInv'
    BY <2>24 DEF SyncServer, CopiesAgree, ProgressShape, LossesArePermanent, ObjectsOK
  <2>25. CASE OperatorRestart
    BY <2>25 DEF OperatorRestart, ForgetPlugin, CopiesAgree, ProgressShape,
       LossesArePermanent
  <2>26. CASE UNCHANGED vars
    BY <2>26 DEF vars, CopiesAgree, ProgressShape, LossesArePermanent
  <2> QED
    BY <2>1, <2>2, <2>3, <2>4, <2>5, <2>6, <2>7, <2>8, <2>9, <2>10, <2>11, <2>12,
       <2>13, <2>14, <2>15, <2>16, <2>17, <2>18, <2>19, <2>20, <2>21, <2>22, <2>23,
       <2>24, <2>25, <2>26
       DEF Next, PluginController, UpdateController, Environment
<1> QED
  BY <1>1, <1>2, TypeCorrect, PTL DEF Spec

\* What one step may do to the stored Plugin.
FinalizerStep ==
    plugin.phase = "terminating" /\ plugin'.phase = "absent" => Requested(plugin) = {}

ProgressStep ==
    plugin'.phase # "absent" =>
        \A s \in Servers :
            /\ plugin.progress[s] = "deleted" => plugin'.progress[s] = "deleted"
            /\ plugin.progress[s] = "requested" /\ plugin'.progress[s] = "none"
                  => ~server[s].alive

\* Every step obeys both: the writers of the Plugin one by one, all others leave it
\* alone.
LEMMA PluginSteps ==
    ASSUME TypeOK, DeletionInv, Next
    PROVE  FinalizerStep /\ ProgressStep
<1> USE DEF pluginVars
<1> ObjectsOK /\ ControllersOK
  BY DEF TypeOK
<1>1. CASE UNCHANGED plugin
  BY <1>1 DEF FinalizerStep, ProgressStep
<1>2. CASE AddFinalizer \/ SyncMetadata
  BY <1>2 DEF AddFinalizer, SyncMetadata, WritePlugin, DeletionInv, CopiesAgree,
     FinalizerStep, ProgressStep, ObjectsOK, PluginObject
<1>3. CASE InitDeletionProgress
  <2> DEFINE matched == {s \in Servers : serverCache[s].alive /\ serverCache[s].matched}
             new == SetProgress(pluginCache, matched, "requested")
  <2>1. pluginCache = plugin /\ \A s \in Servers : plugin.progress[s] = "none"
    BY <1>3 DEF InitDeletionProgress, HasProgress, DeletionInv, CopiesAgree
  <2>2. new.phase = plugin.phase
    BY <2>1, SetProgressType DEF ObjectsOK, Progress
  <2>3. plugin' = new \/ plugin' = plugin
    BY <1>3 DEF InitDeletionProgress, WritePlugin
  <2> QED
    BY <1>1, <1>3, <2>1, <2>2, <2>3 DEF InitDeletionProgress, FinalizerStep, ProgressStep
<1>4. CASE CleanupDeletedServers
  <2> DEFINE gone == {s \in Requested(pcopy) : Lost(s)}
             new == SetProgress(pcopy, gone, "none")
  <2>1. UNCHANGED plugin \/ (plugin' = new /\ pcopy = plugin)
    BY <1>4 DEF CleanupDeletedServers, WritePlugin, DeletionInv, CopiesAgree
  <2>2. /\ new.phase = pcopy.phase
        /\ \A s \in Servers : new.progress[s] = IF s \in gone THEN "none"
                                                ELSE pcopy.progress[s]
    BY SetProgressType DEF ControllersOK, Progress, Requested
  <2>3. \A s \in gone : pcopy.progress[s] = "requested" /\ ~server[s].alive
    BY DEF Requested, Lost, DeletionInv, LossesArePermanent
  <2> HIDE DEF new, gone
  <2> QED
    BY <1>1, <2>1, <2>2, <2>3 DEF FinalizerStep, ProgressStep
<1>5. ASSUME NEW t \in Servers, MarkNoJAR(t) PROVE FinalizerStep /\ ProgressStep
  <2>1. pcopy = plugin /\ plugin' = SetProgress(pcopy, {t}, "deleted")
    BY <1>5 DEF MarkNoJAR, WritePlugin, DeletionInv, CopiesAgree
  <2> QED
    BY <2>1, SetProgressType DEF ObjectsOK, Progress, FinalizerStep, ProgressStep
<1>6. CASE ForceCompleteStaleDeletions
  <2> DEFINE S == Requested(pcopy) \cap old
  <2>1. UNCHANGED plugin \/ (plugin' = SetProgress(pcopy, S, "deleted") /\ pcopy = plugin)
    BY <1>6 DEF ForceCompleteStaleDeletions, WritePlugin, DeletionInv, CopiesAgree
  <2>2. S \in SUBSET Servers
    BY DEF Requested
  <2> HIDE DEF S
  <2> QED
    BY <1>1, <2>1, <2>2, SetProgressType
       DEF ObjectsOK, Progress, FinalizerStep, ProgressStep
<1>7. CASE RemoveFinalizer
  BY <1>7 DEF RemoveFinalizer, WritePlugin, NoPlugin, DeletionInv, CopiesAgree,
     ProgressShape, FinalizerStep, ProgressStep
<1>8. CASE ConfirmDeletion
  <2>1. userver \in Servers
    BY <1>8 DEF ConfirmDeletion, ControllersOK
  <2>2. UNCHANGED plugin \/ plugin' = SetProgress(plugin, {userver}, "deleted")
    BY <1>8 DEF ConfirmDeletion, WritePlugin, DeletionInv, CopiesAgree
  <2> QED
    BY <1>1, <2>1, <2>2, SetProgressType
       DEF ObjectsOK, Progress, FinalizerStep, ProgressStep
<1>9. CASE CreatePlugin \/ DeletePlugin
  BY <1>9 DEF CreatePlugin, DeletePlugin, WritePlugin, NoPlugin, DeletionInv,
     ProgressShape, HasProgress, FinalizerStep, ProgressStep, ObjectsOK, PluginObject
<1>10. CASE PluginController
  BY <1>1, <1>2, <1>3, <1>4, <1>5, <1>6, <1>7, <1>10 DEF PluginController, BeginDelete,
     MarkPending, MarkDone, DeleteConflict, DeleteError
<1>11. CASE UpdateController
  BY <1>1, <1>8, <1>11 DEF UpdateController, StartUpdate, StartUpdateNow,
     DeletePluginJAR, ApplyPluginUpdates, RestartPod, UpdateFails, UpdateStatus,
     RetryStatus, StatusError
<1>12. CASE \/ SyncPlugin
            \/ \E s \in Servers : ReconcileServer(s) \/ SyncServer(s)
            \/ Environment
  BY <1>1, <1>9, <1>12 DEF SyncPlugin, ReconcileServer, SyncServer, Environment,
     RelabelServer, DeleteServer, TimePasses, OperatorRestart
<1> QED
  BY <1>10, <1>11, <1>12 DEF Next

\* The finalizer goes only after every stored entry is done.
THEOREM FinalizerSafe == Spec => FinalizerAfterProgress
<1>1. TypeOK /\ DeletionInv /\ [Next]_vars => [FinalizerStep]_vars
  BY PluginSteps
<1>2. Spec => [][FinalizerStep]_vars
  BY <1>1, DeletionInvariant, TypeCorrect, PTL DEF Spec
<1> QED
  BY <1>2 DEF FinalizerAfterProgress, FinalizerStep

\* Progress recorded for a server is never lost to a concurrent write.
THEOREM ProgressSafe == Spec => ProgressNeverLost
<1>1. TypeOK /\ DeletionInv /\ [Next]_vars => [ProgressStep]_vars
  BY PluginSteps
<1>2. Spec => [][ProgressStep]_vars
  BY <1>1, DeletionInvariant, TypeCorrect, PTL DEF Spec
<1> QED
  BY <1>2 DEF ProgressNeverLost, ProgressStep

-----------------------------------------------------------------------------
(* The variant of DeletionCompletes.                                       *)

\* A deletion is not taken back, and once it has entries what is left to do only shrinks
\* while the clock of each entry runs on.
AdvanceStep ==
    plugin.phase = "terminating" =>
        /\ plugin'.phase # "active"
        /\ (plugin'.phase = "terminating" /\ HasProgress(plugin)) =>
              Requested(plugin') \subseteq Requested(plugin) /\ old \subseteq old'

\* reconcileDelete does not begin anew, whatever the two controllers, servers that come to
\* match, restarts and failed calls do: the safety part of DeletionCompletes.
DeletionAdvances == [][AdvanceStep]_vars

\* An entry that is done, or dropped, is not one to do.
LEMMA LessRequested ==
    ASSUME NEW p \in PluginObject, NEW S \in SUBSET Servers, NEW v \in {"none", "deleted"}
    PROVE  /\ SetProgress(p, S, v).phase = p.phase
           /\ Requested(SetProgress(p, S, v)) \subseteq Requested(p)
  BY SetProgressType DEF Requested, Progress

\* The writers of the Plugin one by one
LEMMA AdvanceSteps ==
    ASSUME TypeOK, DeletionInv, Next
    PROVE  AdvanceStep
<1> USE DEF pluginVars
<1> ObjectsOK /\ ControllersOK
  BY DEF TypeOK
<1>1. CASE UNCHANGED <<plugin, old>>
  BY <1>1 DEF AdvanceStep
<1>2. ASSUME NEW S \in SUBSET Servers, NEW v \in {"none", "deleted"},
             plugin' = SetProgress(plugin, S, v), old' = old
      PROVE  AdvanceStep
  BY <1>2, LessRequested DEF AdvanceStep, ObjectsOK
<1>3. CASE AddFinalizer \/ SyncMetadata
  BY <1>3 DEF AddFinalizer, SyncMetadata, DeletionInv, CopiesAgree, AdvanceStep
<1>4. CASE InitDeletionProgress
  <2> DEFINE matched == {s \in Servers : serverCache[s].alive /\ serverCache[s].matched}
             new == SetProgress(pluginCache, matched, "requested")
  <2>1. pluginCache = plugin /\ ~HasProgress(plugin)
    BY <1>4 DEF InitDeletionProgress, DeletionInv, CopiesAgree
  <2>2. new.phase = plugin.phase
    BY <2>1, SetProgressType DEF ObjectsOK, Progress
  <2>3. plugin' = new \/ plugin' = plugin
    BY <1>4 DEF InitDeletionProgress, WritePlugin
  <2> HIDE DEF new
  <2> QED
    BY <2>1, <2>2, <2>3 DEF AdvanceStep
<1>5. CASE CleanupDeletedServers
  <2> DEFINE gone == {s \in Requested(pcopy) : Lost(s)}
  <2>1. /\ old' = old
        /\ UNCHANGED plugin \/ (plugin' = SetProgress(pcopy, gone, "none") /\ pcopy = plugin)
    BY <1>5 DEF CleanupDeletedServers, WritePlugin, DeletionInv, CopiesAgree
  <2>2. gone \in SUBSET Servers
    BY DEF Requested
  <2> HIDE DEF gone
  <2> QED
    BY <1>1, <1>2, <2>1, <2>2
<1>6. ASSUME NEW t \in Servers, MarkNoJAR(t) PROVE AdvanceStep
  <2>1. old' = old /\ pcopy = plugin /\ plugin' = SetProgress(pcopy, {t}, "deleted")
    BY <1>6 DEF MarkNoJAR, WritePlugin, DeletionInv, CopiesAgree
  <2> QED
    BY <1>2, <2>1
<1>7. CASE ForceCompleteStaleDeletions
  <2> DEFINE S == Requested(pcopy) \cap old
  <2>1. /\ old' = old
        /\ UNCHANGED plugin \/ (plugin' = SetProgress(pcopy, S, "deleted") /\ pcopy = plugin)
    BY <1>7 DEF ForceCompleteStaleDeletions, WritePlugin, DeletionInv, CopiesAgree
  <2>2. S \in SUBSET Servers
    BY DEF Requested
  <2> HIDE DEF S
  <2> QED
    BY <1>1, <1>2, <2>1, <2>2
<1>8. CASE RemoveFinalizer
  BY <1>8 DEF RemoveFinalizer, WritePlugin, NoPlugin, AdvanceStep
<1>9. CASE ConfirmDeletion
  <2>1. userver \in Servers
    BY <1>9 DEF ConfirmDeletion, ControllersOK
  <2>2. /\ old' = old
        /\ UNCHANGED plugin \/ plugin' = SetProgress(plugin, {userver}, "deleted")
    BY <1>9 DEF ConfirmDeletion, WritePlugin, DeletionInv, CopiesAgree
  <2> QED
    BY <1>1, <1>2, <2>1, <2>2
<1>10. CASE CreatePlugin \/ DeletePlugin
  BY <1>10 DEF CreatePlugin, DeletePlugin, AdvanceStep
<1>11. ASSUME NEW t \in Servers, TimePasses(t) PROVE AdvanceStep
  BY <1>11 DEF TimePasses, AdvanceStep
<1>12. CASE PluginController
  BY <1>1, <1>3, <1>4, <1>5, <1>6, <1>7, <1>8, <1>12 DEF PluginController, BeginDelete,
     MarkPending, MarkDone, DeleteConflict, DeleteError
<1>13. CASE UpdateController
  BY <1>1, <1>9, <1>13 DEF UpdateController, StartUpdate, StartUpdateNow,
     DeletePluginJAR, ApplyPluginUpdates, RestartPod, UpdateFails, UpdateStatus,
     RetryStatus, StatusError
<1>14. CASE \/ SyncPlugin
            \/ \E s \in Servers : ReconcileServer(s) \/ SyncServer(s)
            \/ Environment
  BY <1>1, <1>10, <1>11, <1>14 DEF SyncPlugin, ReconcileServer, SyncServer, Environment,
     RelabelServer, DeleteServer, OperatorRestart
<1> QED
  BY <1>12, <1>13, <1>14 DEF Next

\* A deletion only ever gets on: entries to do become fewer, their clocks are not reset.
THEOREM AdvanceSafe == Spec => DeletionAdvances
<1>1. TypeOK /\ DeletionInv /\ [Next]_vars => [AdvanceStep]_vars
  BY AdvanceSteps
<1> QED
  BY <1>1, DeletionInvariant, TypeCorrect, PTL DEF Spec, DeletionAdvances

-----------------------------------------------------------------------------
(* The marks.                                                              *)

MarksInv == UidsOnce /\ MarksFollowDeletion

\* However often the name of a Plugin is used, no copy of any server status carries a
\* PendingDeletion mark of the object that is live: a mark starts in a reconcileDelete,
\* which only sees deleted objects, and every copy of it keeps its uid.
THEOREM MarksInvariant == Spec => []MarksInv
<1>1. Init => MarksInv
  BY InstalledObjects DEF Init, MarksInv, UidsOnce, MarksFollowDeletion, Live, NoPlugin,
     NoEntry
<1>2. TypeOK /\ DeletionInv /\ MarksInv /\ [Next]_vars => MarksInv'
  <2> SUFFICES ASSUME ObjectsOK, ControllersOK, CopiesAgree, ProgressShape,
                      creations \in Nat, MarksInv, [Next]_vars
               PROVE  MarksInv'
    BY BoundAssumption DEF TypeOK, DeletionInv, BoundsOK
  <2> USE DEF pluginVars, serverVars, pVars, uVars, budget, MarksInv, UidsOnce,
              MarksFollowDeletion, Live
  <2>1. CASE AddFinalizer \/ SyncMetadata
    BY <2>1 DEF AddFinalizer, SyncMetadata, WritePlugin, CopiesAgree, ObjectsOK,
       PluginObject
  <2>2. CASE InitDeletionProgress
    <3> DEFINE matched == {s \in Servers : serverCache[s].alive /\ serverCache[s].matched}
               new == SetProgress(pluginCache, matched, "requested")
    <3>1. new.phase = pluginCache.phase /\ new.uid = pluginCache.uid
      BY SetProgressType DEF ObjectsOK, Progress
    <3> HIDE DEF new
    <3>2. plugin'.phase = plugin.phase /\ plugin'.uid = plugin.uid
      BY <2>2, <3>1 DEF InitDeletionProgress, WritePlugin, CopiesAgree, new
    <3>3. pcopy'.uid = plugin.uid /\ plugin.phase = "terminating"
      BY <2>2, <3>1 DEF InitDeletionProgress, CopiesAgree, new
    <3> QED
      BY <2>2, <3>2, <3>3 DEF InitDeletionProgress, WritePlugin
  <2>3. CASE BeginDelete
    <3>1. pluginCache.uid # 0
      BY <2>3 DEF BeginDelete
    <3> QED
      BY <2>3, <3>1 DEF BeginDelete
  <2>4. CASE CleanupDeletedServers
    <3> DEFINE gone == {s \in Requested(pcopy) : Lost(s)}
               new == SetProgress(pcopy, gone, "none")
    <3>1. new.phase = pcopy.phase /\ new.uid = pcopy.uid
      BY SetProgressType DEF ControllersOK, Progress, Requested
    <3> HIDE DEF new
    <3>2. plugin'.phase = plugin.phase /\ plugin'.uid = plugin.uid /\ pcopy'.uid = pcopy.uid
      BY <2>4, <3>1 DEF CleanupDeletedServers, WritePlugin, CopiesAgree, new
    <3> QED
      BY <2>4, <3>2 DEF CleanupDeletedServers, WritePlugin
  <2>5. ASSUME NEW s \in Servers, MarkNoJAR(s) PROVE MarksInv'
    <3>1. /\ SetProgress(pcopy, {s}, "deleted").phase = pcopy.phase
          /\ SetProgress(pcopy, {s}, "deleted").uid = pcopy.uid
      BY SetProgressType DEF ControllersOK, Progress
    <3> QED
      BY <2>5, <3>1 DEF MarkNoJAR, WritePlugin, CopiesAgree
  <2>6. ASSUME NEW s \in Servers, MarkPending(s) PROVE MarksInv'
    <3>1. [serverCache[s] EXCEPT !.entry.mark = pcopy.uid].entry.mark = pcopy.uid
      BY DEF ObjectsOK, ServerObject, Entry
    <3> QED
      BY <2>6, <3>1 DEF MarkPending, WriteServer, ObjectsOK
  <2>7. CASE MarkDone
    BY <2>7 DEF MarkDone
  <2>8. CASE ForceCompleteStaleDeletions
    <3> DEFINE S == Requested(pcopy) \cap old
               new == SetProgress(pcopy, S, "deleted")
    <3>1. new.phase = pcopy.phase /\ new.uid = pcopy.uid
      BY SetProgressType DEF ControllersOK, Progress, Requested
    <3> HIDE DEF new
    <3>2. plugin'.phase = plugin.phase /\ plugin'.uid = plugin.uid
      BY <2>8, <3>1 DEF ForceCompleteStaleDeletions, WritePlugin, CopiesAgree, new
    <3>3. ppc' # "idle" => pcopy'.uid = pcopy.uid
      BY <2>8, <3>1 DEF ForceCompleteStaleDeletions, ForgetPlugin, new
    <3>4. pcopy' \in {new, NoPlugin}
      BY <2>8 DEF ForceCompleteStaleDeletions, ForgetPlugin, new
    <3>5. pcopy'.uid \in {pcopy.uid, 0}
      BY <3>1, <3>4 DEF NoPlugin
    <3> QED
      BY <2>8, <3>2, <3>3, <3>5 DEF ForceCompleteStaleDeletions, WritePlugin
  <2>9. CASE RemoveFinalizer
    BY <2>9 DEF RemoveFinalizer, WritePlugin, ForgetPlugin, NoPlugin
  <2>10. CASE DeleteConflict \/ DeleteError
    BY <2>10 DEF DeleteConflict, DeleteError, ForgetPlugin, NoPlugin
  <2>11. ASSUME NEW s \in Servers, StartUpdate(s) PROVE MarksInv'
    BY <2>11 DEF StartUpdate, TakeServer
  <2>12. ASSUME NEW s \in Servers, StartUpdateNow(s) PROVE MarksInv'
    BY <2>12 DEF StartUpdateNow, TakeServer, WriteServer, ObjectsOK
  <2>13. CASE DeletePluginJAR \/ UpdateFails
    BY <2>13 DEF DeletePluginJAR, UpdateFails, ObjectsOK
  <2>14. CASE ConfirmDeletion
    <3>1. userver \in Servers
      BY <2>14 DEF ConfirmDeletion, ControllersOK
    <3>2. /\ SetProgress(pluginCache, {userver}, "deleted").phase = pluginCache.phase
          /\ SetProgress(pluginCache, {userver}, "deleted").uid = pluginCache.uid
      BY <3>1, SetProgressType DEF ObjectsOK, Progress
    <3>3. plugin'.phase = plugin.phase /\ plugin'.uid = plugin.uid
      BY <2>14, <3>2 DEF ConfirmDeletion, WritePlugin, CopiesAgree
    <3> QED
      BY <2>14, <3>3 DEF ConfirmDeletion, WritePlugin
  <2>15. CASE ApplyPluginUpdates \/ RestartPod
    <3>1. uentry'.mark = uentry.mark
      BY <2>15 DEF ApplyPluginUpdates, RestartPod, ControllersOK, Entry
    <3>2. \A s \in Servers : disk'[s] \in {disk[s], pluginCache.uid}
      BY <2>15 DEF ApplyPluginUpdates, RestartPod, ObjectsOK
    <3>3. UNCHANGED <<pluginVars, serverVars, pVars, budget>>
      BY <2>15 DEF ApplyPluginUpdates, RestartPod
    <3>4. \A s \in Servers : disk'[s] <= creations
      BY <3>2
    <3> HIDE DEF Live
    <3>5. (\A k : Live(k)' <=> Live(k)) /\ UNCHANGED <<plugin, creations, pluginCache>>
      BY <3>3 DEF Live
    <3> QED
      BY <3>1, <3>3, <3>4, <3>5
  <2>16. CASE UpdateStatus
    <3>1. userver \in Servers
      BY <2>16 DEF UpdateStatus, ControllersOK
    <3>2. [server[userver] EXCEPT !.entry = uentry].entry = uentry
      BY <3>1 DEF ObjectsOK, ServerObject
    <3>3. \A t \in Servers : server'[t].entry.mark \in {server[t].entry.mark, uentry.mark}
      BY <2>16, <3>1, <3>2 DEF UpdateStatus, WriteServer, ObjectsOK
    <3>4. uentry'.mark \in {uentry.mark, 0}
      BY <2>16 DEF UpdateStatus, ForgetServer, NoEntry
    <3>5. UNCHANGED <<plugin, pluginCache, disk, ppc, pcopy, creations, serverCache>>
      BY <2>16 DEF UpdateStatus, WriteServer
    <3> QED
      BY <3>3, <3>4, <3>5
  <2>17. CASE RetryStatus
    <3>1. \A a, b \in Entry : Merge(a, b).mark \in {a.mark, b.mark}
      BY DEF Merge, Entry
    <3>2. \A t \in Servers :
             server'[t].entry.mark \in {server[t].entry.mark, serverCache[t].entry.mark,
                                        uentry.mark}
      <4> SUFFICES ASSUME NEW t \in Servers
                   PROVE  server'[t].entry.mark \in
                            {server[t].entry.mark, serverCache[t].entry.mark, uentry.mark}
        OBVIOUS
      <4> DEFINE merged == [serverCache[t] EXCEPT !.entry = Merge(@, uentry)]
      <4>1. merged.entry.mark \in {serverCache[t].entry.mark, uentry.mark}
        <5>1. merged.entry = Merge(serverCache[t].entry, uentry)
          BY DEF ObjectsOK, ServerObject
        <5>2. serverCache[t].entry \in Entry /\ uentry \in Entry
          BY DEF ObjectsOK, ControllersOK, ServerObject
        <5> QED
          BY <3>1, <5>1, <5>2
      <4>2. server'[t] \in {server[t], merged}
        BY <2>17 DEF RetryStatus, WriteServer, ObjectsOK
      <4> QED
        BY <4>1, <4>2
    <3>3. uentry'.mark \in {uentry.mark, 0}
      BY <2>17 DEF RetryStatus, ForgetServer, NoEntry
    <3>4. UNCHANGED <<plugin, pluginCache, disk, ppc, pcopy, creations, serverCache>>
      BY <2>17 DEF RetryStatus, WriteServer
    <3> QED
      BY <3>2, <3>3, <3>4
  <2>18. CASE StatusError
    BY <2>18 DEF StatusError, ForgetServer, NoEntry
  <2>19. ASSUME NEW s \in Servers, ReconcileServer(s) PROVE MarksInv'
    <3>1. BuildPluginStatus(serverCache[s], pluginCache).mark
             \in {serverCache[s].entry.mark, 0}
      BY DEF BuildPluginStatus, NoEntry, ObjectsOK, ServerObject, Entry
    <3> QED
      BY <2>19, <3>1 DEF ReconcileServer, WriteServer, ObjectsOK, ServerObject
  <2>20. CASE CreatePlugin
    <3>1. plugin'.phase = "active" /\ plugin'.uid = creations + 1 /\ creations' = creations + 1
      BY <2>20 DEF CreatePlugin, WritePlugin, NoPlugin
    <3>2. /\ pluginCache.uid \in Nat /\ pcopy.uid \in Nat /\ uentry.mark \in Nat
          /\ \A s \in Servers : /\ disk[s] \in Nat
                                /\ server[s].entry.mark \in Nat
                                /\ serverCache[s].entry.mark \in Nat
      BY BoundAssumption DEF ObjectsOK, ControllersOK, PluginObject, Entry, ServerObject, Uids
    <3> QED
      BY <2>20, <3>1, <3>2 DEF CreatePlugin, WritePlugin
  <2>21. CASE DeletePlugin
    BY <2>21 DEF DeletePlugin, WritePlugin, NoPlugin, ObjectsOK, PluginObject
  <2>22. ASSUME NEW s \in Servers, RelabelServer(s) \/ DeleteServer(s)
         PROVE MarksInv'
    <3>1. \A t \in Servers : server'[t].entry.mark \in {server[t].entry.mark, 0}
      <4>1. CASE RelabelServer(s)
        <5>1. [server[s] EXCEPT !.matched = ~@].entry = server[s].entry
          BY DEF ObjectsOK, ServerObject
        <5> QED
          BY <4>1, <5>1 DEF RelabelServer, WriteServer, ObjectsOK
      <4>2. CASE DeleteServer(s)
        BY <4>2 DEF DeleteServer, WriteServer, NoServer, NoEntry, ObjectsOK
      <4> QED
        BY <2>22, <4>1, <4>2
    <3> QED
      BY <2>22, <3>1 DEF RelabelServer, DeleteServer, WriteServer
  <2>23. ASSUME NEW s \in Servers, TimePasses(s) PROVE MarksInv'
    BY <2>23 DEF TimePasses
  <2>24. CASE SyncPlugin
    BY <2>24 DEF SyncPlugin
  <2>25. ASSUME NEW s \in Servers, SyncServer(s) PROVE MarksInv'
    BY <2>25 DEF SyncServer, ObjectsOK
  <2>26. CASE OperatorRestart
    BY <2>26 DEF OperatorRestart, ForgetPlugin, ForgetServer, NoEntry, NoPlugin
  <2>27. CASE UNCHANGED vars
    BY <2>27 DEF vars
  <2> QED
    BY <2>1, <2>2, <2>3, <2>4, <2>5, <2>6, <2>7, <2>8, <2>9, <2>10, <2>11, <2>12,
       <2>13, <2>14, <2>15, <2>16, <2>17, <2>18, <2>19, <2>20, <2>21, <2>22, <2>23,
       <2>24, <2>25, <2>26, <2>27
       DEF Next, PluginController, UpdateController, Environment
<1> QED
  BY <1>1, <1>2, TypeCorrect, DeletionInvariant, PTL DEF Spec

\* The JAR of a Plugin leaves a server only on behalf of a deleted Plugin.
THEOREM RemovalSafe == Spec => RemovalFollowsDeletion
<1> DEFINE JARStep == \A s \in Servers : disk[s] # 0 /\ disk'[s] = 0
                         => uentry.mark # 0 /\ ~Live(uentry.mark)
<1>1. TypeOK /\ MarksInv /\ [Next]_vars => [JARStep]_vars
  <2> SUFFICES ASSUME TypeOK, MarksInv, Next PROVE JARStep
    OBVIOUS
  <2>1. CASE UNCHANGED disk
    BY <2>1
  <2>2. CASE DeletePluginJAR
    <3>1. CASE uentry.mark # 0
      BY <3>1 DEF MarksInv, MarksFollowDeletion
    <3>2. CASE uentry.mark = 0
      BY <2>1, <2>2, <3>2 DEF DeletePluginJAR, ToDelete
    <3> QED
      BY <3>1, <3>2
  <2>3. CASE ApplyPluginUpdates
    <3>1. pluginCache.phase # "absent" => pluginCache.uid # 0
      BY DEF MarksInv, UidsOnce, MarksFollowDeletion
    <3> QED
      BY <2>3, <3>1 DEF ApplyPluginUpdates, NeedsDownload, TypeOK, ObjectsOK
  <2>4. CASE PluginController
    BY <2>1, <2>4 DEF PluginController, AddFinalizer, SyncMetadata, InitDeletionProgress,
       BeginDelete, CleanupDeletedServers, MarkNoJAR, MarkPending, MarkDone,
       ForceCompleteStaleDeletions, RemoveFinalizer, DeleteConflict, DeleteError
  <2>5. CASE UpdateController
    BY <2>1, <2>2, <2>3, <2>5 DEF UpdateController, StartUpdate, StartUpdateNow,
       ConfirmDeletion, RestartPod, UpdateFails, UpdateStatus, RetryStatus, StatusError
  <2>6. CASE \/ SyncPlugin
             \/ \E s \in Servers : ReconcileServer(s) \/ SyncServer(s)
             \/ Environment
    BY <2>1, <2>6 DEF SyncPlugin, ReconcileServer, SyncServer, Environment, CreatePlugin,
       DeletePlugin, RelabelServer, DeleteServer, TimePasses, OperatorRestart
  <2> QED
    BY <2>4, <2>5, <2>6 DEF Next
<1>2. Spec => [][JARStep]_vars
  BY <1>1, MarksInvariant, TypeCorrect, PTL DEF Spec
<1> QED
  BY <1>2 DEF RemovalFollowsDeletion

-----------------------------------------------------------------------------
(* The finalizer.                                                          *)

\* The writes of the Plugin, as far as the finalizer is concerned: the object stays what it
\* was but may get its finalizer, only an object that has it gets a version, or it is not
\* live afterwards, or it is new.
LEMMA FinalizerWrites ==
    ASSUME TypeOK, DeletionInv, Next
    PROVE  \/ /\ UNCHANGED <<creations, pluginCache>>
              /\ plugin'.phase = plugin.phase /\ plugin'.uid = plugin.uid
              /\ plugin.finalizer => plugin'.finalizer
              /\ plugin'.latest = plugin.latest \/ plugin'.finalizer
           \/ plugin'.phase # "active"
           \/ CreatePlugin
           \/ UNCHANGED <<plugin, creations>>
<1> USE DEF pluginVars, budget
<1> ObjectsOK /\ ControllersOK
  BY DEF TypeOK
<1>1. CASE UNCHANGED <<plugin, creations>>
  BY <1>1
<1>2. CASE AddFinalizer \/ SyncMetadata
  BY <1>2 DEF AddFinalizer, SyncMetadata, WritePlugin, DeletionInv, CopiesAgree,
     ObjectsOK, PluginObject
<1>3. CASE InitDeletionProgress
  <2> DEFINE matched == {s \in Servers : serverCache[s].alive /\ serverCache[s].matched}
             new == SetProgress(pluginCache, matched, "requested")
  <2>1. new.phase = pluginCache.phase
    BY SetProgressType DEF ObjectsOK, Progress
  <2>2. plugin' \in {new, plugin} /\ pluginCache = plugin /\ plugin.phase = "terminating"
    BY <1>3 DEF InitDeletionProgress, WritePlugin, DeletionInv, CopiesAgree
  <2> HIDE DEF new
  <2>3. plugin'.phase = "terminating"
    BY <2>1, <2>2
  <2> QED
    BY <2>3
<1>4. CASE CleanupDeletedServers
  <2> DEFINE gone == {s \in Requested(pcopy) : Lost(s)}
             new == SetProgress(pcopy, gone, "none")
  <2>1. new.phase = pcopy.phase
    BY SetProgressType DEF ControllersOK, Progress, Requested
  <2>2. UNCHANGED plugin \/ plugin' = new
    BY <1>4 DEF CleanupDeletedServers, WritePlugin
  <2>3. pcopy.phase = "terminating" /\ UNCHANGED creations
    BY <1>4 DEF CleanupDeletedServers, DeletionInv, ProgressShape
  <2> HIDE DEF new
  <2> QED
    BY <1>1, <2>1, <2>2, <2>3
<1>5. ASSUME NEW s \in Servers, MarkNoJAR(s) PROVE plugin'.phase # "active"
  BY <1>5, SetProgressType DEF MarkNoJAR, WritePlugin, DeletionInv, ProgressShape,
     ControllersOK, Progress
<1>6. CASE ForceCompleteStaleDeletions
  <2> DEFINE S == Requested(pcopy) \cap old
             new == SetProgress(pcopy, S, "deleted")
  <2>1. new.phase = pcopy.phase
    BY SetProgressType DEF ControllersOK, Progress, Requested
  <2>2. UNCHANGED plugin \/ plugin' = new
    BY <1>6 DEF ForceCompleteStaleDeletions, WritePlugin
  <2>3. pcopy.phase = "terminating" /\ UNCHANGED creations
    BY <1>6 DEF ForceCompleteStaleDeletions, DeletionInv, ProgressShape
  <2> HIDE DEF new
  <2> QED
    BY <1>1, <2>1, <2>2, <2>3
<1>7. CASE RemoveFinalizer
  BY <1>7 DEF RemoveFinalizer, WritePlugin, NoPlugin
<1>8. CASE ConfirmDeletion
  <2>1. userver \in Servers
    BY <1>8 DEF ConfirmDeletion, ControllersOK
  <2> DEFINE new == SetProgress(pluginCache, {userver}, "deleted")
  <2>2. /\ new.phase = pluginCache.phase /\ new.uid = pluginCache.uid
        /\ new.finalizer = pluginCache.finalizer /\ new.latest = pluginCache.latest
    BY <2>1, SetProgressType DEF ObjectsOK, Progress
  <2> HIDE DEF new
  <2> QED
    BY <1>8, <2>2 DEF ConfirmDeletion, WritePlugin, DeletionInv, CopiesAgree, new
<1>9. CASE DeletePlugin
  BY <1>9 DEF DeletePlugin, WritePlugin, NoPlugin, ObjectsOK, PluginObject
<1>10. CASE PluginController
  BY <1>1, <1>2, <1>3, <1>4, <1>5, <1>6, <1>7, <1>10 DEF PluginController, BeginDelete,
     MarkPending, MarkDone, DeleteConflict, DeleteError
<1>11. CASE UpdateController
  BY <1>1, <1>8, <1>11 DEF UpdateController, StartUpdate, StartUpdateNow, TakeServer,
     DeletePluginJAR, ApplyPluginUpdates, RestartPod, UpdateFails, UpdateStatus,
     RetryStatus, StatusError
<1>12. CASE \/ SyncPlugin
            \/ \E s \in Servers : ReconcileServer(s) \/ SyncServer(s)
            \/ Environment
  BY <1>1, <1>9, <1>12 DEF SyncPlugin, ReconcileServer, SyncServer, Environment,
     RelabelServer, DeleteServer, TimePasses, OperatorRestart
<1> QED
  BY <1>10, <1>11, <1>12 DEF Next

\* What the other variables take up in a step: the informer copies the stored Plugin, and a
\* disk gets a JAR of the Plugin the informer knows, at a version that Plugin offers.
LEMMA JARWrites ==
    ASSUME TypeOK, DeletionInv, Next
    PROVE  /\ pluginCache' \in {pluginCache, plugin}
           /\ \A s \in Servers :
                 \/ disk'[s] \in {disk[s], 0}
                 \/ disk'[s] = pluginCache.uid /\ pluginCache.latest # 0
<1> USE DEF pluginVars
<1> ObjectsOK /\ ControllersOK
  BY DEF TypeOK
<1>1. CASE UNCHANGED <<pluginCache, disk>>
  BY <1>1
<1>2. CASE DeletePluginJAR
  BY <1>2 DEF DeletePluginJAR, ObjectsOK
<1>3. CASE ApplyPluginUpdates
  <2>1. pluginCache.latest \in Nat /\ uentry.resolved \in Nat
    BY VersionAssumption DEF ObjectsOK, ControllersOK, PluginObject, Entry, Versions
  <2> QED
    BY <1>3, <2>1 DEF ApplyPluginUpdates, NeedsDownload, ObjectsOK
<1>4. CASE SyncPlugin \/ OperatorRestart
  BY <1>4 DEF SyncPlugin, OperatorRestart
<1>5. CASE PluginController
  BY <1>1, <1>5 DEF PluginController, AddFinalizer, SyncMetadata, InitDeletionProgress,
     BeginDelete, CleanupDeletedServers, MarkNoJAR, MarkPending, MarkDone, WritePlugin,
     ForceCompleteStaleDeletions, RemoveFinalizer, DeleteConflict, DeleteError
<1>6. CASE UpdateController
  BY <1>1, <1>2, <1>3, <1>6 DEF UpdateController, StartUpdate, StartUpdateNow,
     ConfirmDeletion, WritePlugin, RestartPod, UpdateFails, UpdateStatus, RetryStatus,
     StatusError
<1>7. CASE (\E s \in Servers : ReconcileServer(s) \/ SyncServer(s)) \/ Environment
  BY <1>1, <1>4, <1>7 DEF ReconcileServer, SyncServer, Environment, CreatePlugin,
     DeletePlugin, WritePlugin, RelabelServer, DeleteServer, TimePasses
<1> QED
  BY <1>4, <1>5, <1>6, <1>7 DEF Next

\* However often the name of a Plugin is used, no version of an object is known anywhere and
\* no JAR of it is installed before Reconcile has stored its finalizer.
THEOREM FinalizerInvariant == Spec => []NothingBeforeFinalizer
<1>1. Init => NothingBeforeFinalizer
  BY InstalledObjects DEF Init, NothingBeforeFinalizer, NoPlugin
<1>2. TypeOK /\ DeletionInv /\ MarksInv /\ MarksInv' /\ NothingBeforeFinalizer
         /\ [Next]_vars => NothingBeforeFinalizer'
  <2>1. CASE UNCHANGED vars
    BY <2>1 DEF vars, pluginVars, NothingBeforeFinalizer
  <2> SUFFICES ASSUME TypeOK, DeletionInv, MarksInv, MarksInv', NothingBeforeFinalizer, Next,
                      plugin'.phase = "active", ~plugin'.finalizer
               PROVE  /\ plugin'.latest = 0
                      /\ pluginCache'.uid = plugin'.uid => pluginCache'.latest = 0
                      /\ \A s \in Servers : disk'[s] # plugin'.uid
    BY <2>1 DEF NothingBeforeFinalizer
  <2>2. plugin'.uid # 0
    BY DEF MarksInv, UidsOnce
  <2>3. CASE CreatePlugin
    <3>1. plugin'.uid = creations + 1 /\ plugin'.latest = 0
      BY <2>3 DEF CreatePlugin, WritePlugin, NoPlugin
    <3>2. creations \in Nat
      BY BoundAssumption DEF TypeOK, BoundsOK
    <3>3. pluginCache.uid \in Nat /\ \A s \in Servers : disk[s] \in Nat
      BY BoundAssumption DEF TypeOK, ObjectsOK, PluginObject, Uids
    <3> QED
      BY <2>3, <3>1, <3>2, <3>3 DEF CreatePlugin, WritePlugin, MarksInv, UidsOnce
  <2>4. CASE /\ UNCHANGED pluginCache
             /\ plugin'.phase = plugin.phase /\ plugin'.uid = plugin.uid
             /\ plugin.finalizer => plugin'.finalizer
             /\ plugin'.latest = plugin.latest \/ plugin'.finalizer
    BY <2>2, <2>4, JARWrites DEF NothingBeforeFinalizer
  <2>5. CASE UNCHANGED plugin
    BY <2>2, <2>5, JARWrites DEF NothingBeforeFinalizer
  <2> QED
    BY <2>3, <2>4, <2>5, FinalizerWrites
<1> QED
  BY <1>1, <1>2, TypeCorrect, DeletionInvariant, MarksInvariant, PTL DEF Spec

\* A server holds the JAR of a live Plugin only under its finalizer, so that deleting the
\* Plugin always goes through reconcileDelete.
THEOREM JARsAreProtected == Spec => []JARUnderFinalizer
<1>1. NothingBeforeFinalizer => JARUnderFinalizer
  BY DEF NothingBeforeFinalizer, JARUnderFinalizer, Live
<1> QED
  BY <1>1, FinalizerInvariant, PTL
=============================================================================
