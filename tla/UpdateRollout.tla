---------------------------- MODULE UpdateRollout ----------------------------
(***************************************************************************)
(* How a Paper version reaches the pod of one PaperMCServer: the           *)
(* papermcserver controller that resolves the desired version and writes   *)
(* it into the StatefulSet, the update controller that waits for the       *)
(* maintenance window, and the StatefulSet controller of the cluster.      *)
(*                                                                         *)
(* Versions are numbers; 0 is the empty string.  Which version the         *)
(* registry and the plugins allow, whether a lookup fails and whether an   *)
(* update is on offer are inputs.  The steps of an update that touch       *)
(* plugins and backups are in PluginDeletion and BackupController.         *)
(***************************************************************************)
EXTENDS Naturals

CONSTANTS
    InitialWindows,  \* the maintenance windows the server may be created with
    MaxVersion,  \* bound: versions the registry ever offers
    MaxEdits,    \* bound: changes of the server's spec and annotation
    MaxUpdates,  \* bound: updates the update controller runs
    MaxFaults    \* bound: operator crashes, failed lookups of versions, failed calls
                 \* after the StatefulSet is written and versions that are withdrawn

Windows == {"none", "valid", "invalid"}  \* disabled, or by its cron expression

ASSUME RolloutAssumption ==
    /\ InitialWindows \subseteq Windows
    /\ MaxVersion \in Nat \ {0}
    /\ MaxEdits \in Nat /\ MaxUpdates \in Nat /\ MaxFaults \in Nat

VARIABLES
    avail,       \* the versions that have an image and that the plugins allow
    obj,         \* the PaperMCServer at the API server
    cache,       \* the informer's copy
    current,     \* cache has the current resource version
    sts,         \* the version in the StatefulSet's image, 0: no StatefulSet
    stsCache,    \* the informer's copy
    stsCurrent,  \* stsCache has the current resource version
    pod,         \* the version the pod runs, 0: no pod
    ppc, pcopy, pfresh,   \* the papermcserver controller's Reconcile
    upc, ucopy, ufresh,   \* the update controller's Reconcile
    utries,      \* conflicts met by updateStatusWithRetry
    job,         \* cronEntries: a job with the valid expression is registered
    edits, updates, faults

serverVars == <<obj, cache, current>>
stsVars == <<sts, stsCache, stsCurrent, pod>>
pVars == <<ppc, pcopy, pfresh>>
uVars == <<upc, ucopy, ufresh, utries, job>>
budget == <<edits, updates, faults>>
vars == <<avail, serverVars, stsVars, pVars, uVars, budget>>

-----------------------------------------------------------------------------
Versions == 0..MaxVersion

Server == [pin : Versions,        \* spec.version under "pin", 0: "latest"
           window : Windows,      \* the maintenance window
           applyNow : BOOLEAN,    \* an apply-now annotation
           desired : Versions,    \* status.desiredVersion
           current : Versions,    \* status.currentVersion
           cronValid : BOOLEAN]   \* condition CronScheduleValid is not False

NewServer == [pin |-> 0, window |-> "none", applyNow |-> FALSE, desired |-> 0,
              current |-> 0, cronValid |-> TRUE]

ObjectsOK ==
    /\ obj \in Server /\ cache \in Server /\ current \in BOOLEAN
    /\ sts \in Versions /\ stsCache \in Versions /\ stsCurrent \in BOOLEAN
    /\ pod \in Versions

ControllersOK ==
    /\ ppc \in {"idle", "ensure", "status"}
    /\ pcopy \in Server /\ pfresh \in BOOLEAN
    /\ upc \in {"idle", "reject", "shutdown", "image", "delete", "wait", "status", "retry"}
    /\ ucopy \in Server /\ ufresh \in BOOLEAN
    /\ utries \in {0, 1}
    /\ job \in BOOLEAN

BoundsOK ==
    /\ avail \subseteq 1..MaxVersion
    /\ edits \in 0..MaxEdits /\ updates \in 0..MaxUpdates /\ faults \in 0..MaxFaults

TypeOK == ObjectsOK /\ ControllersOK /\ BoundsOK

Init ==
    /\ avail = {1}
    /\ \E w \in InitialWindows : obj = [NewServer EXCEPT !.window = w]
    /\ cache = obj /\ current = TRUE
    /\ sts = 0 /\ stsCache = 0 /\ stsCurrent = TRUE /\ pod = 0
    /\ ppc = "idle" /\ pcopy = NewServer /\ pfresh = FALSE
    /\ upc = "idle" /\ ucopy = NewServer /\ ufresh = FALSE
    /\ utries = 0 /\ job = FALSE
    /\ edits = 0 /\ updates = 0 /\ faults = 0

\* The API server accepts a new version of the server; other copies age.
WriteServer(new) ==
    /\ obj' = new
    /\ current' = FALSE
    /\ UNCHANGED cache

WriteStatefulSet(image) ==
    /\ sts' = image
    /\ stsCurrent' = FALSE
    /\ UNCHANGED <<stsCache, pod>>

PReturn == ppc' = "idle" /\ pcopy' = NewServer /\ pfresh' = FALSE

UReturn == upc' = "idle" /\ ucopy' = NewServer /\ ufresh' = FALSE /\ utries' = 0

-----------------------------------------------------------------------------
(* The papermcserver controller.                                           *)

Newest == IF avail = {} THEN 0 ELSE CHOOSE v \in avail : \A w \in avail : w <= v

Candidate(server) == IF server.pin = 0 THEN Newest ELSE server.pin

\* checkDowngrade
Downgrade(server, v) == server.current # 0 /\ v < server.current

\* resolveDesiredPaperVersion: the candidate has an image and the plugins allow it.
Resolvable(server, v) == v \in avail /\ ~Downgrade(server, v)

\* Mutant: a failed resolution clears the desired version.
DesiredVersionCleared(server, failed) ==
    LET v == Candidate(server)
    IN  IF ~failed /\ Resolvable(server, v) THEN v ELSE 0

\* Mutant: the candidate is not compared with the current version.
DesiredVersionUnchecked(server, failed) ==
    LET v == Candidate(server)
    IN  IF ~failed /\ v \in avail THEN v ELSE server.desired

\* updateDesiredVersion: without a result the desired version stays as it is.
DesiredVersion(server, failed) ==
    LET v == Candidate(server)
    IN  IF ~failed /\ Resolvable(server, v) THEN v ELSE server.desired

\* Reconcile reads the server and resolves the version; without any version it goes
\* on to record the error.  A lookup may fail.
Resolve ==
    /\ ppc = "idle"
    /\ \E failed \in BOOLEAN :
          /\ failed => faults < MaxFaults
          /\ faults' = IF failed THEN faults + 1 ELSE faults
          /\ pcopy' = [cache EXCEPT !.desired = DesiredVersion(cache, failed)]
    /\ pfresh' = current
    /\ ppc' = IF pcopy'.desired # 0 THEN "ensure" ELSE "status"
    /\ UNCHANGED <<avail, serverVars, stsVars, uVars, edits, updates>>

\* Mutant: the image of a StatefulSet that exists is not compared.
OutdatedMissing(image) == stsCache = 0

\* ensureStatefulSet: the cached StatefulSet is missing or carries another image.
Outdated(image) == stsCache # image

\* ensureStatefulSet, then updateServerStatus: the current version is read off the
\* StatefulSet just written.
EnsureStatefulSet ==
    /\ ppc = "ensure"
    /\ \/ /\ Outdated(pcopy.desired)
          /\ stsCurrent
          /\ WriteStatefulSet(pcopy.desired)
       \/ /\ ~Outdated(pcopy.desired)
          /\ UNCHANGED stsVars
    /\ pcopy' = [pcopy EXCEPT !.current = IF Outdated(pcopy.desired) THEN pcopy.desired
                                                                     ELSE stsCache]
    /\ ppc' = "status"
    /\ UNCHANGED <<avail, serverVars, pfresh, uVars, budget>>

\* The write is refused: the StatefulSet exists already or was modified since it was
\* cached.  The status keeps its current version.
EnsureFails ==
    /\ ppc = "ensure"
    /\ Outdated(pcopy.desired)
    /\ ~stsCurrent
    /\ ppc' = "status"
    /\ UNCHANGED <<avail, serverVars, stsVars, pcopy, pfresh, uVars, budget>>

\* A later step of ensureInfrastructure fails: the StatefulSet is written (or needs no
\* write), the status keeps its current version.
InfrastructureFails ==
    /\ ppc = "ensure"
    /\ faults < MaxFaults
    /\ faults' = faults + 1
    /\ \/ Outdated(pcopy.desired) /\ stsCurrent /\ WriteStatefulSet(pcopy.desired)
       \/ ~Outdated(pcopy.desired) /\ UNCHANGED stsVars
    /\ ppc' = "status"
    /\ UNCHANGED <<avail, serverVars, pcopy, pfresh, uVars, edits, updates>>

\* The status is written if it changed, if only in a condition that is not modelled;
\* a conflict is returned as an error.
WriteStatus ==
    /\ ppc = "status"
    /\ \/ pfresh /\ WriteServer(pcopy) /\ ufresh' = FALSE
       \/ (pfresh => pcopy = obj) /\ UNCHANGED <<serverVars, ufresh>>
    /\ PReturn
    /\ UNCHANGED <<avail, stsVars, upc, ucopy, utries, job, budget>>

ServerController ==
    Resolve \/ EnsureStatefulSet \/ EnsureFails \/ InfrastructureFails \/ WriteStatus

-----------------------------------------------------------------------------
(* The update controller.                                                  *)

\* manageCronSchedule: the condition in the in-memory server afterwards.  A disabled
\* window and an expression that is registered already leave it as it was read.
CronCondition(server) ==
    CASE server.window = "none" -> server.cronValid
      [] server.window = "valid" -> job => server.cronValid
      [] server.window = "invalid" -> FALSE

\* ... and the job: removed with the window, replaced with the expression.
JobAfter(server) == server.window = "valid"

ReadServer ==
    /\ upc = "idle"
    /\ job' = JobAfter(cache)
    /\ ucopy' = [cache EXCEPT !.cronValid = CronCondition(cache)]

\* The condition says the expression is invalid: persist it and stop.
RejectCron ==
    /\ ReadServer
    /\ ~CronCondition(cache)
    /\ upc' = "reject"
    /\ ufresh' = current
    /\ UNCHANGED <<avail, serverVars, stsVars, pVars, utries, budget>>

\* It is written from the copy; a conflict is returned and tried again.
PersistCronCondition ==
    /\ upc = "reject"
    /\ IF ufresh /\ ucopy # obj
       THEN WriteServer(ucopy) /\ pfresh' = FALSE
       ELSE UNCHANGED <<serverVars, pfresh>>
    /\ UReturn
    /\ UNCHANGED <<avail, stsVars, ppc, pcopy, job, budget>>

\* No update, or not yet: only the cron job is managed, the condition is not stored.
NothingToDo ==
    /\ upc = "idle"
    /\ CronCondition(cache)
    /\ job' = JobAfter(cache)
    /\ UNCHANGED <<avail, serverVars, stsVars, pVars, upc, ucopy, ufresh, utries, budget>>

\* An update is on offer, or plugins wait for one: the papermcserver controller has then
\* recorded a current version, too.
Begin ==
    /\ updates < MaxUpdates
    /\ updates' = updates + 1
    /\ CronCondition(cache)
    /\ cache.current # 0
    /\ upc' = "shutdown"

\* An update without a window or inside it: whether the time lies in the window
\* (isInMaintenanceWindow), whether the delay is over (shouldApplyUpdate) and whether
\* an apply-now annotation is too old to count are inputs.
StartUpdate ==
    /\ ReadServer
    /\ Begin
    /\ ufresh' = current
    /\ UNCHANGED <<avail, serverVars, stsVars, pVars, utries, edits, faults>>

\* apply-now: the annotation is removed by an update of the object, so the copy in
\* memory is outdated from the start.
StartUpdateNow ==
    /\ ReadServer
    /\ Begin
    /\ cache.applyNow
    /\ current
    /\ WriteServer([cache EXCEPT !.applyNow = FALSE])
    /\ ufresh' = FALSE
    /\ pfresh' = FALSE
    /\ UNCHANGED <<avail, stsVars, ppc, pcopy, utries, edits, faults>>

\* persistBackupStatus of the pre-update backup: the server is read again, the record
\* is written, and the copy in memory becomes what was read, with the version of the
\* write or, after a conflict, an outdated one.
RefreshedByBackup ==
    /\ ucopy' = cache
    /\ ufresh' = current
    /\ IF current THEN WriteServer(cache) /\ pfresh' = FALSE
                  ELSE UNCHANGED <<serverVars, pfresh>>

\* Backup, if there is one, plugins and graceful shutdown are done: with a new Paper
\* version the image is next, without one the pod, as it was decided before the backup.
Shutdown ==
    /\ upc = "shutdown"
    /\ upc' = IF ucopy.desired # ucopy.current THEN "image" ELSE "delete"
    /\ RefreshedByBackup \/ UNCHANGED <<serverVars, pfresh, ucopy, ufresh>>
    /\ UNCHANGED <<avail, stsVars, ppc, pcopy, utries, job, budget>>

\* updateStatefulSetImage: the version of the copy.
UpdateStatefulSetImage ==
    /\ upc = "image"
    /\ stsCurrent /\ stsCache # 0
    /\ IF stsCache = ucopy.desired
       THEN UNCHANGED stsVars
       ELSE WriteStatefulSet(ucopy.desired)
    /\ upc' = "delete"
    /\ UNCHANGED <<avail, serverVars, pVars, ucopy, ufresh, utries, job, budget>>

DeletePod ==
    /\ upc = "delete"
    /\ pod # 0
    /\ pod' = 0
    /\ upc' = "wait"
    /\ UNCHANGED <<avail, serverVars, sts, stsCache, stsCurrent, pVars, ucopy, ufresh,
                   utries, job, budget>>

\* updateServerStatus(true)
PodReady ==
    /\ upc = "wait"
    /\ pod # 0
    /\ ucopy' = [ucopy EXCEPT !.current = ucopy.desired]
    /\ upc' = "status"
    /\ UNCHANGED <<avail, serverVars, stsVars, pVars, ufresh, utries, job, budget>>

\* A step fails: updateServerStatus(false) keeps the versions.
UpdateFails ==
    /\ upc \in {"shutdown", "image", "delete", "wait"}
    /\ upc' = "status"
    /\ UNCHANGED <<avail, serverVars, stsVars, pVars, ucopy, ufresh, utries, job, budget>>

\* updateStatusWithRetry, first attempt: the whole status as it is in memory.
UpdateStatus ==
    /\ upc = "status"
    /\ IF ufresh
       THEN /\ WriteServer(ucopy)
            /\ pfresh' = FALSE
            /\ UReturn
       ELSE /\ upc' = "retry"
            /\ UNCHANGED <<serverVars, pfresh, ucopy, ufresh, utries>>
    /\ UNCHANGED <<avail, stsVars, ppc, pcopy, job, budget>>

\* Mutant: one attempt too many.
FourStatusRetries == 4

\* maxRetries
MaxStatusRetries == 3

\* Later attempts: conditions and plugins are put on the object read again, the
\* versions are not.
RetryStatus ==
    /\ upc = "retry"
    /\ IF current
       THEN /\ WriteServer([cache EXCEPT !.cronValid = ucopy.cronValid])
            /\ pfresh' = FALSE
            /\ UReturn
       ELSE /\ UNCHANGED <<serverVars, pfresh>>
            /\ IF utries + 2 < MaxStatusRetries
               THEN utries' = utries + 1 /\ UNCHANGED <<upc, ucopy, ufresh>>
               ELSE UReturn
    /\ UNCHANGED <<avail, stsVars, ppc, pcopy, job, budget>>

\* A Reconcile that has begun.
UpdateSteps ==
    \/ PersistCronCondition \/ Shutdown \/ UpdateStatefulSetImage \/ DeletePod
    \/ PodReady \/ UpdateFails \/ UpdateStatus \/ RetryStatus

UpdateController ==
    RejectCron \/ NothingToDo \/ StartUpdate \/ StartUpdateNow \/ UpdateSteps

-----------------------------------------------------------------------------
(* The cluster, the registry, the user and crashes.                        *)

\* The StatefulSet controller: no updateStrategy is set, so the default
\* RollingUpdate replaces a pod whose template is outdated, and a lost pod comes
\* back.  The StatefulSet's own status changes with it.
RollPod ==
    /\ pod # sts
    /\ pod' = sts
    /\ stsCurrent' = FALSE
    /\ UNCHANGED <<avail, serverVars, sts, stsCache, pVars, uVars, budget>>

\* A version is released, or a plugin allows it now ...
Release ==
    /\ \E v \in (1..MaxVersion) \ avail : avail' = avail \cup {v}
    /\ UNCHANGED <<serverVars, stsVars, pVars, uVars, budget>>

\* ... and one is withdrawn, or a plugin does not allow it any more.
Withdraw ==
    /\ faults < MaxFaults
    /\ faults' = faults + 1
    /\ \E v \in avail : avail' = avail \ {v}
    /\ UNCHANGED <<serverVars, stsVars, pVars, uVars, edits, updates>>

EditServer ==
    /\ edits < MaxEdits
    /\ edits' = edits + 1
    /\ \/ \E v \in Versions \ {obj.pin} : WriteServer([obj EXCEPT !.pin = v])
       \/ \E w \in Windows \ {obj.window} : WriteServer([obj EXCEPT !.window = w])
       \/ WriteServer([obj EXCEPT !.applyNow = TRUE])
    /\ pfresh' = FALSE /\ ufresh' = FALSE
    /\ UNCHANGED <<avail, stsVars, ppc, pcopy, upc, ucopy, utries, job,
                   updates, faults>>

SyncServer ==
    /\ ~current
    /\ cache' = obj /\ current' = TRUE
    /\ UNCHANGED <<avail, obj, stsVars, pVars, uVars, budget>>

SyncStatefulSet ==
    /\ ~stsCurrent
    /\ stsCache' = sts /\ stsCurrent' = TRUE
    /\ UNCHANGED <<avail, serverVars, sts, pod, pVars, uVars, budget>>

OperatorCrash ==
    /\ faults < MaxFaults
    /\ faults' = faults + 1
    /\ PReturn /\ UReturn /\ job' = FALSE
    /\ cache' = obj /\ current' = TRUE
    /\ stsCache' = sts /\ stsCurrent' = TRUE
    /\ UNCHANGED <<avail, obj, sts, pod, edits, updates>>

Next ==
    \/ ServerController \/ UpdateController
    \/ RollPod \/ Release \/ Withdraw \/ EditServer
    \/ SyncServer \/ SyncStatefulSet \/ OperatorCrash

Spec == Init /\ [][Next]_vars

\* Work queues, informers and the StatefulSet controller go on; the user, the
\* registry and the start of updates owe nothing.
Fairness ==
    /\ WF_vars(ServerController)
    /\ WF_vars(UpdateSteps)
    /\ WF_vars(RollPod)
    /\ WF_vars(SyncServer)
    /\ WF_vars(SyncStatefulSet)

FairSpec == Spec /\ Fairness

-----------------------------------------------------------------------------
(* What a rollout promises.                                                *)

\* A server that is running never loses its version: whatever fails, the desired
\* version and the image stay set ("keep existing desired if set",
\* papermcserver_controller.go:232).
VersionKept ==
    [][/\ obj.desired # 0 => obj'.desired # 0
       /\ sts # 0 => sts' # 0]_vars

\* checkDowngrade and its fallback: neither controller ever works with, or leaves
\* behind, a status whose desired version is older than the version it knows to run.
DowngradeGuarded ==
    \A server \in {obj, cache, pcopy, ucopy} : server.desired >= server.current

\* Once nobody interferes any more, pod and image agree with the status for good, in
\* spite of outdated copies, lost status writes and two writers of the image.  (With
\* no desired version on record there is nothing to agree with: the first status
\* write was lost and the version cannot be resolved since.)
RolloutConverges ==
    <>[](pod = sts /\ (obj.desired # 0 => sts = obj.desired /\ obj.current = sts))

\* "The actual version update is gated by the UpdateReconciler during the maintenance
\* window" (papermcserver_controller.go:204): with a window, only the update controller
\* gives a server another image.
ImageGatedByWindow ==
    [][sts # 0 /\ sts' # sts /\ obj.window = "valid" => upc = "image"]_vars
=============================================================================
