-------------------------- MODULE BackupController --------------------------
(***************************************************************************)
(* Backups of one PaperMCServer: the backup controller (cron triggers, the *)
(* backup-now annotation, performBackup), the update controller that calls *)
(* PerformBackup before it restarts the pod, the pod's auto-save switch,   *)
(* and the VolumeSnapshots.                                                *)
(*                                                                         *)
(* Both controllers run performBackup; they meet only in backupMu, a map   *)
(* from server names to mutexes.  The map's entry and the mutex a process  *)
(* fetched from it are two things here, as they are in the code.           *)
(*                                                                         *)
(* Time is kept as one bit: a backup record "covers" the pending cron      *)
(* trigger when it is successful and its StartedAt is not before the time  *)
(* of the trigger.  A new trigger clears the bit wherever it is stored.    *)
(***************************************************************************)
EXTENDS Naturals, FiniteSets

CONSTANTS
    Schedules,    \* the valid, non-empty cron expressions
    RconModes,    \* the values of spec.rcon.enabled the instance looks at
    MaxCount,     \* spec.backup.retention.maxCount
    MaxBackups,   \* bound: VolumeSnapshots created
    MaxEdits,     \* bound: changes of spec.backup
    MaxRequests,  \* bound: backup-now annotations set by the user
    MaxFires,     \* bound: cron ticks
    MaxUpdates,   \* bound: updates started by the update controller
    MaxWrites,    \* bound: writes of the server by other controllers
    MaxFaults,    \* bound: failed calls
    MaxCrashes    \* bound: operator crashes

ASSUME ScheduleAssumption == "none" \notin Schedules /\ "bad" \notin Schedules

ASSUME RconAssumption == RconModes \subseteq BOOLEAN

ASSUME CountAssumption == MaxCount \in Nat \ {0}

ASSUME BackupBoundAssumption ==
    /\ MaxBackups \in Nat /\ MaxEdits \in Nat /\ MaxRequests \in Nat
    /\ MaxFires \in Nat /\ MaxUpdates \in Nat /\ MaxWrites \in Nat /\ MaxFaults \in Nat
    /\ MaxCrashes \in Nat

VARIABLES
    rcon,      \* spec.rcon.enabled
    obj,       \* the PaperMCServer at the API server
    cache,     \* the informer's copy of it
    current,   \* cache has the current resource version
    job,       \* cronEntries: the registered cron expression
    firing,    \* a cron callback has been started and has not run yet
    trigger,   \* cronTriggerTimes has an entry
    entry,     \* backupMu: the mutex stored for the server, 0 if none
    pc,        \* where each controller stands
    mu,        \* the mutex each performBackup fetched, 0 if none
    after,     \* its StartedAt is not before the pending trigger
    ok,        \* it has succeeded so far
    hooked,    \* it has sent save-off and still has to send save-on
    why,       \* what the backup controller's backup was triggered by
    bserver,   \* the backup controller's in-memory server
    pod,       \* the Minecraft pod is up
    autosave,  \* auto-save is enabled in the running server
    lost,      \* history: a save-on that was due has been lost
    snaps,     \* the VolumeSnapshots, numbered in order of creation
    listed,    \* the informer's copy of them
    made,      \* how many were ever created
    edits, requests, fires, updates, writes, faults, crashes  \* how much of the bounds is used

objVars == <<obj, cache, current>>
cronVars == <<job, firing, trigger>>
runVars == <<mu, after, ok, hooked>>
worldVars == <<pod, autosave, lost>>
snapVars == <<snaps, listed, made>>
budget == <<edits, requests, fires, updates, writes, faults, crashes>>
vars == <<rcon, objVars, cronVars, entry, pc, runVars, why, bserver, worldVars,
          snapVars, budget>>

-----------------------------------------------------------------------------
Proc == {"backup", "update"}

\* Two running backups and the map can refer to three different mutexes.
Mutexes == 1..3

Server == [enabled : BOOLEAN,
           schedule : Schedules \cup {"none", "bad"},
           annotation : {"none", "valid", "stale"},
           covers : BOOLEAN]      \* status.backup.lastBackup covers the trigger

NoServer == [enabled |-> FALSE, schedule |-> "none", annotation |-> "none",
             covers |-> FALSE]

\* Inside performBackup, from the call to the return.
Locked == {"prepare", "create", "retain", "record", "release"}
Performing == {"fetch", "lock", "done"} \cup Locked

ServerOK ==
    /\ rcon \in RconModes
    /\ obj \in Server /\ cache \in Server /\ bserver \in Server
    /\ current \in BOOLEAN /\ firing \in BOOLEAN /\ trigger \in BOOLEAN
    /\ job \in Schedules \cup {"none"}
    /\ why \in {"manual", "scheduled"}

RunsOK ==
    /\ entry \in Mutexes \cup {0}
    /\ pc \in [Proc -> {"idle", "persist", "check", "schedule", "restart", "wait"}
                          \cup Performing]
    /\ mu \in [Proc -> Mutexes \cup {0}]
    /\ after \in [Proc -> BOOLEAN]
    /\ ok \in [Proc -> BOOLEAN]
    /\ hooked \in [Proc -> BOOLEAN]
    /\ pod \in BOOLEAN /\ autosave \in BOOLEAN /\ lost \in BOOLEAN

SnapsOK ==
    /\ made \in 0..MaxBackups
    /\ snaps \subseteq 1..made /\ listed \subseteq 1..made

BoundsOK ==
    /\ edits \in 0..MaxEdits /\ requests \in 0..MaxRequests /\ fires \in 0..MaxFires
    /\ updates \in 0..MaxUpdates /\ writes \in 0..MaxWrites /\ faults \in 0..MaxFaults
    /\ crashes \in 0..MaxCrashes

TypeOK == ServerOK /\ RunsOK /\ SnapsOK /\ BoundsOK

Init ==
    /\ rcon \in RconModes
    /\ \E e \in BOOLEAN, s \in Schedules \cup {"none", "bad"} :
          obj = [NoServer EXCEPT !.enabled = e, !.schedule = s]
    /\ cache = obj
    /\ current = TRUE
    /\ job = "none" /\ firing = FALSE /\ trigger = FALSE
    /\ entry = 0
    /\ pc = [p \in Proc |-> "idle"]
    /\ mu = [p \in Proc |-> 0]
    /\ after = [p \in Proc |-> FALSE]
    /\ ok = [p \in Proc |-> FALSE]
    /\ hooked = [p \in Proc |-> FALSE]
    /\ why = "manual"
    /\ bserver = NoServer
    /\ pod = TRUE /\ autosave = TRUE /\ lost = FALSE
    /\ snaps = {} /\ listed = {} /\ made = 0
    /\ edits = 0 /\ requests = 0 /\ fires = 0
    /\ updates = 0 /\ writes = 0 /\ faults = 0 /\ crashes = 0

Goto(p, label) == pc' = [pc EXCEPT ![p] = label]

\* Reconcile returns; its local variables are gone.
Return ==
    /\ Goto("backup", "idle")
    /\ bserver' = NoServer
    /\ why' = "manual"

\* performBackup has returned and its result has been used.
Forget(p) ==
    /\ after' = [after EXCEPT ![p] = FALSE]
    /\ ok' = [ok EXCEPT ![p] = FALSE]
    /\ UNCHANGED <<mu, hooked>>

Fault == faults < MaxFaults /\ faults' = faults + 1
KeepBounds == UNCHANGED <<edits, requests, fires, updates, writes, crashes>>

-----------------------------------------------------------------------------
(* performBackup, run by process p.                                        *)

Unused == {m \in Mutexes : m # entry /\ \A p \in Proc : mu[p] # m}

\* Mutant: load and store are not one operation on the map.
GetServerBackupMuFresh(p) ==
    /\ pc[p] = "fetch"
    /\ entry' \in Unused
    /\ mu' = [mu EXCEPT ![p] = entry']
    /\ Goto(p, "lock")
    /\ UNCHANGED <<rcon, objVars, cronVars, after, ok, hooked, why, bserver, worldVars,
                   snapVars, budget>>

\* getServerBackupMu: LoadOrStore.
GetServerBackupMu(p) ==
    /\ pc[p] = "fetch"
    /\ entry' = IF entry # 0 THEN entry ELSE CHOOSE m \in Unused : TRUE
    /\ mu' = [mu EXCEPT ![p] = entry']
    /\ Goto(p, "lock")
    /\ UNCHANGED <<rcon, objVars, cronVars, after, ok, hooked, why, bserver, worldVars,
                   snapVars, budget>>

\* mu.Lock(), then startedAt = now.
Lock(p) ==
    /\ pc[p] = "lock"
    /\ \A q \in Proc : pc[q] \in Locked => mu[q] # mu[p]
    /\ after' = [after EXCEPT ![p] = TRUE]
    /\ ok' = [ok EXCEPT ![p] = TRUE]
    /\ Goto(p, "prepare")
    /\ UNCHANGED <<rcon, objVars, cronVars, entry, mu, hooked, why, bserver, worldVars,
                   snapVars, budget>>

\* The volume exists; with RCON: connect, save-all, save-off.
Prepare(p) ==
    /\ pc[p] = "prepare"
    /\ rcon => pod
    /\ hooked' = [hooked EXCEPT ![p] = rcon]
    /\ autosave' = (autosave /\ ~rcon)
    /\ Goto(p, "create")
    /\ UNCHANGED <<rcon, objVars, cronVars, entry, mu, after, ok, why, bserver, pod, lost,
                   snapVars, budget>>

Failed(p) == ok' = [ok EXCEPT ![p] = FALSE]

\* The server does not answer while its pod restarts.
ConnectFails(p) ==
    /\ pc[p] = "prepare"
    /\ rcon /\ ~pod
    /\ Failed(p)
    /\ Goto(p, "record")
    /\ UNCHANGED <<rcon, objVars, cronVars, entry, mu, after, hooked, why, bserver,
                   worldVars, snapVars, budget>>

\* No volume, no credentials, or a failing hook: save-off may have been executed
\* all the same, and the save-on sent after it may be lost too.
PrepareFails(p) ==
    /\ pc[p] = "prepare"
    /\ Fault /\ KeepBounds
    /\ Failed(p)
    /\ autosave' \in (IF rcon /\ pod THEN BOOLEAN ELSE {autosave})
    /\ lost' = IF rcon /\ pod THEN ~autosave' ELSE lost
    /\ Goto(p, "record")
    /\ UNCHANGED <<rcon, objVars, cronVars, entry, mu, after, hooked, why, bserver, pod,
                   snapVars>>

\* CreateSnapshot returns once the VolumeSnapshot object exists.
CreateSnapshot(p) ==
    /\ pc[p] = "create"
    /\ made < MaxBackups
    /\ made' = made + 1
    /\ snaps' = snaps \cup {made + 1}
    /\ Goto(p, "retain")
    /\ UNCHANGED <<rcon, objVars, cronVars, entry, runVars, why, bserver, worldVars,
                   listed, budget>>

CreateSnapshotFails(p) ==
    /\ pc[p] = "create"
    /\ Fault /\ KeepBounds
    /\ Failed(p)
    /\ Goto(p, "record")
    /\ UNCHANGED <<rcon, objVars, cronVars, entry, mu, after, hooked, why, bserver,
                   worldVars, snapVars>>

\* Mutant: the sort puts the newest snapshots first.
TooManyNewest(list) ==
    {i \in list : Cardinality({j \in list : j < i}) >= MaxCount}

\* The oldest snapshots of a listing beyond maxCount.
TooMany(list) ==
    {i \in list : Cardinality({j \in list : j > i}) >= MaxCount}

\* DeleteOldSnapshots works on the cached listing, oldest first, and stops at the
\* first one that is not there; after that the snapshots are counted.
DeleteOldSnapshots(p) ==
    /\ pc[p] = "retain"
    /\ LET old == TooMany(listed)
       IN  snaps' = snaps \ {i \in old : \A j \in old : j <= i => j \in snaps}
    /\ Goto(p, "record")
    /\ UNCHANGED <<rcon, objVars, cronVars, entry, runVars, why, bserver, worldVars,
                   listed, made, budget>>

\* A call in it fails part of the way: logged only.
DeleteOldSnapshotsFails(p) ==
    /\ pc[p] = "retain"
    /\ Fault /\ KeepBounds
    /\ \E k \in TooMany(listed) : snaps' = snaps \ {i \in TooMany(listed) : i < k}
    /\ Goto(p, "record")
    /\ UNCHANGED <<rcon, objVars, cronVars, entry, runVars, why, bserver, worldVars,
                   listed, made>>

CopyBack(p, covers) ==
    bserver' = IF p = "backup" THEN [bserver EXCEPT !.covers = covers] ELSE bserver

\* persistBackupStatus: StartedAt is stored in whole seconds, so the record may look
\* older than the trigger it follows; a conflict is logged, the caller's copy
\* gets the new record either way.
PersistBackupStatus(p) ==
    /\ pc[p] = "record"
    /\ LET covers == ok[p] /\ after[p]
       IN  IF current
           THEN \E rounded \in {covers, FALSE} :
                   /\ obj' = [cache EXCEPT !.covers = rounded]
                   /\ current' = FALSE
                   /\ CopyBack(p, rounded)
           ELSE /\ UNCHANGED <<obj, current>>
                /\ CopyBack(p, covers)
    /\ Goto(p, "release")
    /\ UNCHANGED <<rcon, cache, cronVars, entry, runVars, why, worldVars, snapVars, budget>>

\* The server cannot be read again: no status, no copy.
PersistBackupStatusFails(p) ==
    /\ pc[p] = "record"
    /\ Fault /\ KeepBounds
    /\ Goto(p, "release")
    /\ UNCHANGED <<rcon, objVars, cronVars, entry, runVars, why, bserver, worldVars, snapVars>>

\* Mutant: save-on is sent only after a snapshot was created.
ReleaseForgetful(p) ==
    /\ pc[p] = "release"
    /\ autosave' = (autosave \/ (hooked[p] /\ ok[p]))
    /\ lost' = (lost /\ ~autosave')
    /\ hooked' = [hooked EXCEPT ![p] = FALSE]
    /\ mu' = [mu EXCEPT ![p] = 0]
    /\ Goto(p, "done")
    /\ UNCHANGED <<rcon, objVars, cronVars, entry, after, ok, why, bserver, pod, snapVars,
                   budget>>

\* The deferred calls: PostSnapshotHook (save-on), Close, Unlock.
Release(p) ==
    /\ pc[p] = "release"
    /\ autosave' = (autosave \/ hooked[p])
    /\ lost' = (lost /\ ~autosave')
    /\ hooked' = [hooked EXCEPT ![p] = FALSE]
    /\ mu' = [mu EXCEPT ![p] = 0]
    /\ Goto(p, "done")
    /\ UNCHANGED <<rcon, objVars, cronVars, entry, after, ok, why, bserver, pod, snapVars,
                   budget>>

\* save-on is lost: logged only.
SaveOnFails(p) ==
    /\ pc[p] = "release" /\ hooked[p]
    /\ Fault /\ KeepBounds
    /\ lost' = ~autosave
    /\ hooked' = [hooked EXCEPT ![p] = FALSE]
    /\ mu' = [mu EXCEPT ![p] = 0]
    /\ Goto(p, "done")
    /\ UNCHANGED <<rcon, objVars, cronVars, entry, after, ok, why, bserver, pod, autosave,
                   snapVars>>

PerformBackup(p) ==
    \/ GetServerBackupMu(p) \/ Lock(p) \/ Prepare(p) \/ ConnectFails(p) \/ PrepareFails(p)
    \/ CreateSnapshot(p) \/ CreateSnapshotFails(p)
    \/ DeleteOldSnapshots(p) \/ DeleteOldSnapshotsFails(p)
    \/ PersistBackupStatus(p) \/ PersistBackupStatusFails(p)
    \/ Release(p) \/ SaveOnFails(p)

-----------------------------------------------------------------------------
(* The backup controller's Reconcile.                                      *)

\* backupMu.Delete, cron and trigger of a server without backups (or that is
\* gone) are dropped.
BackupsDisabled ==
    /\ pc["backup"] = "idle"
    /\ ~cache.enabled
    /\ job' = "none"
    /\ trigger' = FALSE
    /\ entry' = 0
    /\ UNCHANGED <<rcon, objVars, firing, pc, runVars, why, bserver, worldVars, snapVars,
                   budget>>

\* Mutant: the entry is stored although AddFunc failed.
ManageBackupCronScheduleAny(schedule) == schedule

\* manageBackupCronSchedule: the map of cron entries afterwards.
ManageBackupCronSchedule(schedule) ==
    IF schedule \in Schedules THEN schedule ELSE "none"

\* A reconcile of a server with a schedule.
StartScheduled ==
    /\ pc["backup"] = "idle"
    /\ cache.enabled /\ cache.schedule # "none"
    /\ job' = ManageBackupCronSchedule(cache.schedule)
    /\ bserver' = cache
    /\ Goto("backup", "persist")
    /\ UNCHANGED <<rcon, objVars, firing, trigger, entry, runVars, why, worldVars, snapVars,
                   budget>>

\* A reconcile of a server whose backups are only made on request.
StartUnscheduled ==
    /\ pc["backup"] = "idle"
    /\ cache.enabled /\ cache.schedule = "none"
    /\ job' = "none"
    /\ trigger' = FALSE
    /\ bserver' = cache
    /\ Goto("backup", "check")
    /\ UNCHANGED <<rcon, objVars, firing, entry, runVars, why, worldVars, snapVars, budget>>

\* persistCronCondition: a write that may or may not change the object; an invalid
\* schedule ends the reconcile.
PersistCronCondition ==
    /\ pc["backup"] = "persist"
    /\ current
    /\ current' \in BOOLEAN
    /\ IF bserver.schedule \in Schedules
       THEN /\ Goto("backup", "check")
            /\ why' = why
            /\ bserver' = [bserver EXCEPT !.covers = cache.covers]
       ELSE Return
    /\ UNCHANGED <<rcon, obj, cache, cronVars, entry, runVars, worldVars, snapVars, budget>>

\* Its conflict is returned: the key is queued again.
PersistCronConflict ==
    /\ pc["backup"] = "persist"
    /\ ~current
    /\ Return
    /\ UNCHANGED <<rcon, objVars, cronVars, entry, runVars, worldVars, snapVars, budget>>

\* removeBackupNowAnnotation: a merge patch against the cached object, sent without
\* a resource version.
RemoveBackupNowAnnotation ==
    IF cache.annotation # "none"
    THEN obj' = [obj EXCEPT !.annotation = "none"] /\ current' = FALSE
    ELSE UNCHANGED <<obj, current>>

\* Mutant: an annotation that is not acted upon stays.
NoManualBackupKeeps ==
    /\ pc["backup"] = "check"
    /\ bserver.annotation # "valid"
    /\ Goto("backup", "schedule")
    /\ UNCHANGED <<rcon, objVars, cronVars, entry, runVars, why, bserver, worldVars, snapVars,
                   budget>>

\* No annotation, or one too old, too far in the future or unreadable: it is
\* removed and the schedule is looked at.
NoManualBackup ==
    /\ pc["backup"] = "check"
    /\ bserver.annotation # "valid"
    /\ IF bserver.annotation = "stale"
       THEN RemoveBackupNowAnnotation
       ELSE UNCHANGED <<obj, current>>
    /\ Goto("backup", "schedule")
    /\ UNCHANGED <<rcon, cache, cronVars, entry, runVars, why, bserver, worldVars, snapVars,
                   budget>>

\* The annotation is removed before the backup starts.
StartManualBackup ==
    /\ pc["backup"] = "check"
    /\ bserver.annotation = "valid"
    /\ RemoveBackupNowAnnotation
    /\ bserver' = [bserver EXCEPT !.annotation = "none"]
    /\ why' = "manual"
    /\ Goto("backup", "fetch")
    /\ UNCHANGED <<rcon, cache, cronVars, entry, runVars, worldVars, snapVars, budget>>

\* The VolumeSnapshot API is missing, or the annotation cannot be removed.
CheckFails ==
    /\ pc["backup"] = "check"
    /\ Fault /\ KeepBounds
    /\ Return
    /\ UNCHANGED <<rcon, objVars, cronVars, entry, runVars, worldVars, snapVars>>

\* A failed manual backup is only logged; a successful one consumes the trigger.
ManualBackupDone ==
    /\ pc["backup"] = "done" /\ why = "manual"
    /\ trigger' = (trigger /\ ~ok["backup"])
    /\ Goto("backup", "schedule")
    /\ Forget("backup")
    /\ UNCHANGED <<rcon, objVars, job, firing, entry, why, bserver, worldVars,
                   snapVars, budget>>

ShouldRunScheduledBackup == trigger /\ ~bserver.covers

StartScheduledBackup ==
    /\ pc["backup"] = "schedule"
    /\ ShouldRunScheduledBackup
    /\ why' = "scheduled"
    /\ Goto("backup", "fetch")
    /\ UNCHANGED <<rcon, objVars, cronVars, entry, runVars, bserver, worldVars, snapVars, budget>>

NoScheduledBackup ==
    /\ pc["backup"] = "schedule"
    /\ ~ShouldRunScheduledBackup
    /\ Return
    /\ UNCHANGED <<rcon, objVars, cronVars, entry, runVars, worldVars, snapVars, budget>>

\* Mutant: the trigger is consumed whatever the outcome.
ScheduledBackupDoneAlways ==
    /\ pc["backup"] = "done" /\ why = "scheduled"
    /\ trigger' = FALSE
    /\ Return
    /\ Forget("backup")
    /\ UNCHANGED <<rcon, objVars, job, firing, entry, worldVars, snapVars, budget>>

\* A failed scheduled backup keeps its trigger and is retried.
ScheduledBackupDone ==
    /\ pc["backup"] = "done" /\ why = "scheduled"
    /\ trigger' = (trigger /\ ~ok["backup"])
    /\ Return
    /\ Forget("backup")
    /\ UNCHANGED <<rcon, objVars, job, firing, entry, worldVars, snapVars, budget>>

BackupReconcile ==
    \/ BackupsDisabled \/ StartScheduled \/ StartUnscheduled
    \/ PersistCronCondition \/ PersistCronConflict
    \/ NoManualBackup \/ StartManualBackup \/ CheckFails \/ ManualBackupDone
    \/ StartScheduledBackup \/ NoScheduledBackup \/ ScheduledBackupDone

-----------------------------------------------------------------------------
(* The update controller, as far as backups and the pod are concerned.     *)

StartUpdate(label) ==
    /\ pc["update"] = "idle"
    /\ updates < MaxUpdates
    /\ updates' = updates + 1
    /\ Goto("update", label)
    /\ UNCHANGED <<rcon, objVars, cronVars, entry, runVars, why, bserver, worldVars, snapVars,
                   edits, requests, fires, writes, faults, crashes>>

\* backupBeforeUpdate
BackupBeforeUpdate == cache.enabled /\ StartUpdate("fetch")

\* Backups are off, or beforeUpdate is: straight to the update.
UpdateWithoutBackup == StartUpdate("restart")

\* A failed backup aborts the update.
PreUpdateBackupDone ==
    /\ pc["update"] = "done"
    /\ Goto("update", IF ok["update"] THEN "restart" ELSE "idle")
    /\ Forget("update")
    /\ UNCHANGED <<rcon, objVars, cronVars, entry, why, bserver, worldVars, snapVars,
                   budget>>

\* Graceful shutdown and pod deletion: open RCON connections are gone, and the
\* next server process starts with auto-save on.
StopPod ==
    /\ pc["update"] = "restart"
    /\ pod' = FALSE
    /\ autosave' = TRUE
    /\ lost' = FALSE
    /\ hooked' = [p \in Proc |-> FALSE]
    /\ Goto("update", "wait")
    /\ UNCHANGED <<rcon, objVars, cronVars, entry, mu, after, ok, why, bserver, snapVars, budget>>

\* waitForPodReady
PodReady ==
    /\ pc["update"] = "wait"
    /\ pod' = TRUE
    /\ Goto("update", "idle")
    /\ UNCHANGED <<rcon, objVars, cronVars, entry, runVars, why, bserver, autosave, lost,
                   snapVars, budget>>

UpdateReconcile ==
    \/ BackupBeforeUpdate \/ UpdateWithoutBackup \/ PreUpdateBackupDone
    \/ StopPod \/ PodReady

-----------------------------------------------------------------------------
(* The user, the cron scheduler, the informers, the CSI driver, crashes.   *)

EditBackupSpec ==
    /\ edits < MaxEdits
    /\ edits' = edits + 1
    /\ \E e \in BOOLEAN, s \in Schedules \cup {"none", "bad"} :
          obj' = [obj EXCEPT !.enabled = e, !.schedule = s]
    /\ current' = FALSE
    /\ UNCHANGED <<rcon, cache, cronVars, entry, pc, runVars, why, bserver, worldVars, snapVars,
                   requests, fires, updates, writes, faults, crashes>>

RequestBackupNow ==
    /\ requests < MaxRequests
    /\ requests' = requests + 1
    /\ \E a \in {"valid", "stale"} : obj' = [obj EXCEPT !.annotation = a]
    /\ current' = FALSE
    /\ UNCHANGED <<rcon, cache, cronVars, entry, pc, runVars, why, bserver, worldVars, snapVars,
                   edits, fires, updates, writes, faults, crashes>>

\* The scheduler starts the callback in a goroutine of its own ...
CronFires ==
    /\ job # "none" /\ ~firing
    /\ fires < MaxFires
    /\ fires' = fires + 1
    /\ firing' = TRUE
    /\ UNCHANGED <<rcon, objVars, job, trigger, entry, pc, runVars, why, bserver, worldVars,
                   snapVars, edits, requests, updates, writes, faults, crashes>>

\* ... which records the time: no backup has started since.
CronCallback ==
    /\ firing
    /\ firing' = FALSE
    /\ trigger' = TRUE
    /\ obj' = [obj EXCEPT !.covers = FALSE]
    /\ cache' = [cache EXCEPT !.covers = FALSE]
    /\ bserver' = [bserver EXCEPT !.covers = FALSE]
    /\ after' = [p \in Proc |-> FALSE]
    /\ UNCHANGED <<rcon, current, job, entry, pc, mu, ok, hooked, why, worldVars, snapVars,
                   budget>>

\* Another controller writes the server's status or metadata.
OtherWrite ==
    /\ writes < MaxWrites
    /\ writes' = writes + 1
    /\ current' = FALSE
    /\ UNCHANGED <<rcon, obj, cache, cronVars, entry, pc, runVars, why, bserver, worldVars,
                   snapVars, edits, requests, fires, updates, faults, crashes>>

SyncServer ==
    /\ ~current
    /\ cache' = obj
    /\ current' = TRUE
    /\ UNCHANGED <<rcon, obj, cronVars, entry, pc, runVars, why, bserver, worldVars, snapVars,
                   budget>>

SyncSnapshots ==
    /\ listed # snaps
    /\ listed' = snaps
    /\ UNCHANGED <<rcon, objVars, cronVars, entry, pc, runVars, why, bserver, worldVars, snaps,
                   made, budget>>

\* The operator crashes: all that is in memory is lost, caches are rebuilt.
OperatorCrash ==
    /\ crashes < MaxCrashes
    /\ crashes' = crashes + 1
    /\ cache' = obj /\ current' = TRUE /\ listed' = snaps
    /\ job' = "none" /\ firing' = FALSE /\ trigger' = FALSE
    /\ entry' = 0
    /\ pc' = [p \in Proc |-> "idle"]
    /\ mu' = [p \in Proc |-> 0]
    /\ hooked' = [p \in Proc |-> FALSE]
    /\ after' = [p \in Proc |-> FALSE]
    /\ ok' = [p \in Proc |-> FALSE]
    /\ lost' = ~autosave
    /\ pod' = TRUE
    /\ bserver' = NoServer
    /\ why' = "manual"
    /\ UNCHANGED <<rcon, obj, autosave, snaps, made, edits, requests, fires,
                   updates, writes, faults>>

Environment ==
    \/ EditBackupSpec \/ RequestBackupNow \/ CronFires \/ OtherWrite \/ OperatorCrash

Next ==
    \/ \E p \in Proc : PerformBackup(p)
    \/ BackupReconcile
    \/ UpdateReconcile
    \/ CronCallback \/ SyncServer \/ SyncSnapshots
    \/ Environment

Spec == Init /\ [][Next]_vars

\* Every goroutine of the operator goes on, informers catch up.  Nothing is
\* assumed of the user, of cron ticks, updates, faults or the CSI driver.
Fairness ==
    /\ \A p \in Proc : WF_vars(PerformBackup(p))
    /\ WF_vars(BackupReconcile)
    /\ WF_vars(PreUpdateBackupDone \/ StopPod \/ PodReady)
    /\ WF_vars(CronCallback)
    /\ WF_vars(SyncServer)
    /\ WF_vars(SyncSnapshots)

FairSpec == Spec /\ Fairness

-----------------------------------------------------------------------------
(* What backups promise.                                                   *)

\* The two controllers are not both inside performBackup.
BackupsSerialized == ~(\A p \in Proc : pc[p] \in Locked)

\* "Concurrent calls for the same server are serialized via a per-server mutex"
\* (backup_controller.go:322), as long as nobody edits spec.backup: switching backups off
\* drops the mutex from the map, whoever holds it.
SerializedUntilEdited == edits = 0 => BackupsSerialized

\* Auto-save is off only while a backup is running that still owes a save-on:
\* failing snapshots, retention or status writes, cron ticks, pod restarts and
\* even overlapping backups never leave it off.  Only a lost save-on or a crash do.
AutoSaveRestored == ~autosave => lost \/ \E p \in Proc : hooked[p]

\* Retention never deletes one of the MaxCount newest snapshots, although it works
\* on a listing that lags and may be run by two backups.
RetentionKeepsNewest ==
    [][\A i \in snaps \ snaps' : Cardinality({j \in snaps' : j > i}) >= MaxCount]_vars

\* A server whose backups are switched on and scheduled.
Scheduled == obj.enabled /\ obj.schedule \in Schedules

\* A cron trigger is not forgotten: it stays until some backup has succeeded, or
\* the schedule is taken away, or the operator crashes.
TriggerServed ==
    trigger ~> \/ \E p \in Proc : pc[p] = "done" /\ ok[p]
               \/ obj.covers
               \/ ~Scheduled
               \/ crashes > 0
               \/ made = MaxBackups

\* A backup-now annotation does not stay on a server whose backups are enabled and
\* not blocked by an invalid schedule.
AnnotationRemoved ==
    obj.annotation # "none" ~> \/ obj.annotation = "none"
                               \/ ~obj.enabled
                               \/ obj.schedule = "bad"

-----------------------------------------------------------------------------
(* Why it holds: the inductive invariants of the proofs.                   *)

\* Without RCON nobody ever touches auto-save.
AutoSaveInv ==
    /\ ~rcon => autosave
    /\ AutoSaveRestored

\* As long as spec.backup is not edited, a running backup means that backups are
\* enabled in every copy of the server; the map's entry then never changes under
\* it, and all running backups hold the one mutex in the map.
SerialInv ==
    edits = 0 =>
        /\ cache.enabled = obj.enabled
        /\ pc["backup"] # "idle" => obj.enabled
        /\ pc["update"] \in Performing => obj.enabled
        /\ \A p \in Proc : pc[p] \in Locked \cup {"lock"} => entry # 0 /\ mu[p] = entry
        /\ BackupsSerialized
=============================================================================
