--------------------------- MODULE PluginDeletion ---------------------------
(***************************************************************************)
(* The deletion protocol of one Plugin: the finalizer kept by the plugin   *)
(* controller, the PendingDeletion marks in the servers' statuses, the     *)
(* removal of the JAR by the update controller, and the papermcserver      *)
(* controller that rebuilds the plugin list of every server.               *)
(*                                                                         *)
(* The three controllers share nothing but the API objects.  They read     *)
(* them through an informer cache that lags behind the API server and      *)
(* write them with a resource version, so a write succeeds only when the   *)
(* copy it was computed from is the current version.  A copy carries this  *)
(* as one bit, "fresh": every successful write clears the bit of all other *)
(* copies of the object.  A read from the cache and the write that follows *)
(* it are one step: the write fails exactly when the cache was behind.     *)
(*                                                                         *)
(* A Plugin that is deleted may be created again under its name.  Each     *)
(* object has the uid the API server gives it; the marks and the JARs      *)
(* carry the uid of the object they go back to, which the code does not    *)
(* keep: it is history, read by the properties alone.                      *)
(***************************************************************************)
EXTENDS Naturals, FiniteSets

CONSTANTS
    Servers,         \* the PaperMCServer objects
    None,            \* not a server: the update controller is idle
    MaxVersion,      \* plugin versions are 1..MaxVersion; 0 is the empty string
    MaxCreations,    \* bound: how often the user creates the Plugin
    MaxRelabels,     \* bound: how often the user changes a server's labels
    MaxServerLosses, \* bound: how many servers the user deletes
    MaxUpdates,      \* bound: how many updates the update controller runs
    MaxFaults        \* bound: failed API calls of reconcileDelete, operator faults

ASSUME NoneAssumption == None \notin Servers

ASSUME VersionAssumption == MaxVersion \in Nat \ {0}

ASSUME BoundAssumption ==
    /\ MaxCreations \in Nat
    /\ MaxRelabels \in Nat
    /\ MaxServerLosses \in Nat
    /\ MaxUpdates \in Nat
    /\ MaxFaults \in Nat

VARIABLES
    plugin,       \* the Plugin object at the API server
    old,          \* servers whose DeletionRequestedAt is past deletionTimeout
    server,       \* the PaperMCServer objects at the API server
    disk,         \* disk[s]: the uid of the Plugin whose JAR s has on its volume, or 0
    pluginCache,  \* the informer's copy of the Plugin
    pluginCurrent,\* pluginCache has the current resource version
    serverCache,  \* the informer's copies of the servers
    serverCurrent,\* serverCurrent[s]: serverCache[s] has the current version
    ppc,          \* where the plugin controller's reconcileDelete stands
    pcopy,        \* its in-memory Plugin
    pfresh,       \* pcopy has the current resource version
    ptodo,        \* servers markPluginForDeletionOnServers has yet to visit
    upc,          \* where the update controller's Reconcile stands
    userver,      \* the server it works on
    uentry,       \* the plugin's entry in its in-memory server status
    ufresh,       \* its in-memory server has the current resource version
    utries,       \* conflicts met so far by updateStatusWithRetry
    creations, relabels, losses, updates, faults  \* how much of the bounds is used

pluginVars == <<plugin, old, pluginCache, pluginCurrent>>
serverVars == <<server, serverCache, serverCurrent>>
pVars == <<ppc, pcopy, pfresh, ptodo>>
uVars == <<upc, userver, uentry, ufresh, utries>>
budget == <<creations, relabels, losses, updates, faults>>
vars == <<pluginVars, serverVars, disk, pVars, uVars, budget>>

-----------------------------------------------------------------------------
(* Objects.                                                                *)

Versions == 0..MaxVersion

\* DeletionProgress: no entry, an entry with JARDeleted = FALSE, or TRUE.
Progress == {"none", "requested", "deleted"}

\* 0 is the uid of no object.
Uids == 0..MaxCreations

PluginObject == [phase : {"absent", "active", "terminating"},
                 uid : Uids,
                 finalizer : BOOLEAN,
                 latest : Versions,        \* newest of AvailableVersions, 0 if none
                 progress : [Servers -> Progress]]

NoPlugin == [phase |-> "absent", uid |-> 0, finalizer |-> FALSE, latest |-> 0,
             progress |-> [s \in Servers |-> "none"]]

\* The ServerPluginStatus of this plugin; "listed" says whether there is one.
Entry == [listed : BOOLEAN,
          mark : Uids,                     \* # 0: PendingDeletion, set for this Plugin
          jar : BOOLEAN,                   \* InstalledJARName # ""
          current : Versions,              \* CurrentVersion
          resolved : Versions]             \* ResolvedVersion = DesiredVersion

NoEntry == [listed |-> FALSE, mark |-> 0, jar |-> FALSE,
            current |-> 0, resolved |-> 0]

ServerObject == [alive : BOOLEAN,
                 matched : BOOLEAN,        \* labels match the instanceSelector
                 entry : Entry]

NoServer == [alive |-> FALSE, matched |-> FALSE, entry |-> NoEntry]

ObjectsOK ==
    /\ plugin \in PluginObject
    /\ old \subseteq Servers
    /\ server \in [Servers -> ServerObject]
    /\ disk \in [Servers -> Uids]
    /\ pluginCache \in PluginObject
    /\ pluginCurrent \in BOOLEAN
    /\ serverCache \in [Servers -> ServerObject]
    /\ serverCurrent \in [Servers -> BOOLEAN]

ControllersOK ==
    /\ ppc \in {"idle", "cleanup", "mark", "force", "final"}
    /\ pcopy \in PluginObject
    /\ pfresh \in BOOLEAN
    /\ ptodo \subseteq Servers
    /\ upc \in {"idle", "delete", "confirm", "apply", "restart", "status", "retry"}
    /\ userver \in Servers \cup {None}
    /\ upc # "idle" => userver \in Servers
    /\ uentry \in Entry
    /\ ufresh \in BOOLEAN
    /\ utries \in {0, 1}

BoundsOK ==
    /\ creations \in 0..MaxCreations
    /\ relabels \in 0..MaxRelabels
    /\ losses \in 0..MaxServerLosses
    /\ updates \in 0..MaxUpdates
    /\ faults \in 0..MaxFaults

TypeOK == ObjectsOK /\ ControllersOK /\ BoundsOK

\* Where an update has brought version 1 of the first Plugin to a server.
InstalledPlugin == [phase |-> "active", uid |-> 1, finalizer |-> TRUE, latest |-> 1,
                    progress |-> [s \in Servers |-> "none"]]
InstalledEntry == [listed |-> TRUE, mark |-> 0, jar |-> TRUE, current |-> 1, resolved |-> 1]

\* Either there is no Plugin yet, or one that is installed on some of the servers: the
\* bounds count what happens from then on.
Init ==
    /\ \E installed \in SUBSET Servers :
          /\ installed # {} => MaxCreations > 0
          /\ plugin = IF installed = {} THEN NoPlugin ELSE InstalledPlugin
          /\ creations = plugin.uid
          /\ disk = [s \in Servers |-> IF s \in installed THEN 1 ELSE 0]
          /\ \E matched \in SUBSET Servers :
                server = [s \in Servers |->
                            [alive |-> TRUE, matched |-> s \in matched \cup installed,
                             entry |-> IF s \in installed THEN InstalledEntry ELSE NoEntry]]
    /\ old = {}
    /\ pluginCache = plugin
    /\ pluginCurrent = TRUE
    /\ serverCache = server
    /\ serverCurrent = [s \in Servers |-> TRUE]
    /\ ppc = "idle"
    /\ pcopy = NoPlugin
    /\ pfresh = FALSE
    /\ ptodo = {}
    /\ upc = "idle"
    /\ userver = None
    /\ uentry = NoEntry
    /\ ufresh = FALSE
    /\ utries = 0
    /\ relabels = 0
    /\ losses = 0
    /\ updates = 0
    /\ faults = 0

-----------------------------------------------------------------------------
(* Writes.  WritePlugin and WriteServer are the API server accepting a new *)
(* version; they age every other copy.  The plugin controller's own copy   *)
(* follows its own writes.                                                 *)

WritePlugin(new) ==
    /\ plugin' = new
    /\ pluginCurrent' = FALSE
    /\ UNCHANGED pluginCache

WriteServer(s, new) ==
    /\ server' = [server EXCEPT ![s] = new]
    /\ serverCurrent' = [serverCurrent EXCEPT ![s] = FALSE]
    /\ UNCHANGED serverCache

\* The update controller's in-memory server is aged by a write of anyone else.
AgeServerCopy(s) == ufresh' = (ufresh /\ userver # s)

Requested(p) == {s \in Servers : p.progress[s] = "requested"}
HasProgress(p) == \E s \in Servers : p.progress[s] # "none"

\* Mutant: one finished entry is taken for all of them.
AllJARsDeletedAny(p) == \/ ~HasProgress(p)
                        \/ \E s \in Servers : p.progress[s] = "deleted"

AllJARsDeleted(p) == Requested(p) = {}

SetProgress(p, S, v) ==
    [p EXCEPT !.progress = [s \in Servers |-> IF s \in S THEN v ELSE @[s]]]

\* A Reconcile returns: its local variables are gone.
ForgetPlugin ==
    /\ ppc' = "idle"
    /\ pcopy' = NoPlugin
    /\ pfresh' = FALSE
    /\ ptodo' = {}

ForgetServer ==
    /\ upc' = "idle"
    /\ uentry' = NoEntry
    /\ ufresh' = FALSE
    /\ userver' = None
    /\ utries' = 0

-----------------------------------------------------------------------------
(* The plugin controller.                                                  *)

\* Reconcile of a live Plugin without finalizer: add it and return.
AddFinalizer ==
    /\ ppc = "idle"
    /\ pluginCache.phase = "active" /\ ~pluginCache.finalizer
    /\ pluginCurrent
    /\ WritePlugin([pluginCache EXCEPT !.finalizer = TRUE])
    /\ UNCHANGED <<old, serverVars, disk, pVars, uVars, budget>>

\* Mutant: metadata is synced before the finalizer is in place.
SyncMetadataEarly ==
    /\ ppc = "idle"
    /\ pluginCache.phase = "active"
    /\ pluginCache.latest < MaxVersion
    /\ pluginCurrent
    /\ WritePlugin([pluginCache EXCEPT !.latest = @ + 1])
    /\ UNCHANGED <<old, serverVars, disk, pVars, uVars, budget>>

\* Reconcile of a live Plugin: a version the repository offers reaches the status.
SyncMetadata ==
    /\ ppc = "idle"
    /\ pluginCache.phase = "active" /\ pluginCache.finalizer
    /\ pluginCache.latest < MaxVersion
    /\ pluginCurrent
    /\ WritePlugin([pluginCache EXCEPT !.latest = @ + 1])
    /\ UNCHANGED <<old, serverVars, disk, pVars, uVars, budget>>

\* Mutant: the deletion timestamp is not looked at.
InitDeletionProgressAlways ==
    /\ ppc = "idle"
    /\ pluginCache.phase # "absent" /\ pluginCache.finalizer
    /\ ~HasProgress(pluginCache)
    /\ pluginCurrent
    /\ LET matched == {s \in Servers : serverCache[s].alive /\ serverCache[s].matched}
           new == SetProgress(pluginCache, matched, "requested")
       IN  /\ WritePlugin(new)
           /\ pcopy' = new
    /\ pfresh' = TRUE
    /\ old' = {}
    /\ ppc' = "cleanup"
    /\ UNCHANGED <<ptodo, serverVars, disk, uVars, budget>>

\* reconcileDelete, step 1, no entries yet: one entry per matched server.
InitDeletionProgress ==
    /\ ppc = "idle"
    /\ pluginCache.phase = "terminating" /\ pluginCache.finalizer
    /\ ~HasProgress(pluginCache)
    /\ pluginCurrent
    /\ LET matched == {s \in Servers : serverCache[s].alive /\ serverCache[s].matched}
           new == SetProgress(pluginCache, matched, "requested")
       IN  /\ IF new = plugin
              THEN UNCHANGED <<plugin, pluginCurrent, pluginCache>>
              ELSE WritePlugin(new)
           /\ pcopy' = new
    /\ pfresh' = TRUE
    /\ old' = {}
    /\ ppc' = "cleanup"
    /\ UNCHANGED <<ptodo, serverVars, disk, uVars, budget>>

\* reconcileDelete, step 1, entries exist: nothing to initialise.
BeginDelete ==
    /\ ppc = "idle"
    /\ pluginCache.phase = "terminating" /\ pluginCache.finalizer
    /\ HasProgress(pluginCache)
    /\ pcopy' = pluginCache
    /\ pfresh' = pluginCurrent
    /\ ppc' = "cleanup"
    /\ UNCHANGED <<ptodo, pluginVars, serverVars, disk, uVars, budget>>

\* cleanupDeletedServers keeps an entry that is done or whose server exists.
Lost(s) == ~serverCache[s].alive

\* reconcileDelete, step 2.
CleanupDeletedServers ==
    /\ ppc = "cleanup"
    /\ LET gone == {s \in Requested(pcopy) : Lost(s)}
           new == SetProgress(pcopy, gone, "none")
       IN  /\ IF gone = {}
              THEN UNCHANGED <<plugin, pluginCurrent, pluginCache>>
              ELSE pfresh /\ WritePlugin(new)
           /\ pcopy' = new
           /\ ptodo' = Requested(new)
    /\ ppc' = "mark"
    /\ UNCHANGED <<old, pfresh, serverVars, disk, uVars, budget>>

\* "No JAR to delete": the server is gone, does not list the plugin, or never
\* got a JAR.
NoJARToDelete(s) ==
    \/ ~serverCache[s].alive
    \/ ~serverCache[s].entry.listed
    \/ ~serverCache[s].entry.jar

\* reconcileDelete, step 3, on a server with no JAR: markJARAsDeleted.
MarkNoJAR(s) ==
    /\ ppc = "mark" /\ s \in ptodo
    /\ NoJARToDelete(s)
    /\ pfresh
    /\ WritePlugin(SetProgress(pcopy, {s}, "deleted"))
    /\ pcopy' = SetProgress(pcopy, {s}, "deleted")
    /\ ptodo' = ptodo \ {s}
    /\ UNCHANGED <<ppc, pfresh, old, serverVars, disk, uVars, budget>>

\* reconcileDelete, step 3, on a server with a JAR: set PendingDeletion there.
MarkPending(s) ==
    /\ ppc = "mark" /\ s \in ptodo
    /\ ~NoJARToDelete(s)
    /\ ptodo' = ptodo \ {s}
    /\ IF serverCache[s].entry.mark # 0
       THEN UNCHANGED <<serverVars, ufresh>>
       ELSE /\ serverCurrent[s]
            /\ WriteServer(s, [serverCache[s] EXCEPT !.entry.mark = pcopy.uid])
            /\ AgeServerCopy(s)
    /\ UNCHANGED <<ppc, pcopy, pfresh, pluginVars, disk,
                   upc, userver, uentry, utries, budget>>

MarkDone ==
    /\ ppc = "mark" /\ ptodo = {}
    /\ ppc' = "force"
    /\ UNCHANGED <<pcopy, pfresh, ptodo, pluginVars, serverVars, disk, uVars, budget>>

\* Mutant: stale entries are not completed.
ForceCompleteNothing ==
    /\ ppc = "force"
    /\ pfresh
    /\ IF AllJARsDeleted(pcopy)
       THEN ppc' = "final" /\ UNCHANGED <<pcopy, pfresh, ptodo>>
       ELSE ForgetPlugin
    /\ UNCHANGED <<pluginVars, serverVars, disk, uVars, budget>>

\* reconcileDelete, steps 4 and 5: forceCompleteStaleDeletions, persist, and
\* go on only if every entry is done (otherwise requeue after 30 seconds).
ForceCompleteStaleDeletions ==
    /\ ppc = "force"
    /\ pfresh
    /\ LET new == SetProgress(pcopy, Requested(pcopy) \cap old, "deleted")
       IN  /\ IF new = pcopy
              THEN UNCHANGED <<plugin, pluginCurrent, pluginCache>>
              ELSE WritePlugin(new)
           /\ IF AllJARsDeleted(new)
              THEN ppc' = "final" /\ pcopy' = new /\ UNCHANGED <<pfresh, ptodo>>
              ELSE ForgetPlugin
    /\ UNCHANGED <<old, serverVars, disk, uVars, budget>>

\* reconcileDelete, step 6: the API server drops the object with its finalizer.
RemoveFinalizer ==
    /\ ppc = "final"
    /\ pfresh
    /\ WritePlugin(NoPlugin)
    /\ old' = {}
    /\ ForgetPlugin
    /\ UNCHANGED <<serverVars, disk, uVars, budget>>

\* The next write of reconcileDelete starts from an outdated copy.
Outdated ==
    \/ ppc \in {"force", "final"} /\ ~pfresh
    \/ ppc = "cleanup" /\ ~pfresh /\ \E s \in Requested(pcopy) : Lost(s)
    \/ /\ ppc = "mark"
       /\ \E s \in ptodo :
             \/ NoJARToDelete(s) /\ ~pfresh
             \/ /\ ~NoJARToDelete(s) /\ serverCache[s].entry.mark = 0
                /\ ~serverCurrent[s]

\* The API server refuses it (conflict, not found): the error is returned and the
\* key is queued again.
DeleteConflict ==
    /\ Outdated
    /\ ForgetPlugin
    /\ UNCHANGED <<pluginVars, serverVars, disk, uVars, budget>>

\* An API call of reconcileDelete fails for any other reason.
DeleteError ==
    /\ ppc # "idle"
    /\ faults < MaxFaults
    /\ faults' = faults + 1
    /\ ForgetPlugin
    /\ UNCHANGED <<pluginVars, serverVars, disk, uVars, creations, relabels, losses,
                   updates>>

PluginController ==
    \/ AddFinalizer \/ SyncMetadata
    \/ InitDeletionProgress \/ BeginDelete \/ CleanupDeletedServers
    \/ \E s \in Servers : MarkNoJAR(s) \/ MarkPending(s)
    \/ MarkDone \/ ForceCompleteStaleDeletions \/ RemoveFinalizer
    \/ DeleteConflict \/ DeleteError

-----------------------------------------------------------------------------
(* The update controller.  Whether an update is due (a new Paper version,  *)
(* the delay, the maintenance window) is left open here: Reconcile may     *)
(* start an update of any server it finds.                                 *)

TakeServer(s) ==
    /\ upc = "idle"
    /\ serverCache[s].alive
    /\ updates < MaxUpdates
    /\ updates' = updates + 1
    /\ upc' = "delete"
    /\ userver' = s
    /\ uentry' = serverCache[s].entry
    /\ utries' = 0
    /\ UNCHANGED <<creations, relabels, losses, faults>>

StartUpdate(s) ==
    /\ TakeServer(s)
    /\ ufresh' = serverCurrent[s]
    /\ UNCHANGED <<pluginVars, serverVars, disk, pVars>>

\* The same with the apply-now annotation: removeApplyNowAnnotation writes the
\* object through a second copy, so the one in hand is behind from the start.
StartUpdateNow(s) ==
    /\ TakeServer(s)
    /\ serverCurrent[s]
    /\ WriteServer(s, serverCache[s])
    /\ ufresh' = FALSE
    /\ UNCHANGED <<pluginVars, disk, pVars>>

\* getPluginsToDelete
ToDelete(entry) == entry.listed /\ entry.mark # 0

\* deleteMarkedPlugins / deletePluginJAR: rm --force in the pod.
DeletePluginJAR ==
    /\ upc = "delete"
    /\ IF ToDelete(uentry)
       THEN /\ upc' = "confirm"
            /\ disk' = [disk EXCEPT ![userver] = IF uentry.jar THEN 0 ELSE @]
       ELSE upc' = "apply" /\ UNCHANGED disk
    /\ UNCHANGED <<userver, uentry, ufresh, utries, pluginVars, serverVars, pVars, budget>>

\* Mutant: the Plugin status is overwritten without its resource version.
ConfirmDeletionBlind ==
    /\ upc = "confirm"
    /\ pluginCache.phase # "absent"
    /\ plugin.phase # "absent"
    /\ IF pluginCache.progress[userver] = "none"
       THEN UNCHANGED <<plugin, pluginCurrent, pluginCache, pfresh>>
       ELSE /\ WritePlugin(SetProgress(pluginCache, {userver}, "deleted"))
            /\ pfresh' = FALSE
    /\ upc' = "apply"
    /\ UNCHANGED <<userver, uentry, ufresh, utries, old, serverVars, disk,
                   ppc, pcopy, ptodo, budget>>

\* markJARAsDeleted of the update controller: no entry is not an error, an
\* entry is rewritten with a new DeletedAt even if it was already done.
ConfirmDeletion ==
    /\ upc = "confirm"
    /\ pluginCache.phase # "absent"
    /\ IF pluginCache.progress[userver] = "none"
       THEN UNCHANGED <<plugin, pluginCurrent, pluginCache, pfresh>>
       ELSE /\ pluginCurrent
            /\ WritePlugin(SetProgress(pluginCache, {userver}, "deleted"))
            /\ pfresh' = FALSE
    /\ upc' = "apply"
    /\ UNCHANGED <<userver, uentry, ufresh, utries, old, serverVars, disk,
                   ppc, pcopy, ptodo, budget>>

\* applyPluginUpdates skips a plugin that is not in the cluster, has no
\* resolved version, is already installed at it or does not offer it.
NeedsDownload(entry) ==
    /\ entry.listed
    /\ pluginCache.phase # "absent"
    /\ entry.resolved # 0
    /\ entry.current # entry.resolved
    /\ entry.resolved <= pluginCache.latest

\* applyPluginUpdates; the version may have left AvailableVersions (no URL).
ApplyPluginUpdates ==
    /\ upc = "apply"
    /\ upc' = "restart"
    /\ \/ /\ NeedsDownload(uentry)
          /\ disk' = [disk EXCEPT ![userver] = pluginCache.uid]
          /\ uentry' = [uentry EXCEPT !.jar = TRUE]
       \/ UNCHANGED <<disk, uentry>>
    /\ UNCHANGED <<userver, ufresh, utries, pluginVars, serverVars, pVars, budget>>

\* Shutdown, pod deletion and readiness succeed: updateServerStatus(true).
RestartPod ==
    /\ upc = "restart"
    /\ upc' = "status"
    /\ uentry' = IF uentry.resolved # 0
                 THEN [uentry EXCEPT !.current = uentry.resolved]
                 ELSE uentry
    /\ UNCHANGED <<userver, ufresh, utries, disk, pluginVars, serverVars, pVars, budget>>

\* A step of the update fails: updateServerStatus(false) records the failure.
UpdateFails ==
    /\ upc \in {"delete", "confirm", "apply", "restart"}
    /\ upc' = "status"
    /\ UNCHANGED <<userver, uentry, ufresh, utries, disk, pluginVars, serverVars,
                   pVars, budget>>

\* updateStatusWithRetry, first attempt.
UpdateStatus ==
    /\ upc = "status"
    /\ IF ufresh
       THEN /\ WriteServer(userver, [server[userver] EXCEPT !.entry = uentry])
            /\ ForgetServer
       ELSE /\ upc' = "retry"
            /\ UNCHANGED <<userver, uentry, ufresh, utries, serverVars>>
    /\ UNCHANGED <<disk, pluginVars, pVars, budget>>

\* The fields updateStatusWithRetry copies onto the object it read again.
Merge(latest, desired) ==
    IF latest.listed /\ desired.listed
    THEN [latest EXCEPT !.current = desired.current,
                        !.jar = desired.jar,
                        !.mark = desired.mark]
    ELSE latest

\* Mutant: one attempt more.
FourStatusRetries == 4

\* maxRetries
MaxStatusRetries == 3

\* updateStatusWithRetry, later attempts: read again, merge, write.
RetryStatus ==
    /\ upc = "retry"
    /\ serverCache[userver].alive
    /\ IF serverCurrent[userver]
       THEN /\ WriteServer(userver, [serverCache[userver] EXCEPT
                                        !.entry = Merge(@, uentry)])
            /\ ForgetServer
       ELSE /\ UNCHANGED serverVars
            /\ IF utries + 2 < MaxStatusRetries
               THEN utries' = utries + 1 /\ UNCHANGED <<upc, userver, uentry, ufresh>>
               ELSE ForgetServer
    /\ UNCHANGED <<disk, pluginVars, pVars, budget>>

\* The status update or the read before it fails for another reason.
StatusError ==
    /\ upc \in {"status", "retry"}
    /\ ForgetServer
    /\ UNCHANGED <<disk, pluginVars, serverVars, pVars, budget>>

UpdateController ==
    \/ \E s \in Servers : StartUpdate(s) \/ StartUpdateNow(s)
    \/ DeletePluginJAR \/ ConfirmDeletion \/ ApplyPluginUpdates \/ RestartPod
    \/ UpdateFails \/ UpdateStatus \/ RetryStatus \/ StatusError

-----------------------------------------------------------------------------
(* The papermcserver controller, as far as it touches the plugin's entry.  *)

\* Mutant: entries of plugins that are gone survive.
BuildPluginStatusSticky(obj, p) ==
    IF obj.matched /\ (p.phase # "absent" \/ obj.entry.listed)
    THEN [obj.entry EXCEPT !.listed = TRUE, !.resolved = p.latest]
    ELSE NoEntry

\* buildPluginStatus keeps CurrentVersion, InstalledJARName and PendingDeletion
\* of the previous entry and resolves the newest version there is; a plugin that
\* no longer matches loses its entry.
BuildPluginStatus(obj, p) ==
    IF obj.matched /\ p.phase # "absent"
    THEN [obj.entry EXCEPT !.listed = TRUE, !.resolved = p.latest]
    ELSE NoEntry

ReconcileServer(s) ==
    /\ serverCache[s].alive
    /\ serverCurrent[s]
    /\ LET new == [serverCache[s] EXCEPT
                      !.entry = BuildPluginStatus(serverCache[s], pluginCache)]
       IN  new # serverCache[s] /\ WriteServer(s, new)
    /\ AgeServerCopy(s)
    /\ UNCHANGED <<pluginVars, disk, pVars, upc, userver, uentry, utries, budget>>

-----------------------------------------------------------------------------
(* The user, the clock, the informers and the operator process.            *)

CreatePlugin ==
    /\ plugin.phase = "absent"
    /\ creations < MaxCreations
    /\ creations' = creations + 1
    /\ WritePlugin([NoPlugin EXCEPT !.phase = "active", !.uid = creations + 1])
    /\ UNCHANGED <<old, serverVars, disk, pVars, uVars, relabels, losses, updates, faults>>

\* kubectl delete: without a finalizer the object goes at once.
DeletePlugin ==
    /\ plugin.phase = "active"
    /\ WritePlugin(IF plugin.finalizer
                   THEN [plugin EXCEPT !.phase = "terminating"]
                   ELSE NoPlugin)
    /\ UNCHANGED <<old, serverVars, disk, pVars, uVars, budget>>

RelabelServer(s) ==
    /\ server[s].alive
    /\ relabels < MaxRelabels
    /\ relabels' = relabels + 1
    /\ WriteServer(s, [server[s] EXCEPT !.matched = ~@])
    /\ AgeServerCopy(s)
    /\ UNCHANGED <<pluginVars, disk, pVars, upc, userver, uentry, utries,
                   creations, losses, updates, faults>>

DeleteServer(s) ==
    /\ server[s].alive
    /\ losses < MaxServerLosses
    /\ losses' = losses + 1
    /\ WriteServer(s, NoServer)
    /\ AgeServerCopy(s)
    /\ UNCHANGED <<pluginVars, disk, pVars, upc, userver, uentry, utries,
                   creations, relabels, updates, faults>>

TimePasses(s) ==
    /\ s \in Requested(plugin) \ old
    /\ old' = old \cup {s}
    /\ UNCHANGED <<plugin, pluginCache, pluginCurrent, serverVars, disk, pVars,
                   uVars, budget>>

SyncPlugin ==
    /\ ~pluginCurrent
    /\ pluginCache' = plugin
    /\ pluginCurrent' = TRUE
    /\ UNCHANGED <<plugin, old, serverVars, disk, pVars, uVars, budget>>

SyncServer(s) ==
    /\ ~serverCurrent[s]
    /\ serverCache' = [serverCache EXCEPT ![s] = server[s]]
    /\ serverCurrent' = [serverCurrent EXCEPT ![s] = TRUE]
    /\ UNCHANGED <<server, pluginVars, disk, pVars, uVars, budget>>

\* The operator faults: everything in memory is lost, caches are rebuilt.
OperatorRestart ==
    /\ faults < MaxFaults
    /\ faults' = faults + 1
    /\ ForgetPlugin /\ ForgetServer
    /\ pluginCache' = plugin /\ pluginCurrent' = TRUE
    /\ serverCache' = server /\ serverCurrent' = [s \in Servers |-> TRUE]
    /\ UNCHANGED <<plugin, old, server, disk, creations, relabels, losses, updates>>

Environment ==
    \/ CreatePlugin \/ DeletePlugin
    \/ \E s \in Servers : RelabelServer(s) \/ DeleteServer(s) \/ TimePasses(s)
    \/ OperatorRestart

Next ==
    \/ PluginController
    \/ UpdateController
    \/ \E s \in Servers : ReconcileServer(s) \/ SyncServer(s)
    \/ SyncPlugin
    \/ Environment

Spec == Init /\ [][Next]_vars

\* The work queues keep calling Reconcile, informers catch up and time goes on.
\* Nothing is assumed of the user or of the update controller.
Fairness ==
    /\ WF_vars(PluginController)
    /\ WF_vars(SyncPlugin)
    /\ WF_vars(\E s \in Servers : ReconcileServer(s))
    /\ WF_vars(\E s \in Servers : SyncServer(s))
    /\ WF_vars(\E s \in Servers : TimePasses(s))

FairSpec == Spec /\ Fairness

-----------------------------------------------------------------------------
(* What the protocol promises.                                             *)

\* The Plugin object disappears only once every entry of the DeletionProgress
\* stored at the API server is done, although reconcileDelete decides on its own
\* copy (plugin_controller.go:768-777).
FinalizerAfterProgress ==
    [][plugin.phase = "terminating" /\ plugin'.phase = "absent"
          => Requested(plugin) = {}]_vars

\* Progress is never lost to a concurrent write: a finished entry stays finished
\* until the Plugin is gone, and a requested one is dropped only for a server
\* that no longer exists (cleanupDeletedServers, markJARAsDeleted).
ProgressNeverLost ==
    [][plugin'.phase # "absent" =>
          \A s \in Servers :
             /\ plugin.progress[s] = "deleted" => plugin'.progress[s] = "deleted"
             /\ plugin.progress[s] = "requested" /\ plugin'.progress[s] = "none"
                   => ~server[s].alive]_vars

\* The Plugin object with this uid is live: created and not deleted.
Live(k) == plugin.phase = "active" /\ plugin.uid = k

\* A JAR leaves a disk only for a Plugin that was deleted: the mark the rm obeys goes
\* back, through the statuses, caches and copies of three controllers, to a reconcileDelete
\* of an object that is not the live one (getPluginsToDelete, markPluginForDeletionOnServers).
\* It may be an earlier object of the same name.
RemovalFollowsDeletion ==
    [][\A s \in Servers : disk[s] # 0 /\ disk'[s] = 0
          => uentry.mark # 0 /\ ~Live(uentry.mark)]_vars

\* A JAR reaches a disk only under the protection of the finalizer: the user cannot make
\* the Plugin it was downloaded for vanish at once while a server has it, although its
\* name may have been used before (Reconcile stores the finalizer before the versions).
JARUnderFinalizer ==
    \A s \in Servers : Live(disk[s]) => plugin.finalizer

\* A deleted Plugin does not stay around for ever, whatever its servers do.
DeletionCompletes == plugin.phase = "terminating" ~> plugin.phase = "absent"

\* Once the Plugin is gone its entry leaves the status of every server.
EntryDropped ==
    \A s \in Servers :
        plugin.phase = "absent" ~> (~server[s].entry.listed \/ plugin.phase # "absent")

\* The promise of reconcileDelete: "It ensures JARs are deleted from all matched
\* servers before removing the finalizer."  Servers whose entry ran into the
\* timeout, were deleted or got new labels are left out.
FinalizerGuardsJARs ==
    [][plugin.phase = "terminating" /\ plugin'.phase = "absent" =>
          \A s \in Servers :
             plugin.progress[s] = "deleted" /\ s \notin old /\ server[s].alive
                => disk[s] = 0]_vars

-----------------------------------------------------------------------------
(* Why it holds: the inductive invariants of the proofs.                   *)

\* A copy whose resource version is current is equal to the stored object.
CopiesAgree ==
    /\ pluginCurrent => pluginCache = plugin
    /\ ppc # "idle" /\ pfresh => pcopy = plugin
    /\ \A s \in Servers : serverCurrent[s] => serverCache[s] = server[s]

\* Progress exists only on a Plugin being deleted; reconcileDelete only ever works
\* on such a Plugin, and reaches its last step only with every entry done.
ProgressShape ==
    /\ plugin.phase # "terminating" => ~HasProgress(plugin)
    /\ ppc # "idle" => pcopy.phase = "terminating"
    /\ ppc = "final" => Requested(pcopy) = {}

\* A server that a cache no longer knows does not exist any more.
LossesArePermanent ==
    \A s \in Servers : ~serverCache[s].alive => ~server[s].alive

\* A uid is used once: whatever mentions one mentions an object created by now, and the
\* stored Plugin is the one created last.
UidsOnce ==
    /\ plugin.phase # "absent" => plugin.uid = creations /\ creations # 0
    /\ plugin.uid <= creations
    /\ pluginCache.phase # "absent" => pluginCache.uid # 0
    /\ pluginCache.uid <= creations
    /\ pcopy.uid <= creations
    /\ uentry.mark <= creations
    /\ \A s \in Servers : /\ disk[s] <= creations
                          /\ server[s].entry.mark <= creations
                          /\ serverCache[s].entry.mark <= creations

\* No copy of any server status carries a mark of the live Plugin, and reconcileDelete does
\* not work on it.
MarksFollowDeletion ==
    /\ pluginCache.phase = "terminating" => ~Live(pluginCache.uid)
    /\ ppc # "idle" => ~Live(pcopy.uid) /\ pcopy.uid # 0
    /\ ~Live(uentry.mark)
    /\ \A s \in Servers : ~Live(server[s].entry.mark) /\ ~Live(serverCache[s].entry.mark)

\* Nothing is known or installed of a live Plugin before it has its finalizer: no version
\* in any copy of its status, no JAR of it on a disk.
NothingBeforeFinalizer ==
    plugin.phase = "active" /\ ~plugin.finalizer =>
       /\ plugin.latest = 0
       /\ pluginCache.uid = plugin.uid => pluginCache.latest = 0
       /\ \A s \in Servers : disk[s] # plugin.uid
=============================================================================
