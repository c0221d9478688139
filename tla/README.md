# TLA+ models of minecraft-operator

This directory holds a formal model of the operator: TLA+ modules, TLC configurations
that check them on small instances, and TLAPS proofs that hold for every instance.
`PROJECT.json` lists components, runs, mutants, the map from definitions to source
lines, findings, hazards and theorems.

## The system

minecraft-operator runs PaperMC servers on Kubernetes. Two custom resources carry all
persistent state, `PaperMCServer` and `Plugin`; four reconcilers and a web server in one
process read them through informer caches, which may lag, and write them back, which
fails with a conflict when the copy was outdated.

| Component | State it keeps | Operations | Talks to |
|---|---|---|---|
| Plugin controller (`plugin_controller.go`) | Plugin: finalizer, `status.deletionProgress`, versions, matched servers | add finalizer, sync metadata, `reconcileDelete` | sources of plugins; marks entries in server statuses; the update controller confirms in `deletionProgress` |
| PaperMCServer controller (`papermcserver_controller.go`, `gateway_routes.go`, `networkpolicy.go`, `config_injector.go`) | server status: desired/current version, plugins, available update; script ConfigMap, StatefulSet, Service, routes, NetworkPolicy | `doReconcile`: resolution of the version, `buildPluginStatus`, one `ensure...` after the other | Paper API, image registry, solver; StatefulSet controller; both other writers of the server |
| Update controller (`update_controller.go`) | cron jobs in memory; server status | cron condition, windows, `apply-now`, backup, JAR deletion and download, shutdown, image, pod, status retry | all other controllers, RCON, the pod |
| Backup controller (`backup_controller.go`, `pkg/backup`) | cron jobs, trigger times and mutexes in memory; `status.backup`; VolumeSnapshots | scheduled, manual and pre-update backups, retention | called by the update controller; RCON; CSI driver |
| Solver, versions (`pkg/solver`, `pkg/version`) | none | best plugin and Paper version | called by the PaperMCServer controller |
| Plugin clients (`pkg/plugins`) | a cache with a time limit | fetch versions, download JARs | plugin controller |
| Service, REST API, web UI (`pkg/service`, `pkg/api`, `pkg/webui`) | requests under way | create, read, update, delete, resolve, apply-now | API server through the manager's client |
| Event stream (`pkg/webui/sse.go`) | registered clients, channels | register, broadcast, unregister, shutdown | browsers |
| API types and webhooks (`api/v1beta1`) | none | validation | API server |
| CRD manager, RCON client, cron wrapper, metrics, main | none that a decision reads | | |

What is hard here, and is therefore what the properties are about:

* three controllers and the web server write one server and two controllers write one
  Plugin, each from a copy that may be old;
* an update is one long `Reconcile` (minutes) on a copy read at its start, and so is the
  download of a JAR;
* the finalizer must neither go too early nor stay for ever;
* `save-off` has to be paired with `save-on` over failures, restarts and crashes;
* mutexes, cron jobs and triggers live in memory, in maps that other reconciles edit;
* a reconcile ensures six kinds of objects one after the other and may stop after any;
* four strategies, three sources of versions and two notions of compatibility must agree
  on an image that exists and is not a downgrade;
* an answer is composed after the write, from a cache that has not seen it;
* goroutines that wait for each other over channels while the process ends.

`PROJECT.json` has the full list under "hazards", each with its line.

## Modules

### PluginDeletion

The life of one Plugin and its JAR on a set of servers: plugin controller
(`ppc`, `pcopy`, one action per step of `reconcileDelete`), update controller
(`upc`, `uentry`; deletion, download, restart, status retry) and the PaperMCServer
controller's `buildPluginStatus`. `plugin` and `server` are the objects at the API
server, `pluginCache`/`serverCache` the informers' copies. A copy is `fresh` or
`current` while it has the object's resource version; a write of an outdated one is
a conflict. A read through the cache and the conditional write that follows are one
step: the write fails exactly when the cache was behind. `old` says whose
`DeletionRequestedAt` is past `deletionTimeout`. When an update is due is left open.
A Plugin may be deleted and created again under its name. Each object has a `uid`; marks
and JARs carry the uid of the object they go back to, which the code does not keep: it is
history for the properties. A run starts without a Plugin or with one that is installed on
some of the servers. A server deleted and created again, and what is left on its volume,
are not modelled.

### BackupController

Backups of one server by two processes, the backup controller and the update
controller, which share `performBackup`. The entry of `backupMu` (`entry`) and the
mutex a process has fetched (`mu`) are two things, as in the code. `autosave` and
`pod` are the Minecraft process; `snaps` are the VolumeSnapshot objects, `listed` the
cached listing. Time is one bit: a backup record `covers` the pending trigger. A
deleted server takes the branch of a server whose backups are disabled. `beforeUpdate`
is an input. The conditions `BackupReady` and `BackupCronValid`, which no decision
reads, and ties between creation timestamps are left out. `lost` is a history
variable: a `save-on` that was due did not arrive.

### UpdateRollout

How a version reaches the pod: downgrade check and fallback, the StatefulSet's image
with its two writers, the pod, the status written by both controllers, the maintenance
window's cron job and its condition. Versions are numbers, 0 is none; `avail` is the set
of versions that have an image and that the plugins allow (what stands behind it is
VersionResolution): it grows and shrinks. A lookup may fail, and so may a step after the
StatefulSet is written (`InfrastructureFails`). A pre-update backup replaces the copy the
update works on (`RefreshedByBackup`). Whether an update is on offer, the time is inside
the window, the update delay is over or an `apply-now` annotation is too old are inputs.
Plugins and backups of an update are in the two modules above.

### VersionContract and VersionResolution

VersionContract is the abstract promise, over the image in use, the one on record as
desired (`promised`) and the one on record as current (`floor`): a new image is one the
registry has, of a version every matched plugin can run with and not below the floor; any
other write puts back what is promised; and the floor rises only to an image that is in
use. It does not promise that the image never goes back, because the code does not: see
below, on lost status writes.

VersionResolution is the code: `ResolveDesiredPaperVersion` with its four strategies,
`findLatestVersionFromTags`, the search over builds, `checkDowngrade`,
`checkCompatibility`, the solver with its exchange sort, patterns and delay filter,
`findAvailableUpdate`, `resolvePluginVersionForServer`, and the status write with
`serverStatusEqual`, which compares an offer without its times. Versions are sequences
of numbers, `Weight` is their order as `version.Compare` has it. The sort is the code's:
`SortDesc` makes a `Pass` for each entry, a pass an `Exchange` with each later entry
that ranks higher; ranks that are not positive stand for versions that do not parse and
are never exchanged. `Sublist` is the filter; `FirstAllowed` and
`FindCompatiblePluginVersion` are the linear searches. `api` lists builds and `images`
tags; a build is listed before its image is pushed. The parameters of `Reconcile` say
which lookup fails in it, or after which of its writes it is cut off: before the image,
between the image and the rest of the objects, or before the status (`Cuts`; a conflict
and a crash have the effect of the last). `offered` is a history variable: how long the present offer
has stood, whatever its time stamp says. The refinement mapping takes the image of the
StatefulSet as the abstract image and computes `allowed` from the plugins by a
definition of its own (`CanRun`), not by the code's functions.

### ServerInfra

One reconcile of the PaperMCServer controller as a sequence of steps (`pc`): the script
that copies configuration files, StatefulSet, Service, TCP and UDP routes, HTTPRoutes
one by one, NetworkPolicy, status. It works on `snap`, what it read; in between the user
edits the server or its plugins, calls fail, the operator crashes, others delete
objects, and the kubelet starts pods from whatever is there. What Go collects by ranging
over a map may come in any order: `Scripts[s]` is the set of scripts the code may
write. The script is compared with `scriptCopy`, the informer's copy, which may lag
(`seen`) and whose changes wake nobody; `misled` is history: the last comparison found an
outdated copy right. The writes that follow a comparison are refused on an outdated copy.
Every other read is taken as current: the objects behind them are watched, so a lagging
read costs another reconcile. A name of an HTTPRoute is the sequence of its parts: names
may coincide with those of another owner (`Foreign`). TCPRoute, UDPRoute and NetworkPolicy
may be there before, without an owner or with another one (`Before`). Of the StatefulSet only what depends on the server and its
plugins is kept (injection, volumes, secret, environment).

### PluginMetadata

`doReconcile` of the plugin controller: the fetch by source type, the cache of URL
metadata in the status (`URLCacheValid`), `CachedPluginClient`, repository errors
(available, orphaned, unavailable), the condition `VersionResolved`, matched servers,
`statusEqual`, `RequeueAfter` and conflicts. `Contents` says what may be found at a
reference; a JAR may lack a version or be too big, a project may have no version. Time
is counted in ticks, an age beyond the TTL is not told apart from an older one. A fetch
always counts as a change (`fetched`), since its time is compared to the nanosecond with
one stored to the second; whether the write is an event depends on the second.

### Admission and WebServer

Admission has the checks as operators: requests of the REST API, the validating webhooks,
and of the CRDs' schema the enums of strategy, source and protocol, the pattern of the
checksum, the range of ports, the names of endpoints and the length of hostnames (not the
enums of overwrite policy and service type, the patterns of the NetworkPolicy, the minimum
of retention). A text is told apart by the checks it passes. A build that is not given
(`None`) and a build of 0 are two things, as nil and 0 are in the code.

WebServer has the handlers: each checks its request, reads the object from the cache,
changes its copy (`MergeServer`, `ApplyNow`, ...), writes it and for creates and updates
reads it again for the answer. A field of the API that a handler takes and drops is in the
request's body and in `Dropped`. The API server checks resource version, schema and, if
they are enabled, webhooks; a delete waits for finalizers. Controllers, kubectl and other
handlers write as well; a call may fail before or after it took effect.

### EventStream

The broker of `/ui/events`, its handlers, the ticker and the shutdown, each its own
goroutine. A send on an unbuffered channel and its receipt are one step, possible only
while the broker is in its `select`. Clients name themselves by the time in nanoseconds
(`id`), so two may have one name: the later one replaces the earlier in the broker's map.
The message itself is left out.

### MC modules, proofs, mutants

The MC modules only define constants; MCVersionResolution also assumes that the sorted
lists consist of what they sort, which makes TLC compute each of them once. The `*Proofs` modules extend their model.
Operators marked "Mutant" are faulty variants used to show that each property can
fail; no specification uses them.

## Runs

| Run | Result | Question |
|---|---|---|
| `plugin_deletion` | holds | `FinalizerAfterProgress`: the object vanishes only when the stored progress is complete, though the decision is made on a copy. `ProgressNeverLost`: two writers never undo progress. `JARUnderFinalizer`: no JAR is installed for a live Plugin without its finalizer. `RemovalFollowsDeletion`: a JAR is removed only on a mark that goes back to a deleted Plugin. Both hold for a name that is used again |
| `plugin_deletion_live` | holds | `DeletionCompletes`, `EntryDropped` |
| `plugin_deletion_jar` | violated | "ensures JARs are deleted ... before removing the finalizer" (`plugin_controller.go:725`): a running update still downloads the JAR after its server was reported clean |
| `backup` | holds | `SerializedUntilEdited`, `AutoSaveRestored`, `RetentionKeepsNewest` |
| `backup_live` | holds | `TriggerServed`, `AnnotationRemoved` |
| `rollout` | holds | `DowngradeGuarded`: no status asks for less than it records as running. `VersionKept`: version and image are never taken away. `RolloutConverges`: pod, image and status agree in the end |
| `rollout_window` | violated | "gated by the UpdateReconciler during the maintenance window" (`papermcserver_controller.go:204`): the image is written at once |
| `version_resolution` | holds | `ImplementsContract`: the refinement of VersionContract, with lost writes. `AutoTakesTheBest`, `PluginAtItsBest`: the search over the sorted lists finds what a definition by quantifiers asks for; versions that only an override admits are excepted for auto. `UpdaterWaits`, `OfferTaken`: the update controller applies an offer not before its delay, and in the end, although each write of the status stamps it anew |
| `server_infra` | holds | `ScriptCarriesOut`: in any order of Go's maps the script leaves each file as configured. `RestMeansEnsured`: a server that is not queued has its objects as it wants them; no edit, failed step or crash in the middle of a reconcile is forgotten, and no template is left with a script that is gone; the script itself may be old where an outdated copy was compared. `Reachable`: ports of TCPRoute, HTTPRoutes, Service and NetworkPolicy agree. `OthersKept`: what becomes of objects of other owners. `Converges`: everything follows the server in the end |
| `plugin_metadata` | holds | `AvailableIsCurrent`: no metadata of an earlier source or checksum. `ReleaseDateKept`: a refresh does not restart the delay. `MatchedFollows`, `MetadataFollows`: the status catches up by itself |
| `web_requests` | holds | `AnswerTruthful`: a refusal has left nothing behind, a grant has stored the named fields, but for the `Dropped` ones; a 500 tells nothing. `OnlyNamedFields`: a write changes what its request names and nothing written between read and write is lost. `AdmittedIsUsable`: with webhooks, no sequence of partial updates leaves an object no controller can work with |
| `event_stream` | holds | `StreamEnds`: the stream of a client that is gone ends, and so does every stream when the server stops, except a handler that meets a broker that has stopped and one whose name another client took. `TypeOK` includes that the broker offers messages only to open channels |

### Bounds

Every bound is a CONSTANT named `Max...` used in the guard of the action it limits.

* Deletion: two servers (symmetric) are enough for one to be done while the other is
  pending; two creations let what is left of one Plugin meet the next of the same name;
  from a Plugin that is installed one update is enough to overlap its deletion, or the
  life of the next. Deleted and relabelled servers, failed calls and restarts are in the
  liveness run, with one server, one creation.
* Backup: two snapshots with `MaxCount = 1` make retention delete; one cron tick, one
  update, one edit, one fault and one crash give each pair of them every order.
* Rollout: two versions that may be released in any order, one edit, one update and one
  fault (a failed lookup, a failed step after the StatefulSet, a version withdrawn, a
  crash) make both writers of the image meet with different versions.
* Resolution: four builds of three versions, listed out of order, one of them without a
  third component; a plugin with a version that does not parse between others and one
  too young; one with an override, pinned or unmatched; every strategy, one edit and two
  faults: a status write that is lost and the lookup that fails after it.
* Infrastructure: four pairs of server and plugins between which all objects appear,
  change and disappear, with a shared port, overrides, a missing endpoint, a policy that
  cannot be built and a route whose name is taken, with and without routes and a policy
  that were there before; two edits, so that one may fall into a reconcile that another
  caused, or undo it before the informer has seen it, and one fault (a failed call, a
  crash or an object removed by others).
* Metadata: six sources over three references, two edits (away and back within a
  download), one change, one fault; `TTL = 0`, so that an entry is valid for the tick of
  its fetch only.
* Requests: two at a time out of every operation, bodies with dropped fields and a build
  of 0 among them, one other write, one fault, with and without webhooks.
* Event stream: two clients, channels of two, a queue of one: each can be full; they may share a name.

Deadlock is not checked where the system may rest: when the Plugin is gone or the bounded
events are used up (PluginDeletion, BackupController, VersionResolution), when all
requests are answered (WebServer), when the process has ended (EventStream).

### Fairness

Weak fairness of the reconcilers (work queues retry failed keys and resync; timers of
`RequeueAfter` fire), of the informers, of the goroutines that run backups and cron
callbacks, of the StatefulSet controller and the kubelet, and of time passing. For
VersionResolution: of a reconcile whose lookups succeed and of an update without a
window. For PluginMetadata: outages end. In EventStream `Register`, `Unregister` and
`StopBroker` are strongly fair: they compete in one `select`, and Go chooses at random
among the cases that are ready, so a case ready again and again is taken. Nothing is
assumed of users, releases, cron ticks, faults, or of updates starting. In
PluginDeletion nothing is assumed of the update controller at all: the timeout has to
do. Conflicts are finite because their causes are bounded; with conflicts without end no
promise of progress could be kept.

## Proofs

All theorems hold for every value of the constants that satisfies the ASSUMEs of the
modules.

* `PluginDeletionProofs`: `TypeCorrect`. `DeletionInvariant`: a copy whose resource
  version is current equals the stored object (`CopiesAgree`), progress exists only on
  a terminating Plugin and the last step of `reconcileDelete` is reached only with
  every entry done (`ProgressShape`), and a server missing from a cache is gone
  (`LossesArePermanent`). The decision on a copy is right because the write that
  follows is accepted only if the copy is still the object. From it `FinalizerSafe`
  and `ProgressSafe`. `MarksInvariant` is about a name that is used any number of times:
  no mark in any copy of a server goes back to the live object and `reconcileDelete` never
  works on it (`MarksFollowDeletion`), because a uid is used once (`UidsOnce`) and a deleted
  object is not live again. From it `RemovalSafe`. `FinalizerInvariant`: before an object
  has its finalizer no version of it is known to its status or a copy of that and no JAR
  of it is installed (`NothingBeforeFinalizer`), because metadata is only synced behind the
  finalizer; from it `JARsAreProtected`. `AdvanceSafe`: once a
  deletion has entries, what is left to do only shrinks and no clock is reset.
* `BackupControllerProofs`: `TypeCorrect` (with the lemma that three mutexes are enough
  for two processes). `AutoSaveSafe` from `AutoSaveInv`. `SerializedSafe` from
  `SerialInv`: without edits a running backup implies that backups are enabled in every
  copy, so nobody deletes the map's entry and all running backups hold the same mutex.
  `RetentionSafe` from `ListedOrDeleted`: what the informer still lists and the cluster no
  longer has was one too many in that same listing, for the listing is replaced only by
  the cluster's state. So what a listing spares is still there, and the lemma `Spared`
  counts it: the snapshots later than the newest deletable one are at least `MaxCount`.
* `UpdateRolloutProofs`: `TypeCorrect`. `DowngradeSafe`: desired >= current is kept copy
  by copy, by the check and by the fallback. `VersionSafe` from `VersionInv`: a copy that
  would be accepted agrees with the object on having a desired version, and an image is
  only written from a copy that has one. `AgreementSafe`: the states in which all agree are closed under every
  step but a pin of another version, a release and a withdrawal.
* `VersionResolutionProofs`: `Refinement`, that VersionResolution implements
  VersionContract. `ResolutionInv` says what holds although a status write may be lost
  after the image is out: what is on record exists in the registry, and the current version
  on record is above neither the desired one nor the image (`Recorded`). Each strategy is
  shown to return only images that exist and passed both checks (`Resolve...Sound`); a
  failed resolution falls back to the desired version on record, which is the contract's
  promise. `UpdaterWaitsSafe` follows from the last part of `ResolutionInv`: the age of a
  time stamp is at most the time the offer has stood. `ResolutionTypesOK` adds `TypesInv`, for which each strategy
  is shown to record one of the four reasons of a block. `SortEffect`: the exchange sort
  keeps exactly the entries of any list and leaves no entry behind one that ranks lower,
  wherever entries that do not parse stand. Both loops are recursive functions; that a
  function with such a definition exists is the lemma `Recursion`, and what holds after
  each round is shown by `RangeInduction`, which has a set in place of a predicate and
  rests on the least number of a set (`LeastNatural`, from the library's `WFMin`). The
  loop invariants are `AheadTo` (inner) and `SortedTo` (outer). With the linear search
  (`FirstPosition`) this gives `BestPaper` and `BestPlugin`, and from them `AutoIsBest` and
  `PluginsAtTheirBest`. Assumed are that a finite set of images has a newest one
  (`NewestAssumption`), that what Paper publishes parses and is not version 0
  (`ResolutionAssumption`), and that plugins have lists of versions (`ProfileAssumption`).
* `ServerInfraProofs`: `OthersSafe`, by the invariant that foreign HTTPRoutes are unchanged,
  hence not owned, hence neither written nor deleted, and step by step for the TCPRoute,
  the UDPRoute and the policy. `InfraInvariant` says for each step
  what the earlier ones have ensured: `MountInv` for the script (it is there when the
  StatefulSet is written with it, and if a step fails the server stays queued), from which
  `ScriptMountSafe` (`ScriptStaysMounted`: no template is left with a script that is gone,
  unless the last comparison was with an outdated copy);
  `EnsuredInv` for Service, routes and policy, from which `RoutesReachable`.
  `ScriptSafe` in two halves. What buildConfigScript returns asks only for files in effect:
  shown part by part (`OverrideAsked`, `OwnAsked`, `PluginAsked`, `UnmatchedAsked`), and for
  the loop over the plugins by `RangeInduction` (`ScriptAsked`). What a list of entries does
  is the loop invariant `Copied` (`RunEffect`): a file is the old one if every entry for it
  so far keeps it, else it comes from an entry that may replace it; so one of the entries
  for a path explains what is there (`RunObeys`). `ScriptInv` carries this through the
  reconcile.
  `RestSafe` needs two invariants: `PassedInv`, what each passed step has ensured for the
  copy the reconcile works on, and `RestInv`, that the copy is outdated only while the
  server is queued and that all is right for it when the reconcile is over and nothing is
  queued. `EnsuredSafe` is an action property, proved
  step by step: in a state where the objects are right, and none of their names is taken,
  each comparison finds nothing to do.
  Assumed are that lists in the spec are lists (`InfraAssumption`, `ListAssumption`: Go
  slices), and that a script and a template are not the absence of one
  (`ScriptAssumption`).
* `PluginMetadataProofs`: `MetadataTypesOK`, `AvailableStaysCurrent`, `ReleaseDatesStay`.
  `MetadataInv` has two parts beside the types. `CopyIsCurrent`: a reconcile that works on
  an edited Plugin leaves it in the queue, any other one works on the present source, and
  what it is about to write suits the source it read. `CopyIsOld`: while a reconcile
  fetches, its copy has the metadata of the status (the status has one writer here), and
  what it is about to write is, for the same JAR, not younger. `PluginStaysWatched` adds
  `CopyIsWatched`: the copy at "write" lists the present servers unless the Plugin is
  queued again or the reconcile failed, and a reconcile that sets no timer has a cause in
  the source (`FetchCause`). `NoneAssumption`: metadata is not nil.
* `WebServerProofs`: `AnswersSafe` from `AnswerInv`, which says for each step of a
  handler whether it has written, and `CarryInv`: from the moment a handler has made its
  object, that has the named fields, but for the dropped ones. `NamedFieldsSafe` from `CopyInv`: a resource version
  stands for one object, so a cached object or a handler's copy with the stored version
  is the stored object, or what the request makes of it; every write takes a version
  that no copy has (`WritesAreNew`). `WebTypesOK` and `AdmittedStaysUsable` from
  `ContentInv`: an object is stored only as a whole that passed admission, so partial
  updates from old copies need no case of their own; controllers write annotations,
  finalizers and deletion marks, which admission does not look at. Assumed are that the
  bodies of requests have fields of the API (`WebAssumption`) and that for each kind some
  manifest is admitted.
* `EventStreamProofs`: `StreamTypeCorrect`, with the invariant that no message is at hand
  unless the broker is sending: clients are taken off the list only between messages; and
  that a client which has not registered has an open channel.

Every invariant and every action property the passing runs check is proved, for all values
of the constants. Only model-checked are the liveness properties `DeletionCompletes`,
`EntryDropped`, `TriggerServed`, `AnnotationRemoved`, `RolloutConverges`, `OfferTaken`,
`Converges`, `MatchedFollows`, `MetadataFollows` and `StreamEnds`: fairness is out of the
prover's reach. Of five of them the safety part is proved: that rest means the goal is
reached or a timer is set (`RestSafe`, `PluginStaysWatched`), that the goal, once reached,
is kept (`EnsuredSafe`, `AgreementSafe`), and that the way to it only gets shorter
(`AdvanceSafe`). These statements and their inductive
invariants were checked by TLC on the instances of the runs before they were proved.

## What the models showed besides

Where the code does something a reader of the docs would not expect, the models follow
the code, and the properties say what is left. Two such cases are the runs that expect a
violation. The others:

* A Plugin created again under its name inherits the `pendingDeletion` mark of the old one
  (`papermcserver_controller.go:1517`), so its JAR is removed once although it is live;
  `DESIGN.md:374` has the mark "Set true when Plugin CRD is deleted".
  `RemovalFollowsDeletion` says that the mark goes back to some deletion.
* An image whose status write was refused or lost (`papermcserver_controller.go:155`) is
  replaced by the older version on record when the next lookup fails (`:233`), though the
  operator "does not perform downgrades" (`update-strategies.md:933`). `ImplementsContract`
  and `DowngradeGuarded` are about the versions on record.
* `updateDelay` holds back the update controller only. The image is written by the
  reconcile that resolves it (`papermcserver_controller.go:512`), against
  `papermcserver.md:68` and `update-strategies.md:114, 142, 753`. Hence `UpdaterWaits`.
* The solver never looks at `compatibilityOverride` (`simple_solver.go:191`), though
  `solver.md:65` and `DESIGN.md:675, 742` have it count: under `auto` a version that only
  an override admits is not found, and one that an override excludes is found and then
  refused. `AutoTakesTheBest` judges by overrides and excepts the former (`AlsoListed`).
* The script ConfigMap is compared with a cached copy (`papermcserver_controller.go:307`)
  and not watched (`:2036`): an edit and its reversal that overtake the informer leave the
  script of the edit in place until the next resync. `RestMeansEnsured` excepts it.
* The UDPRoute leads to port 25565 (`gateway_routes.go:213`), which Service and
  NetworkPolicy have for TCP only (`papermcserver_controller.go:820`), though
  `papermcserver.md:203, 233` has it carry the query protocol. `Reachable` excepts it.
* A TCPRoute, UDPRoute or NetworkPolicy of another owner is deleted, without a look at the
  owner, by a server that wants none of the name (`gateway_routes.go:79, 135`,
  `networkpolicy.go:55`); one that is wanted fails every reconcile. `OthersKept` says so.
* HTTPRoutes are named by plugin and endpoint joined with `-` (`gateway_routes.go:532`), an
  empty prefix becomes `/` (`:517`) and hosts are written as given: the webhook, which
  compares parts and lower-case hosts, admits two routes of one name or address.
  `AdmittedIsUsable` compares what is written literally.
* The webhooks test a build for nil, so an update stores a build of 0 and `build-pin` with
  it is admitted (`papermcserver_webhook.go:106`, `servers.go:318`); `openapi.yaml` has
  `minimum: 1`. A create takes 0 for none.
* The API takes fields it drops, with 200 or 201: checksum and override in the create of a
  plugin (`handlers.go:937`; `openapi.yaml:1275, 1362`), `pluginConfigs` and `serverConfigs`
  in the update of a server (`openapi.yaml:1027`), source, files and override in the update
  of a plugin (`:1282-1312`). `Dropped` lists them.
* A 500 may follow a write that was carried out: the object is read back from a cache that
  has not seen it (`handlers.go:184`).
* Each fetch from Hangar is written to the status and queues the Plugin again, changed or
  not (`plugin_controller.go:269, 570, 666`); the in-memory cache ends the chain.
* Two clients of the event stream that connect in one nanosecond share an entry
  (`sse.go:161`); one of them gets no events and, at shutdown, no end.
* Switching backups off and on drops a mutex that is held (`backup_controller.go:124`),
  though backups are "serialized via a per-server mutex" (`:322`): hence
  `SerializedUntilEdited`.
* `save-on` is sent when the VolumeSnapshot object exists, before the driver has cut the
  volume (`snapshotter.go:93`; `hooks.go:40` "prevent writes during snapshot").
* A window that was invalid stays rejected after it was repaired or disabled, by the stored
  `CronScheduleValid=False` (`update_controller.go:116`, against the comment at `:114`).
* A create without `checkCron` passes the API's checks and is refused by the webhook, with
  500; an empty `updateDelay` is accepted on create and is an error on update.
* A Hangar project without versions is not polled again until the Plugin or a server
  changes (`plugin_controller.go:183`): `MetadataFollows` assumes there is always one.
* A failed check of one image makes `pin` settle for an older build of the version
  (`papermcserver_controller.go:1256`); going back to an older version by `pin` is refused
  by `checkDowngrade`.
* The environment of the container (RCON) is not compared by `ensureStatefulSet`:
  `Synced` leaves it out.
* A route whose name belongs to another owner fails every reconcile before the NetworkPolicy
  is reached (`gateway_routes.go:98, 406`): `Denied` excepts what comes after it.
* A handler that ends after the broker has stopped waits until the process exits
  (`sse.go:109`): `StreamEnds` excepts it.
* A backup whose record is rounded to the second of its trigger is repeated, and a lagging
  cache may show a `backup-now` annotation that is gone: one request, two backups.
* A cron tick that falls into a running backup is consumed with it
  (`backup_controller.go:214`, `:230` delete whatever trigger is there), though the backup
  began before the tick: `TriggerServed` counts the tick as served then.

## Not modelled

Pure I/O and rendering: the HTTP side of the clients, JAR parsing, listing handlers and
pages, templates, metrics, main and its flags. Generated code (deep copies, the OpenAPI
router, templ output). Thin layers over libraries: cron, RCON, label selectors. The CRD
manager applies manifests once at start and keeps no state. Labels, probes, resources and
egress rules of the objects, which depend on nothing that changes. These parts either
change no state or have none a decision reads; their outcomes are inputs of the actions
that call them.

## Plan

Done: all modules, runs and proofs above. Left, should the code grow in these directions:

1. An abstract mutual exclusion that BackupController implements until `spec.backup` is
   edited; so far `SerializedSafe` states it as an invariant.
2. The safety part of the remaining liveness properties (backups, the offered update, the
   event stream).
