------------------------------ MODULE ServerInfra ------------------------------
(***************************************************************************)
(* The objects the papermcserver controller keeps for a server: the script *)
(* that copies configuration files, the StatefulSet with the init          *)
(* container that runs it, the Service, the Gateway routes and the         *)
(* NetworkPolicy.  A reconcile reads the server and its matched plugins    *)
(* once and then ensures one object after the other; any call to the API   *)
(* server may fail, the operator may crash, the user may edit the server   *)
(* and others may remove objects between two steps.                        *)
(*                                                                         *)
(* Objects are read from the informers' copies.  A watched object that     *)
(* changes puts the server back into the queue once the copy has caught    *)
(* up, so the lag of its copy is left out; the script's ConfigMap is not   *)
(* watched, and its copy is modelled.                                      *)
(***************************************************************************)
EXTENDS Integers, SequencesExt

CONSTANTS
    Specs,        \* servers with their matched plugins, as the user may write them
    ConfigMaps,   \* the ConfigMaps the user may create
    None,         \* no object, no directory, no condition
    Foreign,      \* HTTPRoutes of another owner: function from names
    Before,       \* whose TCPRoute, UDPRoute and NetworkPolicy may be there before
    MaxEdits,     \* bound: edits of the server, of plugins, of ConfigMaps
    MaxFaults     \* bound: failed calls, crashes, objects removed by others

Elems(s) == {s[i] : i \in DOMAIN s}

ASSUME InfraAssumption ==
    /\ MaxEdits \in Nat /\ MaxFaults \in Nat
    /\ \A n \in DOMAIN Foreign : Foreign[n].own = FALSE
    /\ None \notin {"ours", "loose", "theirs"}
    /\ Before \subseteq [{"tcp", "udp", "policy"} -> {None, "loose", "theirs"}]
    /\ \A s \in Specs : LET rs == s.server.gateway.http
                       IN  Len(rs) \in Nat /\ DOMAIN rs = 1..Len(rs)

\* Go slices
ASSUME ListAssumption ==
    \A s \in Specs :
        /\ s.server.overrides \in Seq(Elems(s.server.overrides))
        /\ s.server.files \in Seq(Elems(s.server.files))
        /\ s.plugins \in Seq(Elems(s.plugins))
        /\ \A p \in Elems(s.plugins) : p.configs \in Seq(Elems(p.configs))

VARIABLES
    spec,         \* the server and its matched plugins
    cms,          \* ConfigMaps that exist
    script,       \* the script ConfigMap: None or <<sequence of entries, rcon>>
    scriptCopy,   \* the informer's copy of it
    seen,         \* ... is not outdated
    misled,       \* history: the script was last left alone on the word of an outdated copy
    sts,          \* the pod template of the StatefulSet, or None
    service,      \* the ports of the Service, or None
    routes,       \* "tcp", "udp" -> the owner of the route, or None
    http,         \* HTTPRoutes: function from names to records
    policy,       \* the owner of the NetworkPolicy and the ports it opens, or None
    cond,         \* conditions ConfigInjectionReady and HTTPRouteConfigValid
    pc,           \* the step of the reconcile, or "idle"
    snap,         \* what the reconcile read
    mem,          \* the conditions in its copy of the server
    err,          \* the reconcile has failed
    stale,        \* the server was written since the reconcile read it
    queued,       \* the server is in the work queue
    pod,          \* the template the running pod was made from, or None
    files,        \* the data volume: function from targets to contents
    edits, faults,
    drift         \* objects removed by others so far

bounds == <<edits, faults, drift>>
scripts == <<script, scriptCopy, seen, misled>>
objects == <<scripts, sts, service, routes, http, policy>>
memory == <<pc, snap, mem, err, stale, queued>>
vars == <<spec, cms, objects, cond, memory, pod, files, bounds>>

-----------------------------------------------------------------------------
(* What a server asks for.                                                 *)

\* buildPluginConfigEntry, collectServerConfigEntries
Entry(dir, cfg) == [target |-> <<dir, cfg.path>>, from |-> cfg.cm, keep |-> cfg.keep]

\* buildServerOverridesMap: by plugin, then by path; a later one replaces an earlier.
Overrides(s, name) ==
    LET all == s.server.overrides
        of == {i \in DOMAIN all : all[i].plugin = name}
    IN  {all[i] : i \in {j \in of : \A k \in of : k > j => all[k].path # all[j].path}}

\* Go ranges over a map in any order.
AnyOrder(S) == SetToSeqs(S)

\* Mutant: the default of the plugin is taken although the server overrides it.
DefaultsFirst(s, p) ==
    LET over == Overrides(s, p.name)
        defaults == [i \in DOMAIN p.configs |-> Entry(p.dir, p.configs[i])]
        extra == {o \in over : \A c \in Elems(p.configs) : c.path # o.path}
    IN  {defaults \o [i \in DOMAIN t |-> Entry(p.dir, t[i])] : t \in AnyOrder(extra)}

\* resolvePluginConfigs: a plugin's own files, each replaced by the server's override
\* of the same path, and then the overrides of other paths.
ResolvePluginConfigs(s, p) ==
    LET over == Overrides(s, p.name)
        effective(c) == IF \E o \in over : o.path = c.path
                        THEN CHOOSE o \in over : o.path = c.path ELSE c
        own == [i \in DOMAIN p.configs |-> Entry(p.dir, effective(p.configs[i]))]
        extra == {o \in over : \A c \in Elems(p.configs) : c.path # o.path}
    IN  {own \o [i \in DOMAIN t |-> Entry(p.dir, t[i])] : t \in AnyOrder(extra)}

\* collectPluginConfigEntries for one plugin: one without a directory or without files
\* contributes the overrides alone.
PluginEntries(s, p) ==
    IF p.dir = None \/ p.configs = <<>>
    THEN {[i \in DOMAIN t |-> Entry(p.dir, t[i])] : t \in AnyOrder(Overrides(s, p.name))}
    ELSE ResolvePluginConfigs(s, p)

\* collectUnmatchedOverrideEntries: the name stands in for the directory.
UnmatchedEntries(s) ==
    LET unmatched == {o \in Elems(s.server.overrides) :
                        /\ o \in Overrides(s, o.plugin)
                        /\ \A p \in Elems(s.plugins) : p.name # o.plugin}
    IN  {[i \in DOMAIN t |-> Entry(t[i].plugin, t[i])] : t \in AnyOrder(unmatched)}

\* append: a list of A and behind it a list of B
Then(A, B) == {a \o b : a \in A, b \in B}

\* buildConfigScript: every script the code may write for s.
BuildConfigScript(s) ==
    LET upto[i \in 0..Len(s.plugins)] ==
            IF i = 0 THEN {<<>>} ELSE Then(upto[i - 1], PluginEntries(s, s.plugins[i]))
        plugins == upto[Len(s.plugins)]
        own == [i \in DOMAIN s.server.files |-> Entry(<<"server">>, s.server.files[i])]
    IN  {<<e, s.server.rcon>> : e \in Then(Then(plugins, UnmatchedEntries(s)), {own})}

Scripts == [s \in Specs |-> BuildConfigScript(s)]

HasScript(s) == \A t \in Scripts[s] : t[1] # <<>> \/ t[2] # 0

\* sortedConfigMapRefs: the ConfigMaps to mount.
Mounted(s) == UNION {{e.from : e \in Elems(t[1])} : t \in Scripts[s]}

\* collectReferencedConfigMaps: defaults that are overridden are counted, too.
ReferencedConfigMaps(s) ==
    (UNION {{c.cm : c \in Elems(p.configs)} : p \in Elems(s.plugins)})
        \cup {o.cm : o \in Elems(s.server.overrides)}
        \cup {c.cm : c \in Elems(s.server.files)}

\* buildPodSpec, buildConfigInjection, buildConfigVolumes, buildEnvironmentVariables:
\* the parts of the template that depend on the server.
Template(s) ==
    [inject |-> HasScript(s), volumes |-> IF HasScript(s) THEN Mounted(s) ELSE {},
     secret |-> HasScript(s) /\ s.server.rcon # 0, env |-> s.server.rcon]

\* None is neither a script nor a template.
ASSUME ScriptAssumption == \A s \in Specs : None \notin Scripts[s] /\ Template(s) # None

MinecraftPort == 25565

Proto(ep) == IF ep.proto = "UDP" THEN "UDP" ELSE "TCP"

\* buildServicePorts: one entry for each port and protocol.
ServicePorts(s) ==
    {<<MinecraftPort, "TCP">>}
        \cup (IF s.server.rcon # 0 THEN {<<s.server.rcon, "TCP">>} ELSE {})
        \cup (UNION {{<<ep.port, Proto(ep)>> : ep \in Elems(p.endpoints)} : p \in Elems(s.plugins)})

\* Mutant: every endpoint is taken for a TCP one.
PolicyPortsTCP(s) ==
    {<<MinecraftPort, "TCP">>}
        \cup (UNION {{<<ep.port, "TCP">> : ep \in Elems(p.endpoints)} : p \in Elems(s.plugins)})
        \cup (IF s.server.rcon # 0 THEN {<<s.server.rcon, "TCP">>} ELSE {})

\* buildNetworkPolicyIngress, with a deduplication of its own
PolicyPorts(s) ==
    {<<MinecraftPort, "TCP">>}
        \cup (UNION {{<<ep.port, Proto(ep)>> : ep \in Elems(p.endpoints)} : p \in Elems(s.plugins)})
        \cup (IF s.server.rcon # 0 THEN {<<s.server.rcon, "TCP">>} ELSE {})

\* findHTTPEndpoint
HTTPEndpoints(s, h) ==
    UNION {{ep \in Elems(p.endpoints) : ep.name = h.endpoint /\ ep.proto = "HTTP"} :
            p \in {q \in Elems(s.plugins) : q.name = h.plugin}}

\* A name is the sequence of its parts between dashes: two pairs may give one name.
RouteName(h) == h.plugin \o h.endpoint

\* buildDesiredHTTPRoutes: of two entries with one name the later counts.
DesiredHTTPRoutes(s) ==
    LET gw == s.server.gateway
        valid == IF gw.enabled THEN {i \in DOMAIN gw.http : HTTPEndpoints(s, gw.http[i]) # {}}
                 ELSE {}
        last(n) == CHOOSE i \in valid : /\ RouteName(gw.http[i]) = n
                                        /\ \A j \in valid : RouteName(gw.http[j]) = n => j <= i
    IN  [n \in {RouteName(gw.http[i]) : i \in valid} |->
            LET h == gw.http[last(n)]
            IN  [host |-> h.host, own |-> TRUE,
                 port |-> (CHOOSE ep \in HTTPEndpoints(s, h) : TRUE).port]]

\* setHTTPRouteCondition
HTTPCondition(s) ==
    LET gw == s.server.gateway
    IN  IF gw.http = <<>> THEN None
        ELSE IF gw.enabled /\ \E i \in DOMAIN gw.http : HTTPEndpoints(s, gw.http[i]) = {}
             THEN "false" ELSE "true"

WantsRoute(s, k) == s.server.gateway.enabled /\ s.server.gateway[k]

-----------------------------------------------------------------------------
(* The reconcile.                                                          *)

NoConditions == [config |-> None, http |-> None]

Init ==
    /\ spec \in Specs
    /\ cms = ConfigMaps
    /\ script = None /\ scriptCopy = None /\ seen = TRUE /\ misled = FALSE
    /\ sts = None /\ service = None
    /\ \E b \in Before :
        /\ routes = [k \in {"tcp", "udp"} |-> b[k]]
        /\ policy = IF b["policy"] = None THEN None ELSE [owner |-> b["policy"], ports |-> {}]
    /\ http = Foreign
    /\ cond = NoConditions /\ mem = NoConditions
    /\ pc = "idle" /\ snap = spec
    /\ err = FALSE /\ stale = FALSE /\ queued = TRUE
    /\ pod = None /\ files = [t \in {} |-> None]
    /\ edits = 0 /\ faults = 0 /\ drift = 0

Goto(step) == pc' = step /\ UNCHANGED <<snap, err, stale, queued>>

\* The server and its matched plugins are read.
Start ==
    /\ pc = "idle" /\ queued
    /\ pc' = "script" /\ queued' = FALSE
    /\ snap' = spec /\ mem' = cond /\ stale' = FALSE /\ err' = FALSE
    /\ UNCHANGED <<spec, cms, objects, cond, pod, files, bounds>>

\* A call of the present step fails: the rest of the steps is left out.
CallFails ==
    /\ pc \notin {"idle", "status"} /\ faults < MaxFaults
    /\ faults' = faults + 1
    /\ pc' = "status" /\ err' = TRUE
    /\ UNCHANGED <<spec, cms, objects, cond, snap, mem, stale, queued, pod, files, edits, drift>>

\* validateReferencedConfigMaps and the removal of a stale condition
ConfigCondition(s) ==
    CASE ~HasScript(s) -> None
      [] HasScript(s) /\ ReferencedConfigMaps(s) = {} -> mem.config
      [] HasScript(s) /\ ReferencedConfigMaps(s) # {} ->
            IF ReferencedConfigMaps(s) \subseteq cms THEN "true" ELSE "false"

\* The script ConfigMap the server is to have.
ScriptWanted(s) == IF HasScript(s) THEN Scripts[s] ELSE {None}

\* Create is refused if the ConfigMap is there, Update if the copy is outdated.
Accepted(t) == t = None \/ (IF scriptCopy = None THEN script = None ELSE seen)

\* ensureConfigScriptConfigMap, deleteOrphanedConfigScriptConfigMap: what is to be done is
\* judged by the informer's copy.  The script goes before the StatefulSet stops mounting it.
EnsureConfigScript ==
    /\ pc = "script"
    /\ \E t \in ScriptWanted(snap) :
        \/ /\ scriptCopy = t
           /\ misled' = ~seen
           /\ UNCHANGED <<script, scriptCopy, seen>>
        \/ /\ scriptCopy # t /\ Accepted(t)
           /\ script' = t
           /\ seen' = FALSE /\ misled' = FALSE
           /\ UNCHANGED scriptCopy
    /\ mem' = [mem EXCEPT !.config = ConfigCondition(snap)]
    /\ Goto("sts")
    /\ UNCHANGED <<spec, cms, sts, service, routes, http, policy, cond, pod, files, bounds>>

ScriptRefused ==
    /\ pc = "script"
    /\ \E t \in ScriptWanted(snap) : scriptCopy # t /\ ~Accepted(t)
    /\ mem' = [mem EXCEPT !.config = ConfigCondition(snap)]
    /\ pc' = "status" /\ err' = TRUE
    /\ UNCHANGED <<spec, cms, objects, cond, snap, stale, queued, pod, files, bounds>>

\* Mutant: only volumes that are missing are noticed.
VolumeMissing(old, new) ==
    old.inject # new.inject \/ old.secret # new.secret \/ ~(new.volumes \subseteq old.volumes)

\* InitContainers, volumesChanged: what a change of the StatefulSet is judged by.
TemplateChanged(old, new) ==
    [old EXCEPT !.env = 0] # [new EXCEPT !.env = 0]

EnsureStatefulSet ==
    /\ pc = "sts"
    /\ sts' = IF sts = None THEN Template(snap)
              ELSE IF TemplateChanged(sts, Template(snap)) THEN Template(snap) ELSE sts
    /\ Goto("service")
    /\ UNCHANGED <<spec, cms, scripts, service, routes, http, policy, cond, mem, pod, files, bounds>>

EnsureService ==
    /\ pc = "service"
    /\ service' = ServicePorts(snap)
    /\ Goto("tcp")
    /\ UNCHANGED <<spec, cms, scripts, sts, routes, http, policy, cond, mem, pod, files, bounds>>

\* reconcileTCPRoute, reconcileUDPRoute: a route that is not wanted is deleted whoever
\* owns it, one that nobody owns is adopted.
ReconcileRoute(k, next) ==
    /\ pc = k
    /\ WantsRoute(snap, k) => routes[k] # "theirs"
    /\ routes' = [routes EXCEPT ![k] = IF WantsRoute(snap, k) THEN "ours" ELSE None]
    /\ Goto(next)
    /\ UNCHANGED <<spec, cms, scripts, sts, service, http, policy, cond, mem, pod, files, bounds>>

ReconcileTCPRoute == ReconcileRoute("tcp", "udp")
ReconcileUDPRoute == ReconcileRoute("udp", "listed")

\* SetControllerReference fails on a route that has another controller.
RouteRefused ==
    /\ pc \in {"tcp", "udp"}
    /\ WantsRoute(snap, pc) /\ routes[pc] = "theirs"
    /\ pc' = "status" /\ err' = TRUE
    /\ UNCHANGED <<spec, cms, objects, cond, snap, mem, stale, queued, pod, files, bounds>>

\* buildDesiredHTTPRoutes and the condition, before any route is written
JudgeHTTPRoutes ==
    /\ pc = "listed"
    /\ mem' = [mem EXCEPT !.http = HTTPCondition(snap)]
    /\ Goto("http")
    /\ UNCHANGED <<spec, cms, objects, cond, pod, files, bounds>>

\* Mutant: the owner is not looked at.
AnyOwner(n) == TRUE

\* listOwnedHTTPRoutes, isOwnedBy
Owned(n) == http[n].own

Differing(s) ==
    {n \in DOMAIN DesiredHTTPRoutes(s) :
        n \notin DOMAIN http \/ http[n] # DesiredHTTPRoutes(s)[n]}

Orphaned(s) == {n \in DOMAIN http : Owned(n) /\ n \notin DOMAIN DesiredHTTPRoutes(s)}

\* applyHTTPRouteChanges, updateHTTPRouteIfChanged: one route at a time, in any order.
\* What exists is looked up among the routes the server owns.
ApplyHTTPRoute ==
    /\ pc = "http"
    /\ \E n \in Differing(snap) :
        /\ n \in DOMAIN http => Owned(n)
        /\ http' = [m \in DOMAIN http \cup {n} |->
                        IF m = n THEN DesiredHTTPRoutes(snap)[n] ELSE http[m]]
    /\ UNCHANGED <<spec, cms, scripts, sts, service, routes, policy, cond, memory, pod, files, bounds>>

\* The name belongs to a route of another owner: Create is refused, and the reconcile
\* ends before the NetworkPolicy.
HTTPRouteRefused ==
    /\ pc = "http"
    /\ \E n \in Differing(snap) : n \in DOMAIN http /\ ~Owned(n)
    /\ pc' = "status" /\ err' = TRUE
    /\ UNCHANGED <<spec, cms, objects, cond, snap, mem, stale, queued, pod, files, bounds>>

\* deleteOrphanedHTTPRoutes, once the wanted ones are there
DeleteOrphanedHTTPRoute ==
    /\ pc = "http" /\ Differing(snap) = {}
    /\ \E n \in Orphaned(snap) :
        http' = [m \in DOMAIN http \ {n} |-> http[m]]
    /\ UNCHANGED <<spec, cms, scripts, sts, service, routes, policy, cond, memory, pod, files, bounds>>

HTTPRoutesDone ==
    /\ pc = "http" /\ Differing(snap) = {} /\ Orphaned(snap) = {}
    /\ Goto("policy")
    /\ UNCHANGED <<spec, cms, objects, cond, mem, pod, files, bounds>>

Theirs == policy # None /\ policy.owner = "theirs"

\* ensureNetworkPolicy: a policy that is not wanted is deleted whoever owns it.  Sources or
\* destinations that cannot be built and a policy of another controller are errors, each
\* time.
EnsureNetworkPolicy ==
    /\ pc = "policy"
    /\ pc' = "status"
    /\ LET np == snap.server.policy
       IN  IF np.enabled /\ (~np.valid \/ Theirs)
           THEN err' = TRUE /\ UNCHANGED policy
           ELSE /\ err' = FALSE
                /\ policy' = IF np.enabled THEN [owner |-> "ours", ports |-> PolicyPorts(snap)]
                             ELSE None
    /\ UNCHANGED <<spec, cms, scripts, sts, service, routes, http, cond, snap, mem, stale, queued,
                   pod, files, bounds>>

\* Mutant: an error is logged and not returned.
RequeueNever(failed) == FALSE

\* A reconcile that returns an error is tried again.
Requeue(failed) == failed

\* The status is written, failed reconcile or not; a server written since it was read is
\* a conflict, and the conditions are lost.
WriteStatus ==
    /\ pc = "status"
    /\ pc' = "idle"
    /\ cond' = IF stale THEN cond ELSE mem
    /\ queued' = (queued \/ Requeue(err \/ stale))
    /\ UNCHANGED <<spec, cms, objects, snap, mem, err, stale, pod, files, bounds>>

\* RequeueAfter: 15 minutes, or 30 seconds while ConfigMaps are missing.
Resync ==
    /\ pc = "idle" /\ ~queued
    /\ queued' = TRUE
    /\ UNCHANGED <<spec, cms, objects, cond, pc, snap, mem, err, stale, pod, files, bounds>>

\* A new leader lists every server and every ConfigMap.
Crash ==
    /\ pc # "idle" /\ faults < MaxFaults
    /\ faults' = faults + 1
    /\ pc' = "idle" /\ queued' = TRUE
    /\ scriptCopy' = script /\ seen' = TRUE
    /\ UNCHANGED <<script, misled, sts, service, routes, http, policy>>
    /\ UNCHANGED <<spec, cms, cond, snap, mem, err, stale, pod, files, edits, drift>>

-----------------------------------------------------------------------------
(* The cluster and the user.                                               *)

\* renderConfigScript: a file is copied unless it is to be kept and is there.
Copy(f, e) ==
    IF e.keep /\ e.target \in DOMAIN f THEN f
    ELSE [t \in DOMAIN f \cup {e.target} |-> IF t = e.target THEN e.from ELSE f[t]]

\* The entries of a script, one after the other
Run(entries, before) ==
    LET upto[i \in 0..Len(entries)] ==
            IF i = 0 THEN before ELSE Copy(upto[i - 1], entries[i])
    IN  upto[Len(entries)]

\* The kubelet: the init container runs the script of the moment over the volumes of
\* the template, and stops at a file it does not find.
PodStarts ==
    /\ sts # None /\ pod # sts
    /\ sts.inject =>
        /\ script # None /\ sts.volumes \subseteq cms
        /\ \A e \in Elems(script[1]) : e.from \in sts.volumes
    /\ pod' = sts
    /\ files' = IF sts.inject THEN Run(script[1], files) ELSE files
    /\ UNCHANGED <<spec, cms, objects, cond, memory, bounds>>

\* The user edits the server or a plugin: both are watched, the plugin through
\* findServersForPlugin, which sees it as it was and as it is.
EditSpec ==
    /\ edits < MaxEdits
    /\ edits' = edits + 1
    /\ \E s \in Specs \ {spec} :
        /\ spec' = s
        /\ stale' = (stale \/ s.server # spec.server)
    /\ queued' = TRUE
    /\ UNCHANGED <<cms, objects, cond, pc, snap, mem, err, pod, files, faults, drift>>

EditConfigMaps ==
    /\ edits < MaxEdits
    /\ edits' = edits + 1
    /\ cms' = IF cms = {} THEN ConfigMaps ELSE {}
    /\ UNCHANGED <<spec, objects, cond, memory, pod, files, faults, drift>>

\* The informer's copy of the script catches up; nobody is told.
SyncScript ==
    /\ ~seen
    /\ scriptCopy' = script /\ seen' = TRUE
    /\ UNCHANGED <<script, misled, sts, service, routes, http, policy>>
    /\ UNCHANGED <<spec, cms, cond, memory, pod, files, bounds>>

\* SetupWithManager: all the objects but the script are watched.
Drift ==
    /\ faults < MaxFaults
    /\ faults' = faults + 1 /\ drift' = drift + 1
    /\ \/ script # None /\ script' = None /\ seen' = FALSE
          /\ UNCHANGED <<scriptCopy, misled, sts, service, routes, http, policy, queued>>
       \/ service # None /\ service' = None /\ queued' = TRUE
          /\ UNCHANGED <<scripts, sts, routes, http, policy>>
       \/ policy # None /\ ~Theirs /\ policy' = None /\ queued' = TRUE
          /\ UNCHANGED <<scripts, sts, service, routes, http>>
    /\ UNCHANGED <<spec, cms, cond, pc, snap, mem, err, stale, pod, files, edits>>

Steps ==
    \/ Start \/ EnsureConfigScript \/ ScriptRefused \/ EnsureStatefulSet \/ EnsureService
    \/ ReconcileTCPRoute \/ ReconcileUDPRoute \/ RouteRefused
    \/ JudgeHTTPRoutes \/ ApplyHTTPRoute \/ HTTPRouteRefused
    \/ DeleteOrphanedHTTPRoute \/ HTTPRoutesDone
    \/ EnsureNetworkPolicy \/ WriteStatus

Next ==
    \/ Steps \/ Resync \/ CallFails \/ Crash
    \/ SyncScript \/ PodStarts \/ EditSpec \/ EditConfigMaps \/ Drift

Spec == Init /\ [][Next]_vars

\* The work queue is served, its timers fire, watches deliver, the kubelet goes on trying.
FairSpec ==
    /\ Spec
    /\ WF_vars(Steps) /\ WF_vars(Resync) /\ WF_vars(SyncScript) /\ WF_vars(PodStarts)

-----------------------------------------------------------------------------
(* What the controller promises.                                           *)

\* The files in effect for a target: the last override of the server for a plugin whose
\* directory it is in, a plugin's own file that the server does not override, a file of
\* the server.  There are several only where plugins share a directory or a list names a
\* path twice.
InEffect(s, t) ==
    LET all == s.server.overrides
        given(name, path) == {i \in DOMAIN all : all[i].plugin = name /\ all[i].path = path}
        dirs(name) == {p.dir : p \in {q \in Elems(s.plugins) : q.name = name}}
        home(name) == IF dirs(name) = {} THEN {name} ELSE dirs(name)
        over == {all[i] : i \in {j \in DOMAIN all :
                    /\ t[2] = all[j].path /\ t[1] \in home(all[j].plugin)
                    /\ \A k \in given(all[j].plugin, all[j].path) : k <= j}}
        own == UNION {{c \in Elems(p.configs) : /\ <<p.dir, c.path>> = t
                                               /\ given(p.name, c.path) = {}} :
                        p \in Elems(s.plugins)}
        level == {c \in Elems(s.server.files) : <<<<"server">>, c.path>> = t}
    IN  over \cup own \cup level

\* "same path replaces plugin default" (config_injector.go:100): in whatever order Go
\* ranges over its maps, the script the reconcile has written, or has seen to be there,
\* leaves each file as configured, over an empty volume and over one where the files
\* exist.
ScriptCarriesOut ==
    pc \notin {"idle", "script"} /\ ~err /\ script # None /\ drift = 0 /\ ~misled =>
        LET targets == {e.target : e \in Elems(script[1])}
        IN  \A before \in {[t \in {} |-> "old"], [t \in targets |-> "old"]} :
                \A t \in targets : \E c \in InEffect(snap, t) :
                    Run(script[1], before)[t] =
                        IF c.keep /\ t \in DOMAIN before THEN "old" ELSE c.cm

\* Once all the steps of a reconcile have passed, the ports the TCPRoute and the
\* HTTPRoutes lead to are ports of the Service, and the NetworkPolicy lets in what the
\* Service forwards: the two collect their ports separately.  The UDPRoute is not among
\* them: it leads to port 25565 (gateway_routes.go:213), which Service and policy have for
\* TCP only, although papermcserver.md:203 has it carry the query protocol.
Reachable ==
    pc = "status" /\ ~err /\ drift = 0 =>
        /\ \A n \in DOMAIN http : http[n].own => <<http[n].port, "TCP">> \in service
        /\ routes["tcp"] = "ours" => <<MinecraftPort, "TCP">> \in service
        /\ policy # None => service \subseteq policy.ports

\* What becomes of objects of another owner, over any edits and failures: HTTPRoutes are
\* told by their owner and never touched; a TCPRoute, a UDPRoute or a NetworkPolicy is
\* never taken over, but it is deleted, without a look at the owner, by a server that wants
\* none of that name (gateway_routes.go:79, networkpolicy.go:55).
OthersKept ==
    [][/\ \A n \in DOMAIN Foreign : n \in DOMAIN http' /\ http'[n] = Foreign[n]
       /\ \A k \in {"tcp", "udp"} : routes[k] = "theirs" =>
            routes'[k] = "theirs" \/ (routes'[k] = None /\ ~WantsRoute(snap, k))
       /\ Theirs => policy' = policy \/ (policy' = None /\ ~snap.server.policy.enabled)]_vars

\* The steps that fail each time, on a name that another owner has.
Denied(s) ==
    {k \in {"tcp", "udp"} : WantsRoute(s, k) /\ routes[k] = "theirs"}
        \cup (IF DOMAIN DesiredHTTPRoutes(s) \cap DOMAIN Foreign # {} THEN {"http"} ELSE {})
        \cup (IF s.server.policy.enabled /\ Theirs THEN {"policy"} ELSE {})

\* The script is as the server wants it.
ScriptEnsured == script \in ScriptWanted(spec)

\* So are the other objects, up to a step that is denied.
ObjectsEnsured ==
    /\ sts # None
    /\ \A f \in {"inject", "volumes", "secret"} : sts[f] = Template(spec)[f]
    /\ service = ServicePorts(spec)
    /\ Denied(spec) \cap {"tcp"} = {} =>
        routes["tcp"] = IF WantsRoute(spec, "tcp") THEN "ours" ELSE None
    /\ Denied(spec) \cap {"tcp", "udp"} = {} =>
        routes["udp"] = IF WantsRoute(spec, "udp") THEN "ours" ELSE None
    /\ Denied(spec) \cap {"tcp", "udp", "http"} = {} =>
        /\ {n \in DOMAIN http : http[n].own} = DOMAIN DesiredHTTPRoutes(spec)
        /\ \A n \in DOMAIN DesiredHTTPRoutes(spec) : http[n] = DesiredHTTPRoutes(spec)[n]
    /\ Denied(spec) = {} =>
        /\ spec.server.policy.enabled = FALSE => policy = None
        /\ spec.server.policy.enabled /\ spec.server.policy.valid =>
            policy = [owner |-> "ours", ports |-> PolicyPorts(spec)]

\* A server that nobody is working on and that is not in the queue has its objects as it
\* wants them: no edit in the middle of a reconcile, no failed step, crash or conflict is
\* ever forgotten.  In particular no pod template is left with a script that is gone,
\* though the script is removed before the StatefulSet stops mounting it.  The script alone
\* may be an old one, until the next resync: where the last reconcile compared it with an
\* outdated copy (an edit and its reversal overtook the informer,
\* papermcserver_controller.go:307), or where others removed it.
RestMeansEnsured ==
    pc = "idle" /\ ~queued /\ drift = 0 => ObjectsEnsured /\ (misled \/ ScriptEnsured)

Synced == ObjectsEnsured /\ ScriptEnsured /\ (ReferencedConfigMaps(spec) \subseteq cms => pod = sts)

\* The objects follow the server in the end, whatever was edited or removed in the
\* middle of a reconcile, unnoticed by a watch, or between two failed steps, and the
\* pod starts if its ConfigMaps are there.  A name that another owner has stops the steps
\* after it, and nothing else.
Converges == <>[]Synced
=============================================================================
