--------------------------- MODULE ServerInfraProofs ---------------------------
(* What the steps of a reconcile leave alone, and what they leave behind, for   *)
(* any servers, plugins and routes.                                             *)
EXTENDS ServerInfra, FiniteSetTheorems, SequenceTheorems, WellFoundedInduction, TLAPS

\* The routes of other owners are there, as they were.
ForeignKept == \A n \in DOMAIN Foreign : n \in DOMAIN http /\ http[n] = Foreign[n]

\* A route of another owner is never among the owned ones.
LEMMA ForeignNotOwned ==
    ASSUME ForeignKept, NEW n \in DOMAIN Foreign
    PROVE  n \in DOMAIN http /\ ~Owned(n)
BY InfraAssumption DEF ForeignKept, Owned

\* applyHTTPRouteChanges writes a route that is new or owned.
LEMMA ApplyKeeps == ForeignKept /\ ApplyHTTPRoute => ForeignKept'
<1> SUFFICES ASSUME ForeignKept, ApplyHTTPRoute, NEW m \in DOMAIN Foreign
             PROVE  m \in DOMAIN http' /\ http'[m] = Foreign[m]
    BY DEF ForeignKept
<1>1. PICK n \in Differing(snap) :
        /\ n \in DOMAIN http => Owned(n)
        /\ http' = [k \in DOMAIN http \cup {n} |->
                        IF k = n THEN DesiredHTTPRoutes(snap)[n] ELSE http[k]]
    BY DEF ApplyHTTPRoute
<1>2. m \in DOMAIN http /\ ~Owned(m)
    BY ForeignNotOwned
<1>3. m # n
    BY <1>1, <1>2
<1> QED
    BY <1>1, <1>2, <1>3 DEF ForeignKept

\* deleteOrphanedHTTPRoutes deletes a route that is owned.
LEMMA DeleteKeeps == ForeignKept /\ DeleteOrphanedHTTPRoute => ForeignKept'
<1> SUFFICES ASSUME ForeignKept, DeleteOrphanedHTTPRoute, NEW m \in DOMAIN Foreign
             PROVE  m \in DOMAIN http' /\ http'[m] = Foreign[m]
    BY DEF ForeignKept
<1>1. PICK n \in Orphaned(snap) : http' = [k \in DOMAIN http \ {n} |-> http[k]]
    BY DEF DeleteOrphanedHTTPRoute
<1>2. m \in DOMAIN http /\ ~Owned(m)
    BY ForeignNotOwned
<1>3. m # n
    BY <1>1, <1>2 DEF Orphaned
<1> QED
    BY <1>1, <1>2, <1>3 DEF ForeignKept

\* Each kind of object is written by its own steps, and removed by others.
LEMMA OtherStepsKeep ==
    ASSUME [Next]_vars
    PROVE  /\ http' = http \/ ApplyHTTPRoute \/ DeleteOrphanedHTTPRoute
           /\ routes' = routes \/ ReconcileTCPRoute \/ ReconcileUDPRoute
           /\ policy' = policy \/ EnsureNetworkPolicy \/ Drift
<1>1. CASE Start \/ EnsureConfigScript \/ ScriptRefused \/ EnsureStatefulSet \/ EnsureService
    BY <1>1 DEF Start, EnsureConfigScript, ScriptRefused, EnsureStatefulSet, EnsureService, objects
<1>2. CASE ReconcileTCPRoute \/ ReconcileUDPRoute \/ RouteRefused \/ JudgeHTTPRoutes
           \/ HTTPRouteRefused \/ HTTPRoutesDone
    BY <1>2 DEF ReconcileTCPRoute, ReconcileUDPRoute, ReconcileRoute, RouteRefused,
                JudgeHTTPRoutes, HTTPRouteRefused, HTTPRoutesDone, objects
<1>3. CASE ApplyHTTPRoute \/ DeleteOrphanedHTTPRoute
    BY <1>3 DEF ApplyHTTPRoute, DeleteOrphanedHTTPRoute
<1>4. CASE EnsureNetworkPolicy \/ WriteStatus \/ Resync \/ CallFails \/ Crash
    BY <1>4 DEF EnsureNetworkPolicy, WriteStatus, Resync, CallFails, Crash, objects
<1>5. CASE SyncScript \/ PodStarts \/ EditSpec \/ EditConfigMaps
    BY <1>5 DEF SyncScript, PodStarts, EditSpec, EditConfigMaps, objects
<1>6. CASE Drift
    <2>1. http' = http /\ routes' = routes
        BY <1>6, Zenon DEF Drift
    <2> QED
        BY <1>6, <2>1
<1>7. CASE UNCHANGED vars
    BY <1>7 DEF vars, objects
<1> QED
    BY <1>1, <1>2, <1>3, <1>4, <1>5, <1>6, <1>7 DEF Next, Steps

\* The script is written by its own step, and removed by others.
LEMMA ScriptLeft ==
    ASSUME [Next]_vars, ~EnsureConfigScript, ~Drift
    PROVE  script' = script
<1>1. CASE Start \/ ScriptRefused \/ EnsureStatefulSet \/ EnsureService
    BY <1>1 DEF Start, ScriptRefused, EnsureStatefulSet, EnsureService, objects, scripts
<1>2. CASE ReconcileTCPRoute \/ ReconcileUDPRoute \/ RouteRefused \/ JudgeHTTPRoutes
           \/ HTTPRouteRefused \/ HTTPRoutesDone \/ ApplyHTTPRoute \/ DeleteOrphanedHTTPRoute
    BY <1>2 DEF ReconcileTCPRoute, ReconcileUDPRoute, ReconcileRoute, RouteRefused,
                JudgeHTTPRoutes, HTTPRouteRefused, HTTPRoutesDone, ApplyHTTPRoute,
                DeleteOrphanedHTTPRoute, objects, scripts
<1>3. CASE EnsureNetworkPolicy \/ WriteStatus \/ Resync \/ CallFails \/ Crash
    BY <1>3 DEF EnsureNetworkPolicy, WriteStatus, Resync, CallFails, Crash, objects, scripts
<1>4. CASE SyncScript \/ PodStarts \/ EditSpec \/ EditConfigMaps \/ UNCHANGED vars
    BY <1>4 DEF SyncScript, PodStarts, EditSpec, EditConfigMaps, vars, objects, scripts
<1> QED
    BY <1>1, <1>2, <1>3, <1>4 DEF Next, Steps

Owners == {None, "ours", "loose", "theirs"}

\* There is one TCPRoute and one UDPRoute at most, each with its owner.
RouteTypes == routes \in [{"tcp", "udp"} -> Owners]

\* The routes that were there before have their types.
LEMMA RouteTypesInit == Init => RouteTypes
<1> SUFFICES ASSUME Init PROVE RouteTypes
    OBVIOUS
<1>1. PICK b \in Before : routes = [k \in {"tcp", "udp"} |-> b[k]]
    BY DEF Init
<1>2. b["tcp"] \in Owners /\ b["udp"] \in Owners
    BY InfraAssumption DEF Owners
<1> QED
    BY <1>1, <1>2 DEF RouteTypes

\* reconcileTCPRoute, reconcileUDPRoute: the route of the other kind is left alone, and a
\* route of another controller is not written.
LEMMA RouteWritten ==
    ASSUME RouteTypes, NEW k \in {"tcp", "udp"}, NEW next, ReconcileRoute(k, next)
    PROVE  /\ RouteTypes'
           /\ routes'[k] = IF WantsRoute(snap, k) THEN "ours" ELSE None
           /\ routes[k] = "theirs" => ~WantsRoute(snap, k)
           /\ \A j \in {"tcp", "udp"} : j # k => routes'[j] = routes[j]
<1> DEFINE v == IF WantsRoute(snap, k) THEN "ours" ELSE None
<1>1. routes' = [routes EXCEPT ![k] = v] /\ (WantsRoute(snap, k) => routes[k] # "theirs")
    BY DEF ReconcileRoute
<1>2. v \in Owners
    BY DEF Owners
<1>3. v = IF WantsRoute(snap, k) THEN "ours" ELSE None
    OBVIOUS
<1> HIDE DEF v
<1>4. /\ routes' \in [{"tcp", "udp"} -> Owners] /\ routes'[k] = v
      /\ \A j \in {"tcp", "udp"} : j # k => routes'[j] = routes[j]
    BY <1>1, <1>2 DEF RouteTypes
<1> QED
    BY <1>1, <1>3, <1>4 DEF RouteTypes

\* The routes keep their types, and those of other owners are left or deleted.
LEMMA RoutesStep ==
    ASSUME RouteTypes, [Next]_vars
    PROVE  /\ RouteTypes'
           /\ \A k \in {"tcp", "udp"} : routes[k] = "theirs" =>
                routes'[k] = "theirs" \/ (routes'[k] = None /\ ~WantsRoute(snap, k))
<1>1. CASE routes' = routes
    BY <1>1 DEF RouteTypes
<1>2. CASE ReconcileTCPRoute
    <2>1. ReconcileRoute("tcp", "udp")
        BY <1>2 DEF ReconcileTCPRoute
    <2> QED
        BY <2>1, RouteWritten
<1>3. CASE ReconcileUDPRoute
    <2>1. ReconcileRoute("udp", "listed")
        BY <1>3 DEF ReconcileUDPRoute
    <2> QED
        BY <2>1, RouteWritten
<1> QED
    BY <1>1, <1>2, <1>3, OtherStepsKeep

\* A NetworkPolicy of another owner is left or deleted.
LEMMA PolicyStep ==
    ASSUME Theirs, [Next]_vars
    PROVE  policy' = policy \/ (policy' = None /\ ~snap.server.policy.enabled)
<1>1. CASE EnsureNetworkPolicy
    BY <1>1, Zenon DEF EnsureNetworkPolicy
<1>2. CASE Drift
    BY <1>2, Zenon DEF Drift
<1> QED
    BY <1>1, <1>2, OtherStepsKeep

\* Whatever servers, plugins and names, whatever fails and in whichever order the routes
\* are written: an HTTPRoute of another owner is never changed or deleted, a clash of
\* names included; a TCPRoute, a UDPRoute or a NetworkPolicy of another owner is never
\* taken over, and it is deleted only in a reconcile of a server that wants none.
THEOREM OthersSafe == Spec => OthersKept
<1>1. Init => ForeignKept /\ RouteTypes
    BY RouteTypesInit DEF Init, ForeignKept
<1>2. ForeignKept /\ RouteTypes /\ [Next]_vars => ForeignKept' /\ RouteTypes'
  <2> SUFFICES ASSUME ForeignKept, RouteTypes, [Next]_vars PROVE ForeignKept' /\ RouteTypes'
      OBVIOUS
  <2>1. CASE ApplyHTTPRoute
      BY <2>1, ApplyKeeps, RoutesStep
  <2>2. CASE DeleteOrphanedHTTPRoute
      BY <2>2, DeleteKeeps, RoutesStep
  <2>3. CASE http' = http
      BY <2>3, RoutesStep DEF ForeignKept
  <2> QED
      BY <2>1, <2>2, <2>3, OtherStepsKeep
<1>3. ForeignKept' /\ RouteTypes /\ [Next]_vars =>
        /\ \A n \in DOMAIN Foreign : n \in DOMAIN http' /\ http'[n] = Foreign[n]
        /\ \A k \in {"tcp", "udp"} : routes[k] = "theirs" =>
             routes'[k] = "theirs" \/ (routes'[k] = None /\ ~WantsRoute(snap, k))
        /\ Theirs => policy' = policy \/ (policy' = None /\ ~snap.server.policy.enabled)
    BY RoutesStep, PolicyStep DEF ForeignKept
<1> QED
    BY <1>1, <1>2, <1>3, PTL DEF Spec, OthersKept

-----------------------------------------------------------------------------
(* The invariant of the reconcile.                                         *)

TemplateFields == {"inject", "volumes", "secret", "env"}
EarlySteps == {"script", "sts"}
LateSteps == {"service", "tcp", "udp", "listed", "http", "policy"}

InfraTypes ==
    /\ spec \in Specs /\ snap \in Specs
    /\ pc \in {"idle", "status"} \cup EarlySteps \cup LateSteps
    /\ err \in BOOLEAN /\ stale \in BOOLEAN /\ queued \in BOOLEAN
    /\ drift \in Nat
    /\ sts # None => DOMAIN sts = TemplateFields
    /\ pc \notin {"idle", "status"} => ~err
    /\ seen \in BOOLEAN /\ misled \in BOOLEAN
    /\ seen => scriptCopy = script

OurPolicy(s) == [owner |-> "ours", ports |-> PolicyPorts(s)]

\* What each step has ensured stays so until the reconcile is over.
EnsuredInv ==
    drift = 0 /\ ~err =>
        /\ pc \in {"tcp", "udp", "listed", "http", "policy", "status"} =>
            service = ServicePorts(snap)
        /\ pc \in {"policy", "status"} => Differing(snap) = {} /\ Orphaned(snap) = {}
        /\ pc = "status" => policy = None \/ policy = OurPolicy(snap)

InfraInv == InfraTypes /\ EnsuredInv

-----------------------------------------------------------------------------
(* The ports.                                                              *)

\* A set of natural numbers has a least one.
LEMMA LeastNatural ==
    ASSUME NEW T, T \subseteq Nat, T # {}
    PROVE  \E m \in T : \A y \in T : m <= y
<1> DEFINE R == {ss \in Nat \X Nat : ss[1] < ss[2]}
<1>1. IsWellFoundedOn(R, Nat)
    BY NatLessThanWellFounded, Zenon DEF OpToRel
<1>2. PICK x \in T : \A y \in T : ~ (<<y, x>> \in R)
    <2> HIDE DEF R
    <2> QED
        BY <1>1, WFMin, Zenon
<1>3. ASSUME NEW y \in T
      PROVE  x <= y
    <2>1. x \in Nat /\ y \in Nat
        OBVIOUS
    <2>2. <<y, x>> \notin R
        BY <1>2, Zenon
    <2>3. y < x => <<y, x>> \in R
        BY <2>1
    <2> HIDE DEF R
    <2> QED
        BY <2>1, <2>2, <2>3
<1> QED
    BY <1>3, Zenon

\* A set of positions in a list has a last one.
LEMMA LastPosition ==
    ASSUME NEW S, NEW n \in Nat, S \subseteq 1..n, S # {}
    PROVE  \E m \in S : \A y \in S : y <= m
<1> DEFINE T == {t \in Nat : \E i \in S : i + t = n}
<1>1. \A i \in S : i \in Int /\ n - i \in Nat /\ i + (n - i) = n
    OBVIOUS
<1>2. T \subseteq Nat /\ T # {}
    BY <1>1
<1>3. PICK m \in T : \A y \in T : m <= y
    <2> HIDE DEF T
    <2> QED
        BY <1>2, LeastNatural, Zenon
<1>4. PICK i \in S : i + m = n
    OBVIOUS
<1>5. ASSUME NEW y \in S
      PROVE  y <= i
    <2>1. n - y \in T
        BY <1>1
    <2>2. m <= n - y
        <3> HIDE DEF T
        <3> QED
            BY <2>1, <1>3, Zenon
    <2>3. m \in Nat
        BY <1>2
    <2> HIDE DEF T
    <2> QED
        BY <2>2, <2>3, <1>1, <1>4
<1> QED
    BY <1>5, Zenon

\* findHTTPEndpoint: what it finds is a port of the Service.
LEMMA EndpointServed ==
    ASSUME NEW s, NEW h, NEW ep \in HTTPEndpoints(s, h)
    PROVE  <<ep.port, "TCP">> \in ServicePorts(s)
<1>1. PICK p \in Elems(s.plugins) : ep \in Elems(p.endpoints) /\ ep.proto = "HTTP"
    BY DEF HTTPEndpoints
<1>2. Proto(ep) = "TCP"
    BY <1>1 DEF Proto
<1>3. <<ep.port, Proto(ep)>> \in
        UNION {{<<e.port, Proto(e)>> : e \in Elems(q.endpoints)} : q \in Elems(s.plugins)}
    <2> DEFINE Of(q) == {<<e.port, Proto(e)>> : e \in Elems(q.endpoints)}
    <2>1. <<ep.port, Proto(ep)>> \in Of(p)
        BY <1>1
    <2> HIDE DEF Of
    <2>2. <<ep.port, Proto(ep)>> \in UNION {Of(q) : q \in Elems(s.plugins)}
        BY <2>1
    <2> QED
        BY <2>2 DEF Of
<1> QED
    BY <1>2, <1>3 DEF ServicePorts

\* buildDesiredHTTPRoutes: every route leads to an endpoint that was found.
LEMMA RouteServed ==
    ASSUME NEW s \in Specs, NEW n \in DOMAIN DesiredHTTPRoutes(s)
    PROVE  <<DesiredHTTPRoutes(s)[n].port, "TCP">> \in ServicePorts(s)
<1> DEFINE gw == s.server.gateway
           valid == IF gw.enabled THEN {i \in DOMAIN gw.http : HTTPEndpoints(s, gw.http[i]) # {}}
                    ELSE {}
           Latest(m) == CHOOSE i \in valid : /\ RouteName(gw.http[i]) = m
                                           /\ \A j \in valid : RouteName(gw.http[j]) = m => j <= i
           Names == {RouteName(gw.http[i]) : i \in valid}
           Made(m) == [host |-> gw.http[Latest(m)].host, own |-> TRUE,
                       port |-> (CHOOSE ep \in HTTPEndpoints(s, gw.http[Latest(m)]) : TRUE).port]
<1>1. DesiredHTTPRoutes(s) = [m \in Names |-> Made(m)]
    BY Zenon DEF DesiredHTTPRoutes
<1>2. n \in Names /\ DesiredHTTPRoutes(s)[n] = Made(n)
    <2> HIDE DEF Names, Made
    <2> QED
        BY <1>1
<1>3. Latest(n) \in valid
    <2> DEFINE S == {i \in valid : RouteName(gw.http[i]) = n}
    <2>1. Len(gw.http) \in Nat /\ S \subseteq 1..Len(gw.http)
        BY InfraAssumption
    <2>2. S # {}
        BY <1>2
    <2>3. PICK m \in S : \A y \in S : y <= m
        <3> HIDE DEF S
        <3> QED
            BY <2>1, <2>2, LastPosition
    <2>4. /\ m \in valid /\ RouteName(gw.http[m]) = n
          /\ \A j \in valid : RouteName(gw.http[j]) = n => j <= m
        <3> HIDE DEF valid
        <3> QED
            BY <2>3
    <2> HIDE DEF valid
    <2> QED
        BY <2>4, Zenon
<1>4. HTTPEndpoints(s, gw.http[Latest(n)]) # {}
    <2> HIDE DEF Latest
    <2> QED
        BY <1>3
<1> DEFINE h == gw.http[Latest(n)]
           ep == CHOOSE e \in HTTPEndpoints(s, h) : TRUE
<1>5. ep \in HTTPEndpoints(s, h)
    <2> HIDE DEF h
    <2>1. HTTPEndpoints(s, h) # {}
        BY <1>4 DEF h
    <2> QED
        BY <2>1, Zenon
<1>6. DesiredHTTPRoutes(s)[n].port = ep.port
    <2>1. Made(n).port = ep.port
        <3> HIDE DEF Latest
        <3> QED
            BY Zenon
    <2> QED
        BY <1>2, <2>1
<1> HIDE DEF ep, h
<1> QED
    BY <1>5, <1>6, EndpointServed

-----------------------------------------------------------------------------
(* The StatefulSet.                                                        *)

\* The template runs a script only for a server that has one.
LEMMA TemplateMounts ==
    ASSUME NEW s
    PROVE  DOMAIN Template(s) = TemplateFields /\ (Template(s).inject <=> HasScript(s))
<1> DEFINE has == HasScript(s)
           vols == IF has THEN Mounted(s) ELSE {}
           sec == has /\ s.server.rcon # 0
           t == [inject |-> has, volumes |-> vols, secret |-> sec, env |-> s.server.rcon]
<1>1. Template(s) = t
    BY Zenon DEF Template
<1>2. has \in BOOLEAN
    BY DEF HasScript
<1> HIDE DEF has, vols, sec
<1>3. DOMAIN t = TemplateFields
    BY DEF TemplateFields
<1>4. t.inject = has
    OBVIOUS
<1> HIDE DEF t
<1> QED
    BY <1>1, <1>2, <1>3, <1>4 DEF has

\* ensureStatefulSet: a template that is left as it is mounts the script as the new one.
LEMMA StatefulSetMounts ==
    ASSUME sts # None => DOMAIN sts = TemplateFields, EnsureStatefulSet
    PROVE  DOMAIN sts' = TemplateFields /\ (sts'.inject => HasScript(snap))
<1>1. CASE sts' = Template(snap)
    BY <1>1, TemplateMounts
<1>2. CASE sts # None /\ sts' = sts /\ ~TemplateChanged(sts, Template(snap))
    <2> DEFINE t == Template(snap)
    <2>1. DOMAIN t = TemplateFields /\ (t.inject <=> HasScript(snap))
        BY TemplateMounts
    <2> HIDE DEF t
    <2>2. [sts EXCEPT !.env = 0] = [t EXCEPT !.env = 0]
        BY <1>2 DEF TemplateChanged, t
    <2>3. [sts EXCEPT !.env = 0].inject = sts.inject /\ [t EXCEPT !.env = 0].inject = t.inject
        BY <1>2, <2>1 DEF TemplateFields
    <2>4. sts.inject = t.inject
        BY <2>2, <2>3
    <2> QED
        BY <1>2, <2>1, <2>4
<1> QED
    BY <1>1, <1>2, Zenon DEF EnsureStatefulSet

-----------------------------------------------------------------------------
(* The steps.                                                              *)

\* The actions that leave the reconcile and the objects alone.
LEMMA QuietSteps ==
    ASSUME PodStarts \/ EditConfigMaps \/ UNCHANGED vars
    PROVE  UNCHANGED <<spec, scripts, sts, service, routes, http, policy, pc, snap, err, stale,
                       queued, drift>>
BY DEF PodStarts, EditConfigMaps, vars, objects, memory, bounds

\* The informer's copy of the script catches up.
LEMMA CopySteps ==
    ASSUME SyncScript
    PROVE  /\ UNCHANGED <<spec, script, misled, sts, service, routes, http, policy, pc, snap, err,
                          stale, queued, drift>>
           /\ scriptCopy' = script /\ seen' = TRUE
BY DEF SyncScript, memory, bounds

\* ensureConfigScriptConfigMap: the script is as wanted, or an outdated copy said so.
LEMMA ScriptEffect ==
    ASSUME InfraTypes, EnsureConfigScript
    PROVE  /\ UNCHANGED <<spec, sts, service, routes, http, policy, snap, err, stale, queued, drift>>
           /\ pc = "script" /\ pc' = "sts"
           /\ misled' \/ script' \in ScriptWanted(snap)
           /\ script' = script \/ script' \in ScriptWanted(snap)
           /\ seen' \in BOOLEAN /\ misled' \in BOOLEAN
           /\ seen' => scriptCopy' = script'
<1>1. /\ UNCHANGED <<spec, sts, service, routes, http, policy, snap, err, stale, queued, drift>>
      /\ pc = "script" /\ pc' = "sts"
    BY DEF EnsureConfigScript, Goto, bounds
<1>2. seen \in BOOLEAN /\ (seen => scriptCopy = script)
    BY DEF InfraTypes
<1>3. PICK t \in ScriptWanted(snap) :
        \/ /\ scriptCopy = t
           /\ misled' = ~seen
           /\ UNCHANGED <<script, scriptCopy, seen>>
        \/ /\ script' = t
           /\ seen' = FALSE /\ misled' = FALSE
    BY Zenon DEF EnsureConfigScript
<1>4. CASE script' = t /\ seen' = FALSE /\ misled' = FALSE
    BY <1>1, <1>4
<1>5. CASE scriptCopy = t /\ misled' = ~seen /\ UNCHANGED <<script, scriptCopy, seen>>
    <2>1. CASE seen
        <3>1. misled' = FALSE
            BY <1>5, <2>1, Zenon
        <3> QED
            BY <1>1, <1>2, <1>5, <2>1, <3>1
    <2>2. CASE ~seen
        <3>1. misled' = TRUE
            BY <1>5, <2>2, Zenon
        <3> QED
            BY <1>1, <1>2, <1>5, <2>2, <3>1
    <2> QED
        BY <2>1, <2>2
<1> QED
    BY <1>3, <1>4, <1>5

\* The steps that touch none of the script, the StatefulSet, the Service, the HTTPRoutes
\* and the NetworkPolicy.
LEMMA BlindSteps ==
    ASSUME ReconcileTCPRoute \/ ReconcileUDPRoute \/ JudgeHTTPRoutes \/ HTTPRoutesDone
    PROVE  /\ UNCHANGED <<spec, scripts, sts, service, http, policy, snap, err, stale, queued, drift>>
           /\ pc \in LateSteps /\ pc' \in LateSteps
           /\ pc' # "service" /\ pc # "service" /\ pc # "policy"
           /\ pc' = "policy" => Differing(snap) = {} /\ Orphaned(snap) = {}
<1>1. CASE ReconcileTCPRoute
    BY <1>1 DEF ReconcileTCPRoute, ReconcileRoute, Goto, bounds, LateSteps
<1>2. CASE ReconcileUDPRoute
    BY <1>2 DEF ReconcileUDPRoute, ReconcileRoute, Goto, bounds, LateSteps
<1>3. CASE JudgeHTTPRoutes
    BY <1>3 DEF JudgeHTTPRoutes, Goto, objects, bounds, LateSteps
<1>4. CASE HTTPRoutesDone
    BY <1>4 DEF HTTPRoutesDone, Goto, objects, bounds, LateSteps
<1> QED
    BY <1>1, <1>2, <1>3, <1>4

\* The steps that write HTTPRoutes.
LEMMA HTTPSteps ==
    ASSUME ApplyHTTPRoute \/ DeleteOrphanedHTTPRoute
    PROVE  /\ UNCHANGED <<spec, scripts, sts, service, routes, policy, pc, snap, err, stale, queued,
                          drift>>
           /\ pc = "http"
BY DEF ApplyHTTPRoute, DeleteOrphanedHTTPRoute, memory, bounds

\* The reconcile fails, in a call or on a name that is taken.
LEMMA FailingSteps ==
    ASSUME CallFails \/ ScriptRefused \/ RouteRefused \/ HTTPRouteRefused
    PROVE  /\ UNCHANGED <<spec, scripts, sts, service, routes, http, policy, snap, stale, queued,
                          drift>>
           /\ pc' = "status" /\ err' = TRUE
BY DEF CallFails, ScriptRefused, RouteRefused, HTTPRouteRefused, objects, bounds

\* Every step keeps the types.
LEMMA InfraTypesStep ==
    ASSUME InfraTypes, [Next]_vars
    PROVE  InfraTypes'
<1> USE DEF InfraTypes, EarlySteps, scripts
<1>1. CASE Start
    BY <1>1 DEF Start, objects, bounds
<1>2. CASE EnsureConfigScript
    BY <1>2, ScriptEffect
<1>3. CASE EnsureStatefulSet
    <2>1. UNCHANGED <<spec, scripts, snap, err, stale, queued, drift>> /\ pc = "sts" /\ pc' = "service"
        BY <1>3 DEF EnsureStatefulSet, Goto, bounds
    <2> QED
        BY <1>3, <2>1, StatefulSetMounts DEF LateSteps
<1>4. CASE EnsureService
    BY <1>4 DEF EnsureService, Goto, bounds, LateSteps
<1>5. CASE ReconcileTCPRoute \/ ReconcileUDPRoute \/ JudgeHTTPRoutes \/ HTTPRoutesDone
    BY <1>5, BlindSteps DEF LateSteps
<1>6. CASE ApplyHTTPRoute \/ DeleteOrphanedHTTPRoute
    BY <1>6, HTTPSteps
<1>7. CASE CallFails \/ ScriptRefused \/ RouteRefused \/ HTTPRouteRefused
    <2>1. /\ UNCHANGED <<spec, script, scriptCopy, seen, misled, sts, snap, stale, queued, drift>>
          /\ pc' = "status" /\ err' = TRUE
        BY <1>7, FailingSteps
    <2> QED
        BY <2>1
<1>8. CASE EnsureNetworkPolicy
    <2>1. UNCHANGED <<spec, scripts, snap, sts, stale, queued, drift>> /\ pc' = "status"
        BY <1>8 DEF EnsureNetworkPolicy, bounds
    <2>2. err' = TRUE \/ err' = FALSE
        BY <1>8, Zenon DEF EnsureNetworkPolicy
    <2> QED
        BY <2>1, <2>2
<1>9. CASE WriteStatus
    <2>1. UNCHANGED <<spec, scripts, snap, sts, err, stale, drift>> /\ pc' = "idle"
        BY <1>9 DEF WriteStatus, objects, bounds
    <2>2. queued' \in BOOLEAN
        BY <1>9 DEF WriteStatus, Requeue
    <2> QED
        BY <2>1, <2>2
<1>10. CASE Resync
    BY <1>10 DEF Resync, objects, bounds
<1>11. CASE Crash
    BY <1>11 DEF Crash
<1>12. CASE EditSpec
    <2>1. UNCHANGED <<snap, scripts, pc, err, sts, drift>> /\ queued' = TRUE
        BY <1>12 DEF EditSpec, objects
    <2>2. spec' \in Specs
        BY <1>12 DEF EditSpec
    <2>3. stale' \in BOOLEAN
        <3>1. PICK s \in Specs : stale' = (stale \/ s.server # spec.server)
            BY <1>12, Zenon DEF EditSpec
        <3> QED
            BY <3>1
    <2> QED
        BY <2>1, <2>2, <2>3
<1>13. CASE Drift
    <2>1. /\ UNCHANGED <<spec, snap, pc, err, stale, sts>> /\ drift' = drift + 1
          /\ queued' = queued \/ queued' = TRUE
          /\ UNCHANGED <<scriptCopy, misled>>
          /\ UNCHANGED <<script, seen>> \/ seen' = FALSE
        BY <1>13, Zenon DEF Drift
    <2>2. queued' \in BOOLEAN
        <3>1. queued \in BOOLEAN
            OBVIOUS
        <3> QED
            BY <2>1, <3>1, Zenon
    <2>3. drift' \in Nat
        BY <2>1
    <2>4. seen' \in BOOLEAN /\ misled' \in BOOLEAN /\ (seen' => scriptCopy' = script')
        <3>1. CASE UNCHANGED <<script, seen>>
            BY <2>1, <3>1
        <3>2. CASE seen' = FALSE
            BY <2>1, <3>2
        <3> QED
            BY <2>1, <3>1, <3>2, Zenon
    <2> QED
        BY <2>1, <2>2, <2>3, <2>4
<1>14. CASE PodStarts \/ EditConfigMaps \/ UNCHANGED vars
    BY <1>14, QuietSteps
<1>15. CASE SyncScript
    BY <1>15, CopySteps
<1> QED
    BY <1>1, <1>2, <1>3, <1>4, <1>5, <1>6, <1>7, <1>8, <1>9, <1>10, <1>11, <1>12, <1>13, <1>14, <1>15
    DEF Next, Steps

\* What was ensured depends on nothing but the objects and what the reconcile read.
LEMMA RoutesFrame ==
    ASSUME http' = http, snap' = snap
    PROVE  /\ Differing(snap)' = Differing(snap)
           /\ Orphaned(snap)' = Orphaned(snap)
BY DEF Differing, Orphaned, Owned

\* No step undoes what an earlier one of the same reconcile has ensured.
LEMMA EnsuredStep ==
    ASSUME InfraTypes, EnsuredInv, [Next]_vars
    PROVE  EnsuredInv'
<1> USE DEF EnsuredInv
<1>0. drift \in Nat /\ err \in BOOLEAN /\ (pc \notin {"idle", "status"} => ~err)
    BY DEF InfraTypes
<1>1. CASE Start \/ EnsureConfigScript \/ EnsureStatefulSet \/ Resync \/ Crash \/ WriteStatus
    <2>1. pc' \in {"idle", "script", "sts", "service"}
        BY <1>1 DEF Start, EnsureConfigScript, EnsureStatefulSet, Resync, Crash, WriteStatus, Goto
    <2> QED
        BY <2>1
<1>2. CASE EnsureService
    BY <1>2 DEF EnsureService, Goto
<1>3. CASE ReconcileTCPRoute \/ ReconcileUDPRoute \/ JudgeHTTPRoutes \/ HTTPRoutesDone
    <2>1. /\ UNCHANGED <<service, http, policy, snap, err, drift>>
          /\ pc \in {"tcp", "udp", "listed", "http"}
          /\ pc' \in {"udp", "listed", "http", "policy", "tcp"}
          /\ pc' = "policy" => Differing(snap) = {} /\ Orphaned(snap) = {}
        BY <1>3, BlindSteps DEF LateSteps
    <2>2. Differing(snap)' = Differing(snap) /\ Orphaned(snap)' = Orphaned(snap)
        BY <2>1, RoutesFrame
    <2> QED
        BY <2>1, <2>2
<1>4. CASE ApplyHTTPRoute \/ DeleteOrphanedHTTPRoute
    BY <1>4, HTTPSteps
<1>5. CASE CallFails \/ ScriptRefused \/ RouteRefused \/ HTTPRouteRefused
    BY <1>5, FailingSteps
<1>6. CASE EnsureNetworkPolicy
    <2>1. UNCHANGED <<service, http, snap, drift>> /\ pc = "policy" /\ pc' = "status"
        BY <1>6 DEF EnsureNetworkPolicy, bounds
    <2>2. \/ err' = TRUE
          \/ policy' = OurPolicy(snap)
          \/ policy' = None
        BY <1>6, Zenon DEF EnsureNetworkPolicy, OurPolicy
    <2>3. Differing(snap)' = Differing(snap) /\ Orphaned(snap)' = Orphaned(snap)
        BY <2>1, RoutesFrame
    <2>4. ~err
        BY <1>0, <2>1
    <2> QED
        BY <2>1, <2>2, <2>3, <2>4
<1>7. CASE EditSpec \/ SyncScript \/ PodStarts \/ EditConfigMaps \/ UNCHANGED vars
    <2>1. UNCHANGED <<service, http, policy, pc, snap, err, drift>>
        BY <1>7 DEF EditSpec, SyncScript, PodStarts, EditConfigMaps, vars, objects, memory, bounds
    <2>2. Differing(snap)' = Differing(snap) /\ Orphaned(snap)' = Orphaned(snap)
        BY <2>1, RoutesFrame
    <2> QED
        BY <2>1, <2>2
<1>8. CASE Drift
    <2>1. drift' # 0
        BY <1>0, <1>8 DEF Drift
    <2> QED
        BY <2>1
<1> QED
    BY <1>1, <1>2, <1>3, <1>4, <1>5, <1>6, <1>7, <1>8 DEF Next, Steps

\* buildNetworkPolicyIngress opens what buildServicePorts forwards.
LEMMA PortsOpened ==
    ASSUME NEW s
    PROVE  ServicePorts(s) \subseteq PolicyPorts(s)
<1> SUFFICES ASSUME NEW x, x \in ServicePorts(s)
             PROVE  x \in PolicyPorts(s)
    OBVIOUS
<1> DEFINE A == {<<MinecraftPort, "TCP">>}
           B == IF s.server.rcon # 0 THEN {<<s.server.rcon, "TCP">>} ELSE {}
           C == UNION {{<<ep.port, Proto(ep)>> : ep \in Elems(p.endpoints)} : p \in Elems(s.plugins)}
<1>1. ServicePorts(s) = (A \cup B) \cup C /\ PolicyPorts(s) = (A \cup C) \cup B
    BY Zenon DEF ServicePorts, PolicyPorts
<1> HIDE DEF A, B, C
<1> QED
    BY <1>1

\* Nothing is there and the server is queued.
LEMMA InfraInit == Init => InfraInv
<1> SUFFICES ASSUME Init PROVE InfraInv
    OBVIOUS
<1>1. /\ spec \in Specs /\ snap = spec /\ pc = "idle" /\ err = FALSE /\ stale = FALSE
      /\ queued = TRUE /\ drift = 0 /\ sts = None
      /\ seen = TRUE /\ misled = FALSE /\ scriptCopy = script
    BY DEF Init
<1> QED
    BY <1>1 DEF InfraInv, InfraTypes, EnsuredInv, LateSteps

\* Types, and what the steps have ensured.
THEOREM InfraInvariant == Spec => []InfraInv
<1>1. InfraInv /\ [Next]_vars => InfraInv'
    BY InfraTypesStep, EnsuredStep DEF InfraInv
<1> QED
    BY <1>1, InfraInit, PTL DEF Spec

\* When all the steps of a reconcile have passed, every HTTPRoute and the TCPRoute lead to
\* a port of the Service, and the NetworkPolicy opens all of those, for any servers and any
\* plugins.
THEOREM RoutesReachable == Spec => []Reachable
<1>1. InfraInv => Reachable
    <2> SUFFICES ASSUME InfraInv, pc = "status", ~err, drift = 0
                 PROVE  /\ \A n \in DOMAIN http : http[n].own => <<http[n].port, "TCP">> \in service
                        /\ <<MinecraftPort, "TCP">> \in service
                        /\ policy # None => service \subseteq policy.ports
        BY DEF Reachable
    <2>1. /\ service = ServicePorts(snap) /\ Differing(snap) = {} /\ Orphaned(snap) = {}
          /\ policy = None \/ policy = OurPolicy(snap)
          /\ snap \in Specs
        BY DEF InfraInv, InfraTypes, EnsuredInv
    <2>2. ASSUME NEW n \in DOMAIN http, http[n].own
          PROVE  <<http[n].port, "TCP">> \in service
        <3>1. n \in DOMAIN DesiredHTTPRoutes(snap)
            BY <2>1, <2>2 DEF Orphaned, Owned
        <3>2. http[n] = DesiredHTTPRoutes(snap)[n]
            BY <2>1, <3>1 DEF Differing
        <3> QED
            BY <2>1, <3>1, <3>2, RouteServed
    <2>3. ServicePorts(snap) \subseteq PolicyPorts(snap)
        BY PortsOpened
    <2>4. OurPolicy(snap).ports = PolicyPorts(snap)
        BY DEF OurPolicy
    <2>5. <<MinecraftPort, "TCP">> \in ServicePorts(snap)
        BY DEF ServicePorts
    <2> QED
        BY <2>1, <2>2, <2>3, <2>4, <2>5
<1> QED
    BY <1>1, InfraInvariant, PTL
-----------------------------------------------------------------------------
(* The script.                                                             *)

\* What holds at m and passes from each position to the next holds up to n.
LEMMA RangeInduction ==
    ASSUME NEW m \in Nat, NEW n \in Nat, NEW S,
           m \in S, \A j \in m..n : j # m /\ j - 1 \in S => j \in S
    PROVE  \A j \in m..n : j \in S
<1> DEFINE T == (m..n) \ S
<1> SUFFICES ASSUME T # {} PROVE FALSE
  OBVIOUS
<1>1. T \subseteq Nat
  OBVIOUS
<1>2. PICK x \in T : \A y \in T : x <= y
  <2> HIDE DEF T
  <2> QED
    BY <1>1, LeastNatural, Zenon
<1>3. x # m /\ x \in m..n /\ x - 1 \in m..n
  OBVIOUS
<1>4. x - 1 \notin T
  BY <1>1, <1>2
<1> QED
  BY <1>3, <1>4

\* A loop from m to n that starts with a, and the values f it goes through; every
\* round j turns one member of X into another, as G[j] says.
Rounds(G, m, n, X) == G \in [m..n -> [X -> X]]

GoesThrough(f, m, n, X, a, G) ==
    /\ f \in [m..n -> X]
    /\ f[m] = a
    /\ \A j \in m..n : j # m => f[j] = G[j][f[j - 1]]

\* The values a loop goes through exist.
LEMMA Recursion ==
    ASSUME NEW m \in Nat, NEW n \in Nat, m <= n, NEW X, NEW a \in X,
           NEW G, Rounds(G, m, n, X)
    PROVE  \E f : GoesThrough(f, m, n, X, a, G)
<1> USE DEF Rounds
<1> DEFINE Good(k, f) == f[m] = a /\ \A j \in m..k : j # m => f[j] = G[j][f[j - 1]]
           S == {k \in m..n : \E f \in [m..k -> X] : Good(k, f)}
<1>1. m \in S
  <2> DEFINE f == [j \in m..m |-> a]
  <2>1. f \in [m..m -> X] /\ f[m] = a /\ m \in m..n
    OBVIOUS
  <2>2. Good(m, f)
    BY <2>1
  <2> HIDE DEF f, Good
  <2> QED
    BY <2>1, <2>2
<1>2. ASSUME NEW k \in m..n, k # m, k - 1 \in S PROVE k \in S
  <2>1. PICK f \in [m..(k - 1) -> X] : Good(k - 1, f)
    BY <1>2
  <2> DEFINE g == [j \in m..k |-> IF j = k THEN G[k][f[k - 1]] ELSE f[j]]
  <2>2. k \in Nat /\ k - 1 \in m..(k - 1)
    BY <1>2
  <2>3. G[k][f[k - 1]] \in X
    BY <2>2
  <2>4. g \in [m..k -> X]
    BY <2>2, <2>3
  <2>5. Good(k, g)
    <3>1. g[m] = a
      BY <2>1, <2>2
    <3>2. ASSUME NEW j \in m..k, j # m PROVE g[j] = G[j][g[j - 1]]
      <4>1. CASE j = k
        BY <4>1, <2>2
      <4>2. CASE j # k
        <5>1. j \in m..(k - 1) /\ j - 1 \in m..(k - 1) /\ j - 1 # k
          BY <3>2, <4>2, <2>2
        <5>2. f[j] = G[j][f[j - 1]]
          BY <2>1, <3>2, <5>1
        <5> QED
          BY <5>1, <5>2
      <4> QED
        BY <4>1, <4>2
    <3> QED
      BY <3>1, <3>2
  <2> HIDE DEF g, Good
  <2> QED
    BY <2>4, <2>5
<1>3. n \in S
  <2> HIDE DEF S
  <2>1. \A j \in m..n : j \in S
    BY <1>1, <1>2, RangeInduction
  <2> QED
    BY <2>1
<1> QED
  BY <1>3 DEF GoesThrough

\* What the first k entries of a script have made of a volume: a file is the old one if
\* every entry for it keeps it, else it comes from an entry that may replace it.
Holds(f, before, es, k, t) ==
    \/ /\ t \in DOMAIN before /\ f[t] = before[t]
       /\ \A j \in 1..k : es[j].target = t => es[j].keep
    \/ \E j \in 1..k : /\ es[j].target = t /\ f[t] = es[j].from
                       /\ t \in DOMAIN before => ~es[j].keep

Copied(f, before, es, k) ==
    /\ DOMAIN f = DOMAIN before \cup {es[j].target : j \in 1..k}
    /\ \A t \in DOMAIN f : Holds(f, before, es, k, t)

\* One more entry
LEMMA CopyEffect ==
    ASSUME NEW es, NEW before, NEW k \in Nat, k # 0, NEW f, Copied(f, before, es, k - 1),
           NEW g, g = Copy(f, es[k])
    PROVE  Copied(g, before, es, k)
<1> DEFINE e == es[k]
<1>0. 1..k = (1..(k - 1)) \cup {k} /\ k \in 1..k
    OBVIOUS
<1>1. DOMAIN g = DOMAIN f \cup {e.target}
    BY DEF Copy
<1>2. DOMAIN f = DOMAIN before \cup {es[j].target : j \in 1..(k - 1)}
    BY DEF Copied
<1>3. DOMAIN g = DOMAIN before \cup {es[j].target : j \in 1..k}
    BY <1>0, <1>1, <1>2
<1>4. ASSUME NEW t \in DOMAIN g
      PROVE  Holds(g, before, es, k, t)
    <2>1. CASE e.keep /\ e.target \in DOMAIN f
        <3>1. g = f
            BY <2>1 DEF Copy
        <3>2. Holds(f, before, es, k - 1, t)
            BY <3>1 DEF Copied
        <3> QED
            BY <1>0, <2>1, <3>1, <3>2 DEF Holds
    <2>2. CASE ~(e.keep /\ e.target \in DOMAIN f)
        <3>1. g = [u \in DOMAIN f \cup {e.target} |-> IF u = e.target THEN e.from ELSE f[u]]
            BY <2>2 DEF Copy
        <3>2. CASE t = e.target
            <4>1. g[t] = e.from
                BY <3>1, <3>2
            <4>2. t \in DOMAIN before => ~e.keep
                BY <1>2, <2>2, <3>2
            <4> QED
                BY <1>0, <3>2, <4>1, <4>2 DEF Holds
        <3>3. CASE t # e.target
            <4>1. t \in DOMAIN f /\ g[t] = f[t]
                BY <1>1, <3>1, <3>3
            <4>2. Holds(f, before, es, k - 1, t)
                BY <4>1 DEF Copied
            <4> QED
                BY <1>0, <3>3, <4>1, <4>2 DEF Holds
        <3> QED
            BY <3>2, <3>3
    <2> QED
        BY <2>1, <2>2
<1> QED
    BY <1>3, <1>4 DEF Copied

\* renderConfigScript: what a script makes of a volume.
LEMMA RunEffect ==
    ASSUME NEW E, NEW es \in Seq(E), NEW B, NEW v,
           NEW before, before = [t \in B |-> v]
    PROVE  Copied(Run(es, before), before, es, Len(es))
<1> DEFINE n == Len(es)
           T == B \cup {es[j].target : j \in 1..n}
           V == {v} \cup {es[j].from : j \in 1..n}
           X == UNION {[D -> V] : D \in SUBSET T}
           G == [i \in 0..n |-> [f \in X |-> IF i = 0 THEN f ELSE Copy(f, es[i])]]
           Def(f) == f = [i \in 0..n |-> IF i = 0 THEN before ELSE Copy(f[i - 1], es[i])]
           upto == CHOOSE f : Def(f)
<1>1. Run(es, before) = upto[n]
    BY Zenon DEF Run
<1>2. n \in Nat /\ 0 \in Nat /\ 0 <= n /\ n \in 0..n /\ 0 \in 0..n
    BY LenProperties
<1> HIDE DEF n
<1>3. \E f : Def(f)
    <2>1. Rounds(G, 0, n, X)
        <3> SUFFICES ASSUME NEW i \in 0..n, i # 0, NEW f \in X PROVE Copy(f, es[i]) \in X
            BY DEF Rounds
        <3>1. PICK D \in SUBSET T : f \in [D -> V]
            OBVIOUS
        <3>2. i \in 1..n
            BY <1>2
        <3>3. es[i].target \in T /\ es[i].from \in V
            BY <3>2
        <3> HIDE DEF T, V
        <3>4. CASE es[i].keep /\ es[i].target \in DOMAIN f
            BY <3>4 DEF Copy
        <3>5. CASE ~(es[i].keep /\ es[i].target \in DOMAIN f)
            <4> DEFINE H == D \cup {es[i].target}
                       g == [t \in H |-> IF t = es[i].target THEN es[i].from ELSE f[t]]
            <4>1. Copy(f, es[i]) = g
                BY <3>1, <3>5 DEF Copy
            <4>2. g \in [H -> V]
                BY <3>1, <3>3
            <4>3. H \in SUBSET T
                BY <3>3
            <4> HIDE DEF g, H
            <4> QED
                BY <4>1, <4>2, <4>3
        <3> QED
            BY <3>4, <3>5
    <2>2. before \in X
        <3>1. before \in [B -> V] /\ B \in SUBSET T
            OBVIOUS
        <3> HIDE DEF T, V
        <3> QED
            BY <3>1
    <2>3. PICK f : GoesThrough(f, 0, n, X, before, G)
        <3> HIDE DEF G, X
        <3> QED
            BY <1>2, <2>1, <2>2, Recursion
    <2> HIDE DEF X
    <2>4. ASSUME NEW i \in 0..n, i # 0
          PROVE  f[i] = Copy(f[i - 1], es[i])
        <3>1. f[i] = G[i][f[i - 1]] /\ f \in [0..n -> X]
            BY <2>3, <2>4 DEF GoesThrough
        <3>2. i - 1 \in 0..n
            BY <1>2, <2>4
        <3> QED
            BY <2>4, <3>1, <3>2
    <2>5. f \in [0..n -> X] /\ f[0] = before
        BY <2>3 DEF GoesThrough
    <2>6. Def(f)
        BY <2>4, <2>5
    <2> QED
        BY <2>6
<1>4. Def(upto)
    <2> HIDE DEF Def
    <2> QED
        BY <1>3, Zenon
<1> HIDE DEF upto
<1> DEFINE S == {i \in 0..n : Copied(upto[i], before, es, i)}
<1>5. 0 \in S
    <2>1. upto[0] = before
        BY <1>2, <1>4
    <2>2. 1..0 = {}
        OBVIOUS
    <2>3. Copied(before, before, es, 0)
        BY <2>2 DEF Copied, Holds
    <2> QED
        BY <1>2, <2>1, <2>3
<1>6. ASSUME NEW i \in 0..n, i # 0, i - 1 \in S PROVE i \in S
    <2>1. i \in Nat /\ Copied(upto[i - 1], before, es, i - 1)
        BY <1>6
    <2>2. upto[i] = Copy(upto[i - 1], es[i])
        BY <1>4, <1>6
    <2> QED
        BY <1>6, <2>1, <2>2, CopyEffect
<1>7. n \in S
    <2> HIDE DEF S
    <2>1. \A j \in 0..n : j \in S
        BY <1>2, <1>5, <1>6, RangeInduction
    <2> QED
        BY <1>2, <2>1
<1> QED
    BY <1>1, <1>7 DEF n

\* Over a volume that is empty or holds all the files, each file a script names is in
\* the end as one of the entries for it asks.
LEMMA RunObeys ==
    ASSUME NEW E, NEW es \in Seq(E), NEW B, NEW before, before = [t \in B |-> "old"],
           NEW i \in 1..Len(es)
    PROVE  \E j \in 1..Len(es) :
                /\ es[j].target = es[i].target
                /\ Run(es, before)[es[i].target] =
                    IF es[j].keep /\ es[i].target \in DOMAIN before THEN "old" ELSE es[j].from
<1> DEFINE t == es[i].target
           f == Run(es, before)
<1>1. Copied(f, before, es, Len(es))
    BY RunEffect
<1>2. Holds(f, before, es, Len(es), t)
    BY <1>1 DEF Copied
<1>3. \A u \in DOMAIN before : before[u] = "old"
    OBVIOUS
<1> HIDE DEF f
<1> QED
    BY <1>2, <1>3 DEF Holds, f

-----------------------------------------------------------------------------
(* The entries of a script ask for files that are in effect.               *)

Dirs(s) ==
    {p.dir : p \in Elems(s.plugins)} \cup {o.plugin : o \in Elems(s.server.overrides)}
        \cup {<<"server">>}

Files(s) ==
    (UNION {Elems(p.configs) : p \in Elems(s.plugins)})
        \cup Elems(s.server.overrides) \cup Elems(s.server.files)

\* The entries that ask for what is in effect for their target
AskedEntries(s) ==
    {e \in {Entry(d, c) : d \in Dirs(s), c \in Files(s)} :
        \E c \in InEffect(s, e.target) : e.from = c.cm /\ e.keep = c.keep}

\* The three kinds of files in effect
GivenAt(s, name, path) ==
    {i \in DOMAIN s.server.overrides :
        s.server.overrides[i].plugin = name /\ s.server.overrides[i].path = path}

LastGiven(s, i) ==
    LET o == s.server.overrides[i]
    IN  \A k \in GivenAt(s, o.plugin, o.path) : k <= i

LivesIn(s, name, d) ==
    \/ \E p \in Elems(s.plugins) : p.name = name /\ p.dir = d
    \/ d = name /\ \A p \in Elems(s.plugins) : p.name # name

\* An override that no later one replaces is in effect where its plugin lives.
LEMMA OverInEffect ==
    ASSUME NEW s, NEW i \in DOMAIN s.server.overrides, LastGiven(s, i), NEW d,
           LivesIn(s, s.server.overrides[i].plugin, d)
    PROVE  s.server.overrides[i] \in InEffect(s, <<d, s.server.overrides[i].path>>)
<1> DEFINE all == s.server.overrides
           t == <<d, all[i].path>>
           given(name, path) == {k \in DOMAIN all : all[k].plugin = name /\ all[k].path = path}
           dirs(name) == {p.dir : p \in {q \in Elems(s.plugins) : q.name = name}}
           home(name) == IF dirs(name) = {} THEN {name} ELSE dirs(name)
           over == {all[k] : k \in {j \in DOMAIN all :
                    /\ t[2] = all[j].path /\ t[1] \in home(all[j].plugin)
                    /\ \A h \in given(all[j].plugin, all[j].path) : h <= j}}
<1>1. over \subseteq InEffect(s, t)
    BY DEF InEffect
<1>2. t[2] = all[i].path /\ t[1] = d
    OBVIOUS
<1>3. \A h \in given(all[i].plugin, all[i].path) : h <= i
    BY DEF LastGiven, GivenAt
<1>4. d \in home(all[i].plugin)
    BY DEF LivesIn
<1> HIDE DEF home, given, t
<1>5. all[i] \in over
    BY <1>2, <1>3, <1>4
<1> HIDE DEF over
<1> QED
    BY <1>1, <1>5 DEF t

\* A plugin's own file is in effect where the server gives no override.
LEMMA OwnInEffect ==
    ASSUME NEW s, NEW p \in Elems(s.plugins), NEW c \in Elems(p.configs),
           GivenAt(s, p.name, c.path) = {}
    PROVE  c \in InEffect(s, <<p.dir, c.path>>)
<1> DEFINE t == <<p.dir, c.path>>
           all == s.server.overrides
           given(name, path) == {k \in DOMAIN all : all[k].plugin = name /\ all[k].path = path}
           Of(q) == {b \in Elems(q.configs) : <<q.dir, b.path>> = t /\ given(q.name, b.path) = {}}
           own == UNION {Of(q) : q \in Elems(s.plugins)}
<1>1. own \subseteq InEffect(s, t)
    BY DEF InEffect
<1>2. c \in Of(p)
    BY DEF GivenAt
<1> HIDE DEF Of
<1>3. c \in own
    BY <1>2
<1> HIDE DEF own
<1> QED
    BY <1>1, <1>3

\* A file of the server is in effect.
LEMMA LevelInEffect ==
    ASSUME NEW s, NEW c \in Elems(s.server.files)
    PROVE  c \in InEffect(s, <<<<"server">>, c.path>>)
BY DEF InEffect

\* What is in effect may be asked for.
LEMMA EntryAsked ==
    ASSUME NEW s, NEW d \in Dirs(s), NEW c \in Files(s), c \in InEffect(s, <<d, c.path>>)
    PROVE  Entry(d, c) \in AskedEntries(s)
<1> DEFINE e == Entry(d, c)
<1>1. e.target = <<d, c.path>> /\ e.from = c.cm /\ e.keep = c.keep
    BY DEF Entry
<1>2. e \in {Entry(x, y) : x \in Dirs(s), y \in Files(s)}
    OBVIOUS
<1> HIDE DEF e
<1> QED
    BY <1>1, <1>2 DEF AskedEntries, e

\* buildServerOverridesMap: an override it keeps, written where its plugin lives
LEMMA OverrideAsked ==
    ASSUME NEW s \in Specs, NEW name, NEW o \in Overrides(s, name), NEW d,
           LivesIn(s, name, d)
    PROVE  Entry(d, o) \in AskedEntries(s)
<1> DEFINE all == s.server.overrides
           of == {i \in DOMAIN all : all[i].plugin = name}
<1>1. all \in Seq(Elems(all))
    BY ListAssumption
<1>2. Len(all) \in Nat /\ DOMAIN all = 1..Len(all)
    BY <1>1, LenProperties
<1>3. PICK i \in of : o = all[i] /\ \A k \in of : k > i => all[k].path # all[i].path
    BY DEF Overrides
<1>4. LastGiven(s, i)
    <2> SUFFICES ASSUME NEW k \in GivenAt(s, name, all[i].path)
                 PROVE  k <= i
        BY <1>3 DEF LastGiven
    <2>1. k \in of /\ all[k].path = all[i].path
        BY DEF GivenAt
    <2>2. i \in Int /\ k \in Int
        BY <1>2, <2>1
    <2> QED
        BY <1>3, <2>1, <2>2
<1>5. o \in InEffect(s, <<d, o.path>>)
    BY <1>3, <1>4, OverInEffect
<1>6. o \in Elems(all) /\ o.plugin = name
    BY <1>3 DEF Elems
<1>7. d \in Dirs(s) /\ o \in Files(s)
    BY <1>6 DEF LivesIn, Dirs, Files
<1> QED
    BY <1>5, <1>7, EntryAsked

\* A plugin's own file that no override replaces, written where the plugin lives
LEMMA OwnAsked ==
    ASSUME NEW s \in Specs, NEW p \in Elems(s.plugins), NEW c \in Elems(p.configs),
           \A o \in Overrides(s, p.name) : o.path # c.path
    PROVE  Entry(p.dir, c) \in AskedEntries(s)
<1> DEFINE all == s.server.overrides
           S == GivenAt(s, p.name, c.path)
<1>1. all \in Seq(Elems(all))
    BY ListAssumption
<1>2. Len(all) \in Nat /\ DOMAIN all = 1..Len(all)
    BY <1>1, LenProperties
<1>3. S = {}
    <2> SUFFICES ASSUME S # {} PROVE FALSE
        OBVIOUS
    <2>1. S \subseteq 1..Len(all)
        BY <1>2 DEF GivenAt
    <2>2. PICK m \in S : \A y \in S : y <= m
        <3> HIDE DEF S
        <3> QED
            BY <1>2, <2>1, LastPosition
    <2>3. all[m] \in Overrides(s, p.name)
        <3>1. m \in DOMAIN all /\ all[m].plugin = p.name /\ all[m].path = c.path
            BY DEF GivenAt
        <3>2. ASSUME NEW k \in DOMAIN all, all[k].plugin = p.name, k > m
              PROVE  all[k].path # all[m].path
            <4>1. k \in Int /\ m \in Int
                BY <1>2, <3>1
            <4>2. k \notin S
                BY <2>2, <3>2, <4>1
            <4> QED
                BY <3>1, <3>2, <4>2 DEF GivenAt
        <3> HIDE DEF S
        <3> QED
            BY <3>1, <3>2 DEF Overrides
    <2> QED
        BY <2>3 DEF GivenAt
<1>4. c \in InEffect(s, <<p.dir, c.path>>)
    BY <1>3, OwnInEffect
<1>5. p.dir \in Dirs(s)
    BY DEF Dirs
<1>6. c \in Files(s)
    <2>1. c \in UNION {Elems(q.configs) : q \in Elems(s.plugins)}
        OBVIOUS
    <2> QED
        BY <2>1 DEF Files
<1> QED
    BY <1>4, <1>5, <1>6, EntryAsked

\* The overrides of a server, or some of them, in any order are a list.
LEMMA OrderIsList ==
    ASSUME NEW s \in Specs, NEW S, S \subseteq Elems(s.server.overrides), NEW t \in AnyOrder(S)
    PROVE  t \in Seq(S)
<1> DEFINE all == s.server.overrides
           n == Len(all)
           f == [i \in 1..n |-> all[i]]
<1>1. all \in Seq(Elems(all))
    BY ListAssumption
<1>2. n \in Nat /\ DOMAIN all = 1..n
    BY <1>1, LenProperties
<1> HIDE DEF n
<1>3. f \in Surjection(1..n, Elems(all))
    BY <1>2 DEF Surjection, Elems
<1> HIDE DEF f
<1>4. IsFiniteSet(1..n)
    BY <1>2, FS_Interval
<1>5. IsFiniteSet(Elems(all))
    BY <1>3, <1>4, FS_Surjection
<1>6. IsFiniteSet(S)
    BY <1>5, FS_Subset
<1>7. Cardinality(S) \in Nat
    BY <1>6, FS_CardinalityType
<1>8. t \in [1..Cardinality(S) -> S]
    BY DEF AnyOrder, SetToSeqs
<1> QED
    BY <1>7, <1>8

\* A list of files, each of which may be asked for in d
LEMMA EntriesList ==
    ASSUME NEW S, NEW t \in Seq(S), NEW d, NEW E, \A o \in S : Entry(d, o) \in E
    PROVE  [i \in DOMAIN t |-> Entry(d, t[i])] \in Seq(E)
<1> DEFINE u == [i \in DOMAIN t |-> Entry(d, t[i])]
<1>1. Len(t) \in Nat /\ DOMAIN t = 1..Len(t) /\ \A i \in 1..Len(t) : t[i] \in S
    BY LenProperties, ElementOfSeq
<1>2. u \in [1..Len(t) -> E]
    BY <1>1
<1> HIDE DEF u
<1>3. u \in Seq(E)
    BY <1>1, <1>2
<1> QED
    BY <1>3 DEF u

\* resolvePluginConfigs
LEMMA ResolvedAsked ==
    ASSUME NEW s \in Specs, NEW p \in Elems(s.plugins), NEW l \in ResolvePluginConfigs(s, p)
    PROVE  l \in Seq(AskedEntries(s))
<1> DEFINE E == AskedEntries(s)
           over == Overrides(s, p.name)
           effective(c) == IF \E o \in over : o.path = c.path
                           THEN CHOOSE o \in over : o.path = c.path ELSE c
           own == [i \in DOMAIN p.configs |-> Entry(p.dir, effective(p.configs[i]))]
           extra == {o \in over : \A c \in Elems(p.configs) : c.path # o.path}
<1>1. PICK t \in AnyOrder(extra) : l = own \o [i \in DOMAIN t |-> Entry(p.dir, t[i])]
    BY Zenon DEF ResolvePluginConfigs
<1>2. \A o \in over : Entry(p.dir, o) \in E
    <2>1. LivesIn(s, p.name, p.dir)
        BY DEF LivesIn
    <2> QED
        BY <2>1, OverrideAsked
<1>3. ASSUME NEW c \in Elems(p.configs)
      PROVE  Entry(p.dir, effective(c)) \in E
    <2>1. CASE \E o \in over : o.path = c.path
        <3>1. effective(c) \in over
            <4> HIDE DEF over
            <4> QED
                BY <2>1, Zenon
        <3> HIDE DEF effective, over
        <3> QED
            BY <1>2, <3>1
    <2>2. CASE ~\E o \in over : o.path = c.path
        <3>1. effective(c) = c
            BY <2>2
        <3>2. Entry(p.dir, c) \in E
            BY <2>2, OwnAsked
        <3> HIDE DEF effective, E
        <3> QED
            BY <3>1, <3>2
    <2> QED
        BY <2>1, <2>2
<1>4. own \in Seq(E)
    <2>1. p.configs \in Seq(Elems(p.configs))
        BY ListAssumption
    <2>2. /\ Len(p.configs) \in Nat /\ DOMAIN p.configs = 1..Len(p.configs)
          /\ \A i \in 1..Len(p.configs) : p.configs[i] \in Elems(p.configs)
        BY <2>1, LenProperties, ElementOfSeq
    <2> HIDE DEF effective, E
    <2>3. own \in [1..Len(p.configs) -> E]
        BY <1>3, <2>2
    <2> HIDE DEF own
    <2> QED
        BY <2>2, <2>3
<1>5. t \in Seq(extra)
    <2>1. extra \subseteq Elems(s.server.overrides)
        BY DEF Overrides, Elems
    <2> HIDE DEF extra
    <2> QED
        BY <2>1, OrderIsList
<1>6. [i \in DOMAIN t |-> Entry(p.dir, t[i])] \in Seq(E)
    <2>1. \A o \in extra : Entry(p.dir, o) \in E
        BY <1>2
    <2> HIDE DEF extra, E
    <2> QED
        BY <1>5, <2>1, EntriesList
<1> HIDE DEF own, E
<1> QED
    BY <1>1, <1>4, <1>6, ConcatProperties DEF E

\* collectPluginConfigEntries
LEMMA PluginAsked ==
    ASSUME NEW s \in Specs, NEW p \in Elems(s.plugins)
    PROVE  PluginEntries(s, p) \subseteq Seq(AskedEntries(s))
<1> DEFINE E == AskedEntries(s)
           over == Overrides(s, p.name)
           Made(t) == [i \in DOMAIN t |-> Entry(p.dir, t[i])]
<1>1. CASE p.dir = None \/ p.configs = <<>>
    <2>1. PluginEntries(s, p) = {Made(t) : t \in AnyOrder(over)}
        BY <1>1 DEF PluginEntries
    <2>2. LivesIn(s, p.name, p.dir)
        BY DEF LivesIn
    <2>3. \A o \in over : Entry(p.dir, o) \in E
        BY <2>2, OverrideAsked
    <2>4. over \subseteq Elems(s.server.overrides)
        BY DEF Overrides, Elems
    <2> HIDE DEF over, E
    <2>5. ASSUME NEW t \in AnyOrder(over)
          PROVE  Made(t) \in Seq(E)
        <3>1. t \in Seq(over)
            BY <2>4, OrderIsList
        <3> QED
            BY <2>3, <3>1, EntriesList
    <2> HIDE DEF Made
    <2> QED
        BY <2>1, <2>5 DEF E
<1>2. CASE ~(p.dir = None \/ p.configs = <<>>)
    <2>1. PluginEntries(s, p) = ResolvePluginConfigs(s, p)
        BY <1>2, Zenon DEF PluginEntries
    <2> QED
        BY <2>1, ResolvedAsked
<1> QED
    BY <1>1, <1>2

\* collectUnmatchedOverrideEntries
LEMMA UnmatchedAsked ==
    ASSUME NEW s \in Specs
    PROVE  UnmatchedEntries(s) \subseteq Seq(AskedEntries(s))
<1> DEFINE E == AskedEntries(s)
           unmatched == {o \in Elems(s.server.overrides) :
                            /\ o \in Overrides(s, o.plugin)
                            /\ \A p \in Elems(s.plugins) : p.name # o.plugin}
           Made(t) == [i \in DOMAIN t |-> Entry(t[i].plugin, t[i])]
<1>1. UnmatchedEntries(s) = {Made(t) : t \in AnyOrder(unmatched)}
    BY DEF UnmatchedEntries
<1>2. ASSUME NEW o \in unmatched
      PROVE  Entry(o.plugin, o) \in E
    <2>1. LivesIn(s, o.plugin, o.plugin)
        BY DEF LivesIn
    <2>2. o \in Overrides(s, o.plugin)
        OBVIOUS
    <2> QED
        BY <2>1, <2>2, OverrideAsked
<1>3. unmatched \subseteq Elems(s.server.overrides)
    OBVIOUS
<1> HIDE DEF unmatched, E
<1>4. ASSUME NEW t \in AnyOrder(unmatched)
      PROVE  Made(t) \in Seq(E)
    <2>1. t \in Seq(unmatched)
        BY <1>3, OrderIsList
    <2>2. Len(t) \in Nat /\ DOMAIN t = 1..Len(t) /\ \A i \in 1..Len(t) : t[i] \in unmatched
        BY <2>1, LenProperties, ElementOfSeq
    <2>3. Made(t) \in [1..Len(t) -> E]
        BY <1>2, <2>2
    <2> HIDE DEF Made
    <2> QED
        BY <2>2, <2>3
<1> HIDE DEF Made
<1> QED
    BY <1>1, <1>4 DEF E

\* buildConfigScript: whatever order Go ranges in, every entry of a script asks for a file
\* that is in effect.
LEMMA ScriptAsked ==
    ASSUME NEW s \in Specs, NEW sc \in Scripts[s]
    PROVE  \E es \in Seq(AskedEntries(s)) : sc = <<es, s.server.rcon>>
<1> DEFINE E == AskedEntries(s)
           n == Len(s.plugins)
           P(i) == PluginEntries(s, s.plugins[i])
           Def(f) == f = [i \in 0..n |-> IF i = 0 THEN {<<>>} ELSE Then(f[i - 1], P(i))]
           upto == CHOOSE f : Def(f)
           own == [i \in DOMAIN s.server.files |-> Entry(<<"server">>, s.server.files[i])]
           X == SUBSET Seq(E)
           G == [i \in 0..n |-> [A \in X |-> IF i = 0 THEN A ELSE Then(A, P(i))]]
<1>1. Scripts[s] = {<<e, s.server.rcon>> : e \in Then(Then(upto[n], UnmatchedEntries(s)), {own})}
    <2>1. Scripts[s] = BuildConfigScript(s)
        BY DEF Scripts
    <2>2. BuildConfigScript(s) =
            {<<e, s.server.rcon>> : e \in Then(Then(upto[n], UnmatchedEntries(s)), {own})}
        BY Zenon DEF BuildConfigScript
    <2> QED
        BY <2>1, <2>2, Zenon
<1>2. s.plugins \in Seq(Elems(s.plugins)) /\ s.server.files \in Seq(Elems(s.server.files))
    BY ListAssumption
<1>3. n \in Nat /\ 0 \in Nat /\ 0 <= n /\ n \in 0..n /\ 0 \in 0..n
    BY <1>2, LenProperties
<1>4. ASSUME NEW i \in 0..n, i # 0
      PROVE  P(i) \in X
    <2>1. i \in 1..n
        BY <1>3, <1>4
    <2>2. s.plugins[i] \in Elems(s.plugins)
        BY <1>2, <2>1, ElementOfSeq
    <2> QED
        BY <2>2, PluginAsked
<1>5. UnmatchedEntries(s) \in X
    BY UnmatchedAsked
<1>6. own \in Seq(E)
    <2>1. ASSUME NEW c \in Elems(s.server.files)
          PROVE  Entry(<<"server">>, c) \in E
        <3>1. c \in InEffect(s, <<<<"server">>, c.path>>)
            BY LevelInEffect
        <3>2. <<"server">> \in Dirs(s) /\ c \in Files(s)
            BY DEF Dirs, Files
        <3> QED
            BY <3>1, <3>2, EntryAsked
    <2> HIDE DEF E
    <2> QED
        BY <1>2, <2>1, EntriesList
<1> HIDE DEF n, P, own, E
<1>7. ASSUME NEW A \in X, NEW B \in X
      PROVE  Then(A, B) \in X
    <2>1. ASSUME NEW a \in A, NEW b \in B
          PROVE  a \o b \in Seq(E)
        <3>1. a \in Seq(E) /\ b \in Seq(E)
            OBVIOUS
        <3> QED
            BY <3>1, ConcatProperties
    <2>2. ASSUME NEW x \in Then(A, B)
          PROVE  x \in Seq(E)
        <3>1. PICK a \in A, b \in B : x = a \o b
            BY DEF Then
        <3> QED
            BY <2>1, <3>1, Zenon
    <2> QED
        BY <2>2
<1>8. \E f : Def(f)
    <2> HIDE DEF X
    <2>1. Rounds(G, 0, n, X)
        BY <1>4, <1>7 DEF Rounds
    <2>2. {<<>>} \in X
        BY EmptySeq DEF X
    <2>3. PICK f : GoesThrough(f, 0, n, X, {<<>>}, G)
        <3> HIDE DEF G
        <3> QED
            BY <1>3, <2>1, <2>2, Recursion
    <2>4. ASSUME NEW i \in 0..n, i # 0
          PROVE  f[i] = Then(f[i - 1], P(i))
        <3>1. f[i] = G[i][f[i - 1]] /\ f \in [0..n -> X]
            BY <2>3, <2>4 DEF GoesThrough
        <3>2. i - 1 \in 0..n
            BY <1>3, <2>4
        <3> QED
            BY <2>4, <3>1, <3>2
    <2>5. f \in [0..n -> X] /\ f[0] = {<<>>}
        BY <2>3 DEF GoesThrough
    <2>6. Def(f)
        BY <2>4, <2>5
    <2> QED
        BY <2>6
<1>9. Def(upto)
    <2> HIDE DEF Def
    <2> QED
        BY <1>8, Zenon
<1> HIDE DEF upto
<1> DEFINE S == {i \in 0..n : upto[i] \in X}
<1>10. 0 \in S
    <2>1. upto[0] = {<<>>}
        BY <1>3, <1>9
    <2>2. {<<>>} \in X
        BY EmptySeq
    <2> QED
        BY <1>3, <2>1, <2>2
<1>11. ASSUME NEW i \in 0..n, i # 0, i - 1 \in S PROVE i \in S
    <2> HIDE DEF X
    <2>1. upto[i] = Then(upto[i - 1], P(i))
        BY <1>9, <1>11
    <2> QED
        BY <1>4, <1>7, <1>11, <2>1
<1>12. upto[n] \in X
    <2> HIDE DEF S
    <2>1. \A j \in 0..n : j \in S
        BY <1>3, <1>10, <1>11, RangeInduction
    <2> QED
        BY <1>3, <2>1 DEF S
<1>13. {own} \in X
    BY <1>6
<1>14. Then(Then(upto[n], UnmatchedEntries(s)), {own}) \in X
    <2> HIDE DEF X
    <2> QED
        BY <1>5, <1>7, <1>12, <1>13
<1> QED
    BY <1>1, <1>14 DEF E

\* The script as it was written leaves each file as configured.
LEMMA WrittenScriptCarriesOut ==
    ASSUME NEW s \in Specs, NEW sc \in Scripts[s], NEW B,
           NEW before, before = [t \in B |-> "old"], NEW e \in Elems(sc[1])
    PROVE  \E c \in InEffect(s, e.target) :
                Run(sc[1], before)[e.target] =
                    IF c.keep /\ e.target \in DOMAIN before THEN "old" ELSE c.cm
<1>1. PICK es \in Seq(AskedEntries(s)) : sc = <<es, s.server.rcon>>
    BY ScriptAsked
<1>2. sc[1] = es
    BY <1>1
<1>3. DOMAIN es = 1..Len(es) /\ \A i \in 1..Len(es) : es[i] \in AskedEntries(s)
    BY <1>1, LenProperties, ElementOfSeq
<1>4. PICK i \in 1..Len(es) : e = es[i]
    BY <1>2, <1>3 DEF Elems
<1>5. PICK j \in 1..Len(es) :
        /\ es[j].target = e.target
        /\ Run(es, before)[e.target] =
            IF es[j].keep /\ e.target \in DOMAIN before THEN "old" ELSE es[j].from
    BY <1>4, RunObeys
<1>6. PICK c \in InEffect(s, es[j].target) : es[j].from = c.cm /\ es[j].keep = c.keep
    BY <1>3 DEF AskedEntries
<1> QED
    BY <1>2, <1>5, <1>6

-----------------------------------------------------------------------------
(* A server at rest.                                                       *)

ScriptRight(s) == script \in ScriptWanted(s)

TemplateRight(s) ==
    sts # None /\ \A f \in {"inject", "volumes", "secret"} : sts[f] = Template(s)[f]

RouteRight(s, k) == routes[k] = IF WantsRoute(s, k) THEN "ours" ELSE None

PolicyRight(s) ==
    /\ s.server.policy.enabled = FALSE => policy = None
    /\ s.server.policy.enabled /\ s.server.policy.valid => policy = OurPolicy(s)

\* What a step has made right stays so until the reconcile is over; the script may have been
\* left on the word of an outdated copy.
PassedInv ==
    drift = 0 /\ ~err =>
        /\ pc \in {"sts", "status"} \cup LateSteps => misled \/ ScriptRight(snap)
        /\ pc \in {"status"} \cup LateSteps => TemplateRight(snap)
        /\ pc \in {"udp", "listed", "http", "policy", "status"} => RouteRight(snap, "tcp")
        /\ pc \in {"listed", "http", "policy", "status"} => RouteRight(snap, "udp")
        /\ pc = "status" => PolicyRight(snap)

AllRight(s) ==
    /\ TemplateRight(s) /\ service = ServicePorts(s)
    /\ RouteRight(s, "tcp") /\ RouteRight(s, "udp")
    /\ Differing(s) = {} /\ Orphaned(s) = {} /\ PolicyRight(s)

\* A server that is not queued is as the last reconcile read it, and that reconcile has
\* passed all its steps.
RestInv ==
    /\ RouteTypes
    /\ ~queued => snap = spec
    /\ drift = 0 /\ pc = "idle" /\ ~queued => AllRight(snap) /\ (misled \/ ScriptRight(snap))

\* What is right depends on the objects alone.
LEMMA RightFrame ==
    ASSUME UNCHANGED <<script, sts, routes, policy, snap>>
    PROVE  /\ ScriptRight(snap)' = ScriptRight(snap)
           /\ TemplateRight(snap)' = TemplateRight(snap)
           /\ RouteRight(snap, "tcp")' = RouteRight(snap, "tcp")
           /\ RouteRight(snap, "udp")' = RouteRight(snap, "udp")
           /\ PolicyRight(snap)' = PolicyRight(snap)
<1>1. ScriptRight(snap)' = ScriptRight(snap)
    BY DEF ScriptRight, ScriptWanted, HasScript
<1>2. TemplateRight(snap)' = TemplateRight(snap)
    BY DEF TemplateRight, Template, HasScript, Mounted
<1>3. RouteRight(snap, "tcp")' = RouteRight(snap, "tcp")
    BY DEF RouteRight, WantsRoute
<1>4. RouteRight(snap, "udp")' = RouteRight(snap, "udp")
    BY DEF RouteRight, WantsRoute
<1>5. PolicyRight(snap)' = PolicyRight(snap)
    BY DEF PolicyRight, OurPolicy, PolicyPorts, Proto
<1> QED
    BY <1>1, <1>2, <1>3, <1>4, <1>5

\* ensureStatefulSet: a template that is left as it is has all that is compared.
LEMMA StatefulSetRight ==
    ASSUME InfraTypes, EnsureStatefulSet
    PROVE  TemplateRight(snap)'
<1>0. snap' = snap /\ Template(snap) # None
    BY ScriptAssumption DEF EnsureStatefulSet, Goto, InfraTypes
<1> DEFINE t == Template(snap)
<1>1. DOMAIN t = TemplateFields
    BY TemplateMounts
<1> HIDE DEF t
<1>2. sts' # None /\ \A f \in {"inject", "volumes", "secret"} : sts'[f] = t[f]
    <2>1. CASE sts' = t
        BY <1>0, <2>1 DEF t
    <2>2. CASE sts # None /\ sts' = sts /\ ~TemplateChanged(sts, t)
        <3>1. DOMAIN sts = TemplateFields
            BY <2>2 DEF InfraTypes
        <3>2. [sts EXCEPT !.env = 0] = [t EXCEPT !.env = 0]
            BY <2>2 DEF TemplateChanged
        <3>3. ASSUME NEW f \in {"inject", "volumes", "secret"}
              PROVE  sts[f] = t[f]
            <4>1. [sts EXCEPT !.env = 0][f] = sts[f] /\ [t EXCEPT !.env = 0][f] = t[f]
                BY <1>1, <3>1 DEF TemplateFields
            <4> QED
                BY <3>2, <4>1
        <3> QED
            BY <2>2, <3>3
    <2> QED
        BY <2>1, <2>2, Zenon DEF EnsureStatefulSet, t
<1>3. Template(snap)' = t
    BY <1>0 DEF t, Template, HasScript, Mounted
<1> QED
    BY <1>2, <1>3 DEF TemplateRight

\* reconcileTCPRoute, reconcileUDPRoute
LEMMA RouteEffect ==
    ASSUME RouteTypes, NEW k \in {"tcp", "udp"}, NEW next, ReconcileRoute(k, next)
    PROVE  /\ UNCHANGED <<spec, scripts, sts, service, http, policy, snap, err, queued, drift>>
           /\ pc = k /\ pc' = next
           /\ RouteRight(snap, k)'
           /\ \A j \in {"tcp", "udp"} : j # k => routes'[j] = routes[j]
<1>1. /\ UNCHANGED <<spec, scripts, sts, service, http, policy, snap, err, queued, drift>>
      /\ pc = k /\ pc' = next
    BY DEF ReconcileRoute, Goto, bounds
<1>2. RouteRight(snap, k)'
    BY <1>1, RouteWritten DEF RouteRight, WantsRoute
<1> QED
    BY <1>1, <1>2, RouteWritten

\* No step undoes what an earlier one of the same reconcile has made right.
LEMMA PassedStep ==
    ASSUME InfraTypes, RestInv, PassedInv, [Next]_vars
    PROVE  PassedInv'
<1> USE DEF PassedInv, scripts
<1>0. drift \in Nat /\ err \in BOOLEAN /\ (pc \notin {"idle", "status"} => ~err)
    BY DEF InfraTypes
<1>1. CASE Start \/ Resync \/ Crash \/ WriteStatus
    <2>1. pc' \in {"idle", "script"}
        BY <1>1 DEF Start, Resync, Crash, WriteStatus
    <2> QED
        BY <2>1 DEF LateSteps
<1>2. CASE EnsureConfigScript
    <2>1. snap' = snap /\ pc' = "sts" /\ (misled' \/ script' \in ScriptWanted(snap))
        BY <1>2, ScriptEffect
    <2>2. misled' \/ ScriptRight(snap)'
        BY <2>1 DEF ScriptRight, ScriptWanted, HasScript
    <2> QED
        BY <2>1, <2>2 DEF LateSteps
<1>3. CASE EnsureStatefulSet
    <2>1. UNCHANGED <<scripts, snap, err, drift>> /\ pc = "sts" /\ pc' = "service"
        BY <1>3 DEF EnsureStatefulSet, Goto, bounds
    <2>2. TemplateRight(snap)'
        BY <1>3, StatefulSetRight
    <2>3. ScriptRight(snap)' = ScriptRight(snap)
        BY <2>1 DEF ScriptRight, ScriptWanted, HasScript
    <2> QED
        BY <2>1, <2>2, <2>3
<1>4. CASE EnsureService
    <2>1. UNCHANGED <<scripts, sts, routes, policy, snap, err, drift>> /\ pc = "service" /\ pc' = "tcp"
        BY <1>4 DEF EnsureService, Goto, bounds
    <2> QED
        BY <2>1, RightFrame DEF LateSteps
<1>5. CASE ReconcileTCPRoute
    <2>1. /\ UNCHANGED <<scripts, sts, policy, snap, err, drift>> /\ pc = "tcp" /\ pc' = "udp"
          /\ RouteRight(snap, "tcp")'
        BY <1>5, RouteEffect DEF ReconcileTCPRoute, RestInv
    <2>2. ScriptRight(snap)' = ScriptRight(snap) /\ TemplateRight(snap)' = TemplateRight(snap)
        BY <2>1 DEF ScriptRight, ScriptWanted, HasScript, TemplateRight, Template, Mounted
    <2> QED
        BY <2>1, <2>2 DEF LateSteps
<1>6. CASE ReconcileUDPRoute
    <2>1. /\ UNCHANGED <<scripts, sts, policy, snap, err, drift>> /\ pc = "udp" /\ pc' = "listed"
          /\ RouteRight(snap, "udp")' /\ routes'["tcp"] = routes["tcp"]
        BY <1>6, RouteEffect DEF ReconcileUDPRoute, RestInv
    <2>2. ScriptRight(snap)' = ScriptRight(snap) /\ TemplateRight(snap)' = TemplateRight(snap)
        BY <2>1 DEF ScriptRight, ScriptWanted, HasScript, TemplateRight, Template, Mounted
    <2>3. RouteRight(snap, "tcp")' = RouteRight(snap, "tcp")
        BY <2>1 DEF RouteRight, WantsRoute
    <2> QED
        BY <2>1, <2>2, <2>3 DEF LateSteps
<1>7. CASE JudgeHTTPRoutes \/ HTTPRoutesDone \/ ApplyHTTPRoute \/ DeleteOrphanedHTTPRoute
    <2>1. /\ UNCHANGED <<scripts, sts, routes, policy, snap, err, drift>>
          /\ pc \in {"listed", "http"} /\ pc' \in {"http", "policy"}
        BY <1>7 DEF JudgeHTTPRoutes, HTTPRoutesDone, ApplyHTTPRoute, DeleteOrphanedHTTPRoute,
                    Goto, objects, memory, bounds
    <2> QED
        BY <2>1, RightFrame DEF LateSteps
<1>8. CASE CallFails \/ ScriptRefused \/ RouteRefused \/ HTTPRouteRefused
    BY <1>8, FailingSteps
<1>9. CASE EnsureNetworkPolicy
    <2>1. UNCHANGED <<scripts, sts, routes, snap, drift>> /\ pc = "policy" /\ pc' = "status" /\ ~err
        BY <1>0, <1>9 DEF EnsureNetworkPolicy, bounds
    <2>2. /\ ScriptRight(snap)' = ScriptRight(snap) /\ TemplateRight(snap)' = TemplateRight(snap)
          /\ RouteRight(snap, "tcp")' = RouteRight(snap, "tcp")
          /\ RouteRight(snap, "udp")' = RouteRight(snap, "udp")
        BY <2>1 DEF ScriptRight, ScriptWanted, HasScript, TemplateRight, Template, Mounted, RouteRight, WantsRoute
    <2>3. ~err' => PolicyRight(snap)'
        <3> DEFINE np == snap.server.policy
        <3>1. \/ err' = TRUE
              \/ np.enabled /\ policy' = OurPolicy(snap)
              \/ ~np.enabled /\ policy' = None
            BY <1>9, Zenon DEF EnsureNetworkPolicy, OurPolicy
        <3>2. OurPolicy(snap)' = OurPolicy(snap)
            BY <2>1 DEF OurPolicy, PolicyPorts, Proto
        <3> QED
            BY <2>1, <3>1, <3>2 DEF PolicyRight
    <2> QED
        BY <2>1, <2>2, <2>3 DEF LateSteps
<1>10. CASE EditSpec \/ SyncScript \/ PodStarts \/ EditConfigMaps \/ UNCHANGED vars
    <2>1. UNCHANGED <<script, misled, sts, routes, policy, pc, snap, err, drift>>
        BY <1>10 DEF EditSpec, SyncScript, PodStarts, EditConfigMaps, vars, objects, memory, bounds
    <2> QED
        BY <2>1, RightFrame
<1>11. CASE Drift
    <2>1. drift' # 0
        BY <1>0, <1>11 DEF Drift
    <2> QED
        BY <1>0, <2>1
<1> QED
    BY <1>1, <1>2, <1>3, <1>4, <1>5, <1>6, <1>7, <1>8, <1>9, <1>10, <1>11 DEF Next, Steps

\* All the objects are left alone: what is right stays right.
LEMMA AllRightFrame ==
    ASSUME UNCHANGED <<script, sts, service, routes, http, policy, snap>>
    PROVE  AllRight(snap)' = AllRight(snap) /\ ScriptRight(snap)' = ScriptRight(snap)
<1>1. ServicePorts(snap)' = ServicePorts(snap)
    BY DEF ServicePorts, Proto
<1> QED
    BY <1>1, RightFrame, RoutesFrame DEF AllRight

\* A server leaves the queue to be reconciled as it is, and rests when that has passed.
LEMMA RestStep ==
    ASSUME InfraTypes, EnsuredInv, PassedInv, RestInv, [Next]_vars
    PROVE  RestInv'
<1> USE DEF RestInv, scripts
<1>0. drift \in Nat /\ err \in BOOLEAN /\ queued \in BOOLEAN /\ stale \in BOOLEAN /\ RouteTypes'
    BY RoutesStep DEF InfraTypes
<1>1. CASE Start
    <2>1. snap' = spec /\ spec' = spec /\ pc' = "script"
        BY <1>1 DEF Start, objects
    <2> QED
        BY <1>0, <2>1
<1>2. CASE ReconcileTCPRoute \/ ReconcileUDPRoute
    <2>1. UNCHANGED <<spec, snap, queued>> /\ pc' # "idle"
        BY <1>2, RouteEffect DEF ReconcileTCPRoute, ReconcileUDPRoute
    <2> QED
        BY <1>0, <2>1
<1>3. CASE EnsureConfigScript \/ EnsureStatefulSet \/ EnsureService \/ JudgeHTTPRoutes
           \/ HTTPRoutesDone \/ ApplyHTTPRoute \/ DeleteOrphanedHTTPRoute
           \/ CallFails \/ ScriptRefused \/ RouteRefused \/ HTTPRouteRefused
           \/ EnsureNetworkPolicy
    <2>1. UNCHANGED <<spec, snap, queued>> /\ pc' # "idle"
        BY <1>3 DEF EnsureConfigScript, EnsureStatefulSet, EnsureService, JudgeHTTPRoutes,
                    HTTPRoutesDone, ApplyHTTPRoute, DeleteOrphanedHTTPRoute, CallFails,
                    ScriptRefused, RouteRefused, HTTPRouteRefused, EnsureNetworkPolicy, Goto, objects, memory
    <2> QED
        BY <1>0, <2>1
<1>4. CASE WriteStatus
    <2>1. /\ UNCHANGED <<spec, snap, scripts, sts, service, routes, http, policy, drift>>
          /\ pc = "status" /\ queued' = (queued \/ (err \/ stale))
        BY <1>4 DEF WriteStatus, Requeue, objects, bounds
    <2>2. ~queued' => ~queued /\ ~err
        BY <1>0, <2>1
    <2>3. drift = 0 /\ ~err => AllRight(snap) /\ (misled \/ ScriptRight(snap))
        BY <2>1 DEF EnsuredInv, PassedInv, AllRight
    <2> QED
        BY <1>0, <2>1, <2>2, <2>3, AllRightFrame
<1>5. CASE Resync \/ Crash \/ EditSpec
    <2>1. queued' = TRUE
        BY <1>5 DEF Resync, Crash, EditSpec
    <2> QED
        BY <1>0, <2>1
<1>6. CASE SyncScript \/ PodStarts \/ EditConfigMaps \/ UNCHANGED vars
    <2>1. UNCHANGED <<spec, script, misled, sts, service, routes, http, policy, pc, snap, queued,
                      drift>>
        BY <1>6, CopySteps, QuietSteps
    <2> QED
        BY <1>0, <2>1, AllRightFrame
<1>7. CASE Drift
    <2>1. drift' # 0
        BY <1>0, <1>7 DEF Drift
    <2>2. UNCHANGED <<spec, snap>>
        BY <1>7 DEF Drift
    <2>3. queued' = queued \/ queued' = TRUE
        BY <1>7, Zenon DEF Drift
    <2> QED
        BY <1>0, <2>1, <2>2, <2>3
<1> QED
    BY <1>1, <1>2, <1>3, <1>4, <1>5, <1>6, <1>7 DEF Next, Steps

\* buildDesiredHTTPRoutes: a wanted route is the server's own.
LEMMA DesiredOwned ==
    ASSUME NEW s, NEW n \in DOMAIN DesiredHTTPRoutes(s)
    PROVE  DesiredHTTPRoutes(s)[n].own = TRUE
<1> DEFINE gw == s.server.gateway
           valid == IF gw.enabled THEN {i \in DOMAIN gw.http : HTTPEndpoints(s, gw.http[i]) # {}}
                    ELSE {}
           Latest(m) == CHOOSE i \in valid : /\ RouteName(gw.http[i]) = m
                                             /\ \A j \in valid : RouteName(gw.http[j]) = m => j <= i
           Names == {RouteName(gw.http[i]) : i \in valid}
           Made(m) == [host |-> gw.http[Latest(m)].host, own |-> TRUE,
                       port |-> (CHOOSE ep \in HTTPEndpoints(s, gw.http[Latest(m)]) : TRUE).port]
<1>1. DesiredHTTPRoutes(s) = [m \in Names |-> Made(m)]
    BY Zenon DEF DesiredHTTPRoutes
<1>2. Made(n).own = TRUE
    <2> HIDE DEF Latest
    <2> QED
        BY Zenon
<1> HIDE DEF Names, Made
<1> QED
    BY <1>1, <1>2

\* What the steps have made right, and a server at rest
THEOREM RestInvariant == Spec => [](PassedInv /\ RestInv)
<1>1. Init => PassedInv /\ RestInv
    <2> SUFFICES ASSUME Init PROVE PassedInv /\ RestInv
        OBVIOUS
    <2>1. RouteTypes
        BY RouteTypesInit
    <2> QED
        BY <2>1 DEF Init, PassedInv, RestInv, LateSteps
<1>2. InfraInv /\ PassedInv /\ RestInv /\ [Next]_vars => PassedInv' /\ RestInv'
    BY PassedStep, RestStep DEF InfraInv
<1> QED
    BY <1>1, <1>2, InfraInvariant, PTL DEF Spec

\* In whatever order Go ranges over its maps, whatever plugins, overrides and files the
\* server has and whatever is edited or fails meanwhile: a script that a reconcile has
\* written, or found in a copy that was not outdated, leaves each of its files as
\* configured, over an empty volume and over one where they all exist.
THEOREM ScriptSafe == Spec => []ScriptCarriesOut
<1>1. InfraInv /\ PassedInv => ScriptCarriesOut
    <2> SUFFICES ASSUME InfraInv, PassedInv, pc \notin {"idle", "script"}, ~err,
                        script # None, drift = 0, ~misled,
                        NEW targets, targets = {e.target : e \in Elems(script[1])},
                        NEW before \in {[t \in {} |-> "old"], [t \in targets |-> "old"]},
                        NEW u \in targets
                 PROVE  \E c \in InEffect(snap, u) :
                            Run(script[1], before)[u] =
                                IF c.keep /\ u \in DOMAIN before THEN "old" ELSE c.cm
        BY Zenon DEF ScriptCarriesOut
    <2>1. snap \in Specs /\ ScriptRight(snap)
        BY DEF InfraInv, InfraTypes, EarlySteps, PassedInv
    <2>2. script \in Scripts[snap]
        BY <2>1 DEF ScriptRight, ScriptWanted
    <2>3. PICK e \in Elems(script[1]) : u = e.target
        OBVIOUS
    <2>4. PICK B : before = [t \in B |-> "old"]
        OBVIOUS
    <2> QED
        BY <2>1, <2>2, <2>3, <2>4, WrittenScriptCarriesOut
<1> QED
    BY <1>1, InfraInvariant, RestInvariant, PTL

HTTPRight(s) ==
    /\ {n \in DOMAIN http : http[n].own} = DOMAIN DesiredHTTPRoutes(s)
    /\ \A n \in DOMAIN DesiredHTTPRoutes(s) : http[n] = DesiredHTTPRoutes(s)[n]

\* All the parts of what a server wants
Complete(s) ==
    /\ TemplateRight(s) /\ service = ServicePorts(s)
    /\ RouteRight(s, "tcp") /\ RouteRight(s, "udp") /\ HTTPRight(s) /\ PolicyRight(s)

\* What is there is what is wanted, up to a step that is denied.
LEMMA CompleteIsEnsured == Complete(spec) => ObjectsEnsured
BY DEF Complete, ObjectsEnsured, TemplateRight, RouteRight, HTTPRight, PolicyRight, OurPolicy

\* Where no step is denied that is all of it.
LEMMA EnsuredIsComplete == ObjectsEnsured /\ Denied(spec) = {} => Complete(spec)
<1> SUFFICES ASSUME ObjectsEnsured, Denied(spec) = {} PROVE Complete(spec)
    OBVIOUS
<1>1. \A S : Denied(spec) \cap S = {}
    OBVIOUS
<1> QED
    BY <1>1 DEF Complete, ObjectsEnsured, TemplateRight, RouteRight, HTTPRight, PolicyRight, OurPolicy

\* Whatever is edited in the middle of a reconcile, whichever step fails, conflicts or is
\* cut short by a crash: a server that nobody works on and that is not in the queue has
\* its StatefulSet, Service, routes and NetworkPolicy as it wants them, and its script, too,
\* unless an outdated copy of it was compared.
THEOREM RestSafe == Spec => []RestMeansEnsured
<1>1. RestInv => RestMeansEnsured
    <2> SUFFICES ASSUME RestInv, pc = "idle", ~queued, drift = 0
                 PROVE  ObjectsEnsured /\ (misled \/ ScriptEnsured)
        BY DEF RestMeansEnsured
    <2>1. AllRight(spec) /\ (misled \/ ScriptEnsured)
        BY DEF RestInv, ScriptRight, ScriptEnsured
    <2>2. {n \in DOMAIN http : http[n].own} = DOMAIN DesiredHTTPRoutes(spec)
        <3>1. ASSUME NEW n \in DOMAIN http, http[n].own
              PROVE  n \in DOMAIN DesiredHTTPRoutes(spec)
            BY <2>1, <3>1 DEF AllRight, Orphaned, Owned
        <3>2. ASSUME NEW n \in DOMAIN DesiredHTTPRoutes(spec)
              PROVE  n \in DOMAIN http /\ http[n].own
            BY <2>1, DesiredOwned DEF AllRight, Differing
        <3> QED
            BY <3>1, <3>2
    <2>3. \A n \in DOMAIN DesiredHTTPRoutes(spec) : http[n] = DesiredHTTPRoutes(spec)[n]
        BY <2>1 DEF AllRight, Differing
    <2>4. Complete(spec)
        BY <2>1, <2>2, <2>3 DEF Complete, AllRight, HTTPRight
    <2> QED
        BY <2>1, <2>4, CompleteIsEnsured
<1> QED
    BY <1>1, RestInvariant, PTL

\* No pod template is left with a script that is gone.
ScriptStaysMounted ==
    pc = "idle" /\ ~queued /\ drift = 0 /\ ~misled =>
        sts # None /\ (sts.inject => script # None)

\* Whatever fails and whenever the operator crashes between the removal of the script and
\* the StatefulSet, no template keeps mounting a script that is gone without the server
\* being queued.
THEOREM ScriptMountSafe == Spec => []ScriptStaysMounted
<1>1. InfraInv /\ RestMeansEnsured => ScriptStaysMounted
    <2> SUFFICES ASSUME InfraInv, RestMeansEnsured, pc = "idle", ~queued, drift = 0, ~misled
                 PROVE  sts # None /\ (sts.inject => script # None)
        BY DEF ScriptStaysMounted
    <2>1. /\ script \in ScriptWanted(spec) /\ spec \in Specs
          /\ sts # None /\ sts["inject"] = Template(spec)["inject"]
        BY DEF RestMeansEnsured, ObjectsEnsured, ScriptEnsured, InfraInv, InfraTypes
    <2>2. Template(spec).inject <=> HasScript(spec)
        BY TemplateMounts
    <2>3. HasScript(spec) => script # None
        BY <2>1, ScriptAssumption DEF ScriptWanted
    <2> QED
        BY <2>1, <2>2, <2>3
<1> QED
    BY <1>1, InfraInvariant, RestSafe, PTL

-----------------------------------------------------------------------------
(* A server that has all it wants.                                         *)

\* A further reconcile of a server that has all it wants, by a controller that sees the
\* server as it is, keeps it so and touches neither the StatefulSet (the pod would be
\* restarted) nor the Service nor the routes, and puts no other script in place.
EnsuredStays ==
    [][ObjectsEnsured /\ ScriptEnsured /\ Denied(spec) = {} /\ (pc # "idle" => snap = spec)
            /\ spec' = spec /\ drift' = drift
        => ObjectsEnsured' /\ ScriptEnsured' /\ UNCHANGED <<sts, service, routes, http>>]_vars

\* ensureStatefulSet: nothing that is compared differs, so nothing is written.
LEMMA StatefulSetLeft ==
    ASSUME InfraTypes, TemplateRight(snap), EnsureStatefulSet
    PROVE  sts' = sts
<1> DEFINE t == Template(snap)
<1>1. DOMAIN t = TemplateFields
    BY TemplateMounts
<1>2. /\ DOMAIN sts = TemplateFields /\ sts # None
      /\ \A f \in {"inject", "volumes", "secret"} : sts[f] = t[f]
    BY DEF InfraTypes, TemplateRight
<1> HIDE DEF t
<1>3. [sts EXCEPT !.env = 0] = [t EXCEPT !.env = 0]
    BY <1>1, <1>2 DEF TemplateFields
<1>4. ~TemplateChanged(sts, t)
    BY <1>3 DEF TemplateChanged
<1> QED
    BY <1>2, <1>4 DEF EnsureStatefulSet, t

\* Wanted routes that are all there, and no others: there is nothing to write or delete.
LEMMA NothingToRoute ==
    ASSUME NEW s, HTTPRight(s)
    PROVE  Differing(s) = {} /\ Orphaned(s) = {}
BY DEF HTTPRight, Differing, Orphaned, Owned

\* A route that is as wanted is written as it is.
LEMMA RouteLeft ==
    ASSUME RouteTypes, NEW k \in {"tcp", "udp"}, NEW next, ReconcileRoute(k, next),
           RouteRight(snap, k)
    PROVE  routes' = routes
<1>1. routes'[k] = routes[k]
    BY RouteWritten DEF RouteRight
<1>2. \A j \in {"tcp", "udp"} : routes'[j] = routes[j]
    BY <1>1, RouteWritten
<1>3. RouteTypes'
    BY RouteWritten
<1> QED
    BY <1>2, <1>3 DEF RouteTypes

\* One step of a reconcile that sees the server as it is
LEMMA EnsuredStaysStep ==
    ASSUME InfraTypes, RestInv, [Next]_vars, ObjectsEnsured, ScriptEnsured, Denied(spec) = {},
           pc # "idle" => snap = spec, spec' = spec, drift' = drift
    PROVE  ObjectsEnsured' /\ ScriptEnsured' /\ UNCHANGED <<sts, service, routes, http>>
<1>0. /\ TemplateRight(spec) /\ service = ServicePorts(spec)
      /\ RouteRight(spec, "tcp") /\ RouteRight(spec, "udp") /\ HTTPRight(spec) /\ PolicyRight(spec)
    BY EnsuredIsComplete DEF Complete
<1>1. ASSUME UNCHANGED <<sts, service, routes, http>>, PolicyRight(spec)'
      PROVE  ObjectsEnsured'
    <2>1. TemplateRight(spec)' = TemplateRight(spec)
        BY <1>1 DEF TemplateRight, Template, HasScript, Mounted
    <2>2. ServicePorts(spec)' = ServicePorts(spec)
        BY DEF ServicePorts, Proto
    <2>3. /\ RouteRight(spec, "tcp")' = RouteRight(spec, "tcp")
          /\ RouteRight(spec, "udp")' = RouteRight(spec, "udp")
        BY <1>1 DEF RouteRight, WantsRoute
    <2>4. HTTPRight(spec)' = HTTPRight(spec)
        BY <1>1 DEF HTTPRight
    <2>5. Complete(spec)'
        BY <1>0, <1>1, <2>1, <2>2, <2>3, <2>4 DEF Complete
    <2> QED
        BY <2>5 DEF Complete, ObjectsEnsured, TemplateRight, RouteRight, HTTPRight, PolicyRight,
                    OurPolicy
<1>2. ScriptEnsured'
    <2>1. script' = script \/ script' \in ScriptWanted(spec)
        <3>1. CASE EnsureConfigScript
            BY <3>1, ScriptEffect
        <3>2. CASE Drift
            BY <3>2 DEF Drift, InfraTypes
        <3>3. CASE [Next]_vars /\ ~EnsureConfigScript /\ ~Drift
            BY <3>3, ScriptLeft
        <3> QED
            BY <3>1, <3>2, <3>3
    <2>2. ScriptWanted(spec)' = ScriptWanted(spec)
        BY DEF ScriptWanted, HasScript
    <2> QED
        BY <2>1, <2>2 DEF ScriptEnsured
<1>3. ASSUME policy' = policy PROVE PolicyRight(spec)' = PolicyRight(spec)
    BY <1>3 DEF PolicyRight, OurPolicy, PolicyPorts, Proto
<1>4. CASE UNCHANGED <<sts, service, routes, http, policy>>
    BY <1>0, <1>1, <1>2, <1>3, <1>4
<1>5. CASE Start \/ JudgeHTTPRoutes \/ HTTPRoutesDone \/ WriteStatus \/ Resync \/ Crash
    <2>1. UNCHANGED <<sts, service, routes, http, policy>>
        BY <1>5 DEF Start, JudgeHTTPRoutes, HTTPRoutesDone, WriteStatus, Resync, Crash, objects
    <2> QED
        BY <1>4, <2>1
<1>6. CASE CallFails \/ ScriptRefused \/ RouteRefused \/ HTTPRouteRefused
    BY <1>4, <1>6, FailingSteps
<1>7. CASE EnsureConfigScript
    BY <1>4, <1>7, ScriptEffect
<1>8. CASE SyncScript \/ PodStarts \/ EditConfigMaps \/ UNCHANGED vars
    BY <1>4, <1>8, CopySteps, QuietSteps
<1>9. CASE EnsureStatefulSet
    <2>1. UNCHANGED <<service, routes, http, policy>> /\ snap = spec
        BY <1>9 DEF EnsureStatefulSet
    <2>2. sts' = sts
        BY <1>0, <1>9, <2>1, StatefulSetLeft
    <2> QED
        BY <1>4, <2>1, <2>2
<1>10. CASE EnsureService
    <2>1. UNCHANGED <<sts, routes, http, policy>> /\ snap = spec
        BY <1>10 DEF EnsureService
    <2>2. service' = service
        BY <1>0, <1>10, <2>1 DEF EnsureService
    <2> QED
        BY <1>4, <2>1, <2>2
<1>11. CASE ReconcileTCPRoute \/ ReconcileUDPRoute
    <2>1. UNCHANGED <<sts, service, http, policy>> /\ snap = spec
        BY <1>11 DEF ReconcileTCPRoute, ReconcileUDPRoute, ReconcileRoute
    <2>2. RouteTypes
        BY DEF RestInv
    <2>3. CASE ReconcileTCPRoute
        <3>1. ReconcileRoute("tcp", "udp")
            BY <2>3 DEF ReconcileTCPRoute
        <3>2. routes' = routes
            BY <1>0, <2>1, <2>2, <3>1, RouteLeft
        <3> QED
            BY <1>4, <2>1, <3>2
    <2>4. CASE ReconcileUDPRoute
        <3>1. ReconcileRoute("udp", "listed")
            BY <2>4 DEF ReconcileUDPRoute
        <3>2. routes' = routes
            BY <1>0, <2>1, <2>2, <3>1, RouteLeft
        <3> QED
            BY <1>4, <2>1, <3>2
    <2> QED
        BY <1>11, <2>3, <2>4
<1>12. CASE ApplyHTTPRoute \/ DeleteOrphanedHTTPRoute
    BY <1>0, <1>12, NothingToRoute DEF ApplyHTTPRoute, DeleteOrphanedHTTPRoute
<1>13. CASE EnsureNetworkPolicy
    <2>1. UNCHANGED <<sts, service, routes, http>> /\ snap = spec
        BY <1>13 DEF EnsureNetworkPolicy
    <2> DEFINE np == spec.server.policy
    <2>2. \/ policy' = policy
          \/ np.enabled /\ policy' = OurPolicy(spec)
          \/ ~np.enabled /\ policy' = None
        BY <1>13, <2>1, Zenon DEF EnsureNetworkPolicy, OurPolicy
    <2>3. OurPolicy(spec)' = OurPolicy(spec)
        BY DEF OurPolicy, PolicyPorts, Proto
    <2>4. PolicyRight(spec)'
        BY <1>0, <1>3, <2>2, <2>3 DEF PolicyRight
    <2> QED
        BY <1>1, <1>2, <2>1, <2>4
<1>14. CASE EditSpec
    BY <1>14 DEF EditSpec
<1>15. CASE Drift
    <2>1. drift \in Nat /\ drift' = drift + 1
        BY <1>15 DEF Drift, InfraTypes
    <2> QED
        BY <2>1
<1> QED
    BY <1>5, <1>6, <1>7, <1>8, <1>9, <1>10, <1>11, <1>12, <1>13, <1>14, <1>15 DEF Next, Steps

\* Reconciles of a server that has all it wants change nothing that matters, whatever
\* order the script's entries come in, however old the copy of it and whatever fails: no
\* StatefulSet is rewritten and so no pod restarted without an edit.
THEOREM EnsuredSafe == Spec => EnsuredStays
<1>1. InfraInv /\ RestInv /\ [Next]_vars =>
        (ObjectsEnsured /\ ScriptEnsured /\ Denied(spec) = {} /\ (pc # "idle" => snap = spec)
            /\ spec' = spec /\ drift' = drift
            => ObjectsEnsured' /\ ScriptEnsured' /\ UNCHANGED <<sts, service, routes, http>>)
    BY EnsuredStaysStep DEF InfraInv
<1> QED
    BY <1>1, InfraInvariant, RestInvariant, PTL DEF Spec, EnsuredStays
=============================================================================
