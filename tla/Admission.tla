------------------------------ MODULE Admission ------------------------------
(***************************************************************************)
(* What the REST API and the API server accept: the checks of a request,   *)
(* the schema of the CRDs and the validating webhooks.  A text is told     *)
(* apart only by the checks it passes, so each kind of text is a set of    *)
(* those that pass.  "" is an absent text; a build is a number or absent,  *)
(* and 0 is a number.                                                      *)
(***************************************************************************)
EXTENDS Integers, SequencesExt

CONSTANTS
    None,        \* an absent build; no object
    K8sNames,    \* valid resource names
    DNSLabels,   \* valid endpoint names
    SafeNames,   \* no path separators, no shell characters
    SafePaths,   \* relative, no "..", no shell characters
    SafeKeys,    \* no shell characters
    Crons,       \* expressions the cron parser takes
    Durations,   \* durations time.ParseDuration takes
    Hosts,       \* valid host names, in lower or upper case
    PathPrefixes, \* paths that start with "/"
    Links,       \* https URLs with a host
    PublicLinks, \* ... that ValidateDownloadURL takes, too
    Digests      \* SHA256 in hexadecimal

ASSUME AdmissionAssumption ==
    /\ PublicLinks \subseteq Links
    /\ "" \notin K8sNames \cup DNSLabels \cup SafeNames \cup SafePaths \cup SafeKeys \cup Crons
                 \cup Durations \cup Hosts \cup PathPrefixes \cup Links \cup Digests

Strategies == {"latest", "auto", "pin", "build-pin"}
Protocols == {"TCP", "UDP", "HTTP"}
Ports == 1..65535

Column(s, f) == [i \in DOMAIN s |-> s[i][f]]
Columns(s, f, g) == [i \in DOMAIN s |-> <<s[i][f], s[i][g]>>]

-----------------------------------------------------------------------------
(* The validating webhooks.                                                *)

\* Mutant: build-pin is let through without a build.
ServerStrategyNoBuild(s) ==
    s.strategy \in Strategies /\ (s.strategy \in {"pin", "build-pin"} => s.version # "")

ValidateServerStrategy(s) ==
    /\ s.strategy \in Strategies
    /\ s.strategy \in {"pin", "build-pin"} => s.version # ""
    /\ s.strategy = "build-pin" => s.build # None

\* checkCron is parsed in any case, the window's cron only if it is enabled.
ValidateCronExpressions(s) ==
    s.checkCron \in Crons /\ (s.windowEnabled => s.windowCron \in Crons)

ValidateRCON(s) == s.rcon.enabled => s.rcon.name # "" /\ s.rcon.key # ""

ValidateBackup(s) == s.backup.enabled => s.backup.schedule \in Crons \cup {""}

\* Duplicates are judged as written: "" and "/" are two prefixes, "a" and "A" two hosts.
ValidateHTTPRoutes(rs) ==
    /\ \A i \in DOMAIN rs :
        /\ rs[i].plugin # "" /\ rs[i].endpoint # ""
        /\ rs[i].host \in Hosts /\ rs[i].prefix \in PathPrefixes \cup {""}
    /\ IsInjective(Columns(rs, "plugin", "endpoint"))
    /\ IsInjective(Columns(rs, "host", "prefix"))

ValidateGateway(s) ==
    IF s.gateway.enabled THEN s.gateway.parents /\ ValidateHTTPRoutes(s.gateway.routes)
    ELSE s.gateway.routes = <<>>

ValidateSafeName(n) == n \in SafeNames

ValidateConfigFile(f) == f.path \in SafePaths /\ ValidateSafeName(f.cm) /\ f.key \in SafeKeys

\* The loop over a list of files, shared by three validators.
ConfigFilesValid(fs) ==
    (\A i \in DOMAIN fs : ValidateConfigFile(fs[i])) /\ IsInjective(Column(fs, "path"))

ValidateServerPluginConfigs(s) ==
    /\ \A i \in DOMAIN s.pluginConfigs :
        ValidateSafeName(s.pluginConfigs[i].plugin) /\ ConfigFilesValid(s.pluginConfigs[i].files)
    /\ IsInjective(Column(s.pluginConfigs, "plugin"))

ValidateServerConfigFiles(s) == ConfigFilesValid(s.serverConfigs)

\* PaperMCServerValidator.validate
ValidateServer(s) ==
    /\ ValidateServerStrategy(s) /\ ValidateCronExpressions(s)
    /\ ValidateRCON(s) /\ ValidateBackup(s) /\ ValidateGateway(s)
    /\ ValidateServerPluginConfigs(s) /\ ValidateServerConfigFiles(s)

ValidateURLSource(s) == s.url \in Links

ValidatePluginStrategy(s) ==
    /\ s.strategy \in Strategies
    /\ s.strategy \in {"pin", "build-pin"} => s.version # ""
    /\ s.strategy = "build-pin" => s.build # None

ValidateEndpoints(s) ==
    /\ \A i \in DOMAIN s.endpoints :
        LET ep == s.endpoints[i]
        IN  ep.name # "" /\ ep.port \in Ports /\ ep.proto \in Protocols
    /\ IsInjective(Column(s.endpoints, "name"))
    /\ IsInjective(Columns(s.endpoints, "port", "proto"))

ValidatePluginConfigs(s) ==
    s.configs # <<>> => ValidateSafeName(s.dir) /\ ConfigFilesValid(s.configs)

\* PluginValidator.validate
ValidatePlugin(s) ==
    /\ s.project # "" => ValidateSafeName(s.project)
    /\ \/ s.type = "hangar" /\ s.project # ""
       \/ s.type = "url" /\ ValidateURLSource(s) /\ s.checksum \in Digests \cup {""}
    /\ ValidatePluginStrategy(s) /\ ValidateEndpoints(s) /\ ValidatePluginConfigs(s)

-----------------------------------------------------------------------------
(* The schemas of the CRDs, which hold with and without webhooks.          *)

ServerSchema(s) ==
    s.strategy \in Strategies /\ \A i \in DOMAIN s.gateway.routes : s.gateway.routes[i].host # ""

PluginSchema(s) ==
    /\ s.type \in {"hangar", "url"} /\ s.strategy \in Strategies
    /\ s.checksum \in Digests \cup {""}
    /\ \A i \in DOMAIN s.endpoints :
        LET ep == s.endpoints[i]
        IN  ep.name \in DNSLabels /\ ep.port \in Ports /\ ep.proto \in Protocols

Admitted(kind, s, webhooks) ==
    CASE kind = "server" -> ServerSchema(s) /\ (webhooks => ValidateServer(s))
      [] kind = "plugin" -> PluginSchema(s) /\ (webhooks => ValidatePlugin(s))
      [] OTHER -> TRUE

-----------------------------------------------------------------------------
(* The checks of the REST API: a body is a function from the fields it     *)
(* has.                                                                    *)

Given(body, f, default) == IF f \in DOMAIN body THEN body[f] ELSE default

ValidateK8sName(n) == n \in K8sNames

ValidateEndpointRequest(body) ==
    LET eps == Given(body, "endpoints", <<>>)
    IN  /\ \A i \in DOMAIN eps :
            eps[i].name \in DNSLabels /\ eps[i].port \in Ports /\ eps[i].proto \in Protocols
        /\ IsInjective(Column(eps, "name"))
        /\ IsInjective(Columns(eps, "port", "proto"))

ValidateServerCreateRequest(name, body) ==
    /\ ValidateK8sName(name)
    /\ Given(body, "strategy", "") \in Strategies
    /\ body.strategy \in {"pin", "build-pin"} => Given(body, "version", "") # ""
    /\ body.strategy = "build-pin" => "build" \in DOMAIN body

ValidatePluginSource(body) ==
    \/ Given(body, "type", "") = "hangar" /\ Given(body, "project", "") # ""
    \/ Given(body, "type", "") = "url" /\ Given(body, "url", "") \in PublicLinks

ValidatePluginCreateRequest(name, body) ==
    ValidateK8sName(name) /\ ValidateEndpointRequest(body) /\ ValidatePluginSource(body)

-----------------------------------------------------------------------------
(* What the controllers can work with.                                     *)

\* The resolver is given the version and the build of a pin (whether they exist it finds
\* out: a build of 0 is given, too), the cron library each schedule, the pod the secret of
\* RCON; an endpoint of a plugin has one route at most, no two routes are written with the
\* same host and prefix, no two entries write one file.
ServerUsable(s) ==
    /\ s.strategy \in {"latest", "auto"} \/ s.version # ""
    /\ s.strategy # "build-pin" \/ s.build # None
    /\ {s.checkCron} \cup (IF s.windowEnabled THEN {s.windowCron} ELSE {}) \subseteq Crons
    /\ s.backup.enabled /\ s.backup.schedule # "" => s.backup.schedule \in Crons
    /\ s.rcon.enabled => s.rcon.name # ""
    /\ \A i, j \in DOMAIN s.gateway.routes :
        LET r == s.gateway.routes[i]  q == s.gateway.routes[j]
        IN  (r.plugin = q.plugin /\ r.endpoint = q.endpoint) \/ (r.host = q.host /\ r.prefix = q.prefix)
                => i = j
    /\ \A i, j \in DOMAIN s.serverConfigs :
        s.serverConfigs[i].path = s.serverConfigs[j].path => i = j

\* The source can be asked, the endpoints can be ports of one Service, the files have a
\* directory.
PluginUsable(s) ==
    /\ IF s.type = "url" THEN s.url # "" ELSE s.project # ""
    /\ s.strategy \in {"latest", "auto"} \/ s.version # ""
    /\ s.strategy # "build-pin" \/ s.build # None
    /\ \A i, j \in DOMAIN s.endpoints : s.endpoints[i].name = s.endpoints[j].name => i = j
    /\ s.configs # <<>> => s.dir # ""

Usable(kind, s) ==
    (kind = "server" => ServerUsable(s)) /\ (kind = "plugin" => PluginUsable(s))
=============================================================================
