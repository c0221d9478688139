----------------------------- MODULE MCWebServer -----------------------------
(* Two handlers; requests that conflict with each other, that the API, the      *)
(* schema or a webhook refuses, and manifests with every optional part.         *)
EXTENDS WebServer

MCBlankServer ==
    [strategy |-> "", version |-> "", build |-> None, delay |-> "", checkCron |-> "",
     windowEnabled |-> FALSE, windowCron |-> "", labels |-> "",
     pluginConfigs |-> <<>>, serverConfigs |-> <<>>,
     rcon |-> [enabled |-> FALSE, name |-> "", key |-> ""],
     backup |-> [enabled |-> FALSE, schedule |-> ""],
     gateway |-> [enabled |-> FALSE, parents |-> FALSE, routes |-> <<>>]]

MCBlankPlugin ==
    [type |-> "", project |-> "", url |-> "", checksum |-> "", strategy |-> "latest",
     version |-> "", build |-> None, delay |-> "", endpoints |-> <<>>, selector |-> "",
     dir |-> "", configs |-> <<>>, override |-> FALSE]

File(p) == [path |-> p, cm |-> "cm", key |-> "k"]
HTTP(p, h) == [plugin |-> p, endpoint |-> "web", host |-> h, prefix |-> ""]
Ep(n, p) == [name |-> n, port |-> p, proto |-> "TCP"]

Plain == [MCBlankServer EXCEPT !.strategy = "latest", !.checkCron = "daily"]
Full == [Plain EXCEPT !.strategy = "pin", !.version = "v", !.windowEnabled = TRUE, !.windowCron = "daily",
            !.rcon = [enabled |-> TRUE, name |-> "s", key |-> "k"],
            !.backup = [enabled |-> TRUE, schedule |-> "daily"],
            !.serverConfigs = <<File("a"), File("b")>>,
            !.pluginConfigs = <<[plugin |-> "map", files |-> <<File("a")>>]>>,
            !.gateway = [enabled |-> TRUE, parents |-> TRUE, routes |-> <<HTTP("map", "a.org"), HTTP("chat", "b.org")>>]]
SameHost == [Full EXCEPT !.gateway.routes = <<HTTP("map", "a.org"), HTTP("chat", "a.org")>>]
\* Two routes with one name once it is joined, with one address but for its spelling
Alike == [Full EXCEPT !.gateway.routes =
            <<HTTP("map", "a.org"),
              [plugin |-> "map-web", endpoint |-> "x", host |-> "A.ORG", prefix |-> ""],
              [plugin |-> "map", endpoint |-> "web-x", host |-> "a.org", prefix |-> "/"]>>]
SamePath == [Full EXCEPT !.serverConfigs = <<File("a"), File("a")>>]
NoSecret == [Full EXCEPT !.rcon.name = ""]
BadBackup == [Full EXCEPT !.backup.schedule = "never"]

Map == [MCBlankPlugin EXCEPT !.type = "hangar", !.project = "map", !.endpoints = <<Ep("web", 80)>>]
NoDir == [Map EXCEPT !.configs = <<File("a")>>]

MCManifests == [k \in {"server", "plugin"} |->
    IF k = "server" THEN {Plain, Full, Alike, SameHost, SamePath, NoSecret, BadBackup} ELSE {Map, NoDir}]

Call(v, o, k, b) == [via |-> v, op |-> o, kind |-> k, name |-> "good", body |-> b]
NoBody == [f \in {} |-> ""]
Pinned == [strategy |-> "build-pin", version |-> "v", build |-> 1, checkCron |-> "daily"]

MCRequests ==
    {Call("api", "create", "server", Pinned),
     Call("api", "create", "server", [strategy |-> "latest"]),
     Call("api", "create", "server", [strategy |-> "pin"]),
     Call("api", "update", "server", [strategy |-> "build-pin"]),
     Call("api", "update", "server", [strategy |-> "build-pin", version |-> "v", build |-> 0]),
     Call("api", "update", "server", [serverConfigs |-> <<File("a")>>]),
     Call("api", "update", "server", [version |-> ""]),
     Call("api", "update", "server", [delay |-> ""]),
     Call("api", "create", "plugin", [type |-> "url", url |-> "https", checksum |-> "sha"]),
     Call("api", "update", "plugin", [endpoints |-> <<Ep("web", 80), Ep("web", 81)>>]),
     Call("api", "update", "plugin", [strategy |-> "pin"]),
     Call("api", "update", "plugin", [project |-> "map2", build |-> 2]),
     Call("api", "create", "configmap", [a |-> "text"]),
     Call("ui", "create", "configmap", [a |-> "text"]),
     Call("api", "apply", "server", NoBody),
     Call("ui", "apply", "server", NoBody)}
    \cup {Call(v, o, k, NoBody) : v \in {"api", "ui"}, o \in {"delete", "resolve"}, k \in {"server", "plugin"}}
    \cup {Call("api", "read", k, NoBody) : k \in {"server", "plugin"}}
=============================================================================
