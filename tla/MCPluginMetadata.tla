--------------------------- MODULE MCPluginMetadata ---------------------------
(* Two URLs of which one offers two JARs in turn, one of them without a version, *)
(* and a Hangar project; a checksum that fits one JAR, an address that is        *)
(* refused.                                                                      *)
EXTENDS PluginMetadata

Jar(h, v, big) == [hash |-> h, version |-> v, mc |-> {"1.21"}, big |-> big]

MCContents ==
    [x \in {"a", "b", "p"} |->
        CASE x = "a" -> {Jar("h1", "1.0", FALSE), Jar("h2", None, FALSE)}
          [] x = "b" -> {Jar("h3", "2.0", TRUE)}
          [] x = "p" -> {Jar("h4", "3.0", FALSE), Jar("h5", None, FALSE)}]

Src(t, r, sum, v, ok) == [type |-> t, ref |-> r, checksum |-> sum, version |-> v, valid |-> ok]
MCSources == {Src("url", "a", None, None, TRUE), Src("url", "a", "h1", None, TRUE),
              Src("url", "b", None, None, TRUE), Src("url", "a", None, None, FALSE),
              Src("hangar", "p", None, None, TRUE), Src("spigot", "p", None, None, TRUE)}

MCServers == {None, [version |-> "1.21", compatible |-> TRUE]}
=============================================================================
