------------------------- MODULE MCVersionResolution -------------------------
(* Two plugins, four builds of three Paper versions listed out of order; one    *)
(* plugin version is not a semantic version, one pattern has a wildcard.        *)
EXTENDS VersionResolution

V1 == <<1, 21, 1>>
V2 == <<1, 21, 2>>
V3 == <<1, 22>>

MCPaperVersions == <<V1, V3, V2>>
MCCatalog == {<<V1, 1>>, <<V1, 2>>, <<V2, 1>>, <<V3, 1>>}
MCPublished == {<<V1, 1>>, <<V2, 1>>}

Is(v) == [glob |-> FALSE, v |-> v]
Glob(v) == [glob |-> TRUE, v |-> v]
Ver(n, mc, old) == [version |-> n, mc |-> mc, aged |-> old]

Blank == [matched |-> FALSE, strategy |-> "latest", pin |-> 0, delay |-> FALSE,
          versions |-> <<>>, override |-> FALSE, overrideMC |-> {}]

Several == [Blank EXCEPT !.matched = TRUE, !.delay = TRUE,
               !.versions = <<Ver(1, {Is(V1)}, TRUE), Ver(-1, {Is(V3)}, TRUE),
                              Ver(3, {Glob(<<1, 21>>)}, TRUE), Ver(4, {Is(V1)}, FALSE)>>]
Override == [Blank EXCEPT !.matched = TRUE, !.override = TRUE, !.overrideMC = {Is(V1), Is(V3)},
                !.versions = <<Ver(2, {Glob(<<1, 21>>)}, TRUE)>>]
Pinned == [Blank EXCEPT !.matched = TRUE, !.strategy = "pin", !.pin = 1,
              !.versions = <<Ver(1, {Is(V1), Is(V2), Is(V3)}, TRUE), Ver(2, {}, TRUE)>>]

MCProfiles ==
    [n \in {"p", "q"} |-> IF n = "p" THEN {Several} ELSE {Override, Pinned, Blank}]

Choice(s, v, b) == [strategy |-> s, version |-> v, build |-> b]
MCSpecs == {Choice("latest", NoVersion, 0), Choice("auto", NoVersion, 0),
            Choice("pin", V1, 0), Choice("build-pin", V2, 1)}

\* The sorted lists hold versions of what they sort.  TLC tabulates both functions to
\* find out, and the run looks lists up in the tables.
AllProfiles == UNION {MCProfiles[n] : n \in PluginNames}
ASSUME SortedLists ==
    /\ SortedPaper \in [SUBSET {c[1] : c \in Catalog} -> Seq(Versions)]
    /\ SortedPlugin \in [AllProfiles -> Seq(UNION {Range(p.versions) : p \in AllProfiles})]
=============================================================================
