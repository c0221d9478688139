-------------------------- MODULE VersionResolution --------------------------
(***************************************************************************)
(* Which Paper version a server is given and which version of each plugin: *)
(* the strategies of the papermcserver controller, the solver behind them, *)
(* the update it offers and the update controller that applies the offer   *)
(* once it is old enough.                                                  *)
(*                                                                         *)
(* A Paper version is the sequence of its components; a plugin version is  *)
(* a number, negative if it is not a semantic version.  A reconcile is one *)
(* step here (UpdateRollout has it interleave with the update controller); *)
(* each of its lookups may fail, and so may each of its writes: the image  *)
(* can be out before, or without, the status that records it.              *)
(***************************************************************************)
EXTENDS Integers, SequencesExt

CONSTANTS
    PaperVersions,   \* sequence: the versions in the order the Paper API lists them
    Catalog,         \* the <<version, build>> Paper will ever publish
    Published,       \* ... and those published at the start, with images
    PluginNames,
    Profiles,        \* function: what the Plugin resource of a name may look like
    Specs,           \* what the user may choose for the server
    UpdateDelay,     \* spec.updateDelay, in ticks
    MaxEdits,        \* bound: changes of the server and of plugins, pod flaps
    MaxFaults        \* bound: reconciles with a failing lookup or write, one in each

NoVersion == <<>>        \* ""
Latest == <<99>>         \* "latest", newer than every version for version.Compare
NoImage == <<NoVersion, 0>>
Legacy == <<Latest, 0>>

\* What is published, what users pin (published or not), and the two special values.
Versions == {c[1] : c \in Catalog} \cup {s.version : s \in Specs} \cup {NoVersion, Latest}

\* semver.NewVersion and Compare: missing components are 0 (components < 100).
Weight ==
    [v \in Versions |->
        LET at(i) == IF i \in DOMAIN v THEN v[i] ELSE 0
        IN  (at(1) * 100 + at(2)) * 100 + at(3)]

\* Image i is not older than image j.
Above(i, j) ==
    \/ Weight[i[1]] > Weight[j[1]]
    \/ Weight[i[1]] = Weight[j[1]] /\ i[2] >= j[2]

NoUpdate == [version |-> NoVersion, build |-> 0, age |-> 0, pairs |-> <<>>]

ASSUME ResolutionAssumption ==
    /\ Published \subseteq Catalog
    /\ \A c \in Catalog : c[1] \notin {NoVersion, Latest} /\ c[2] \in Nat \ {0}
    /\ \A c \in Catalog : \E i \in DOMAIN PaperVersions : PaperVersions[i] = c[1]
    /\ PaperVersions \in Seq(Versions)
    /\ \A v \in Versions : Weight[v] \in Nat
    /\ \A c \in Catalog : Weight[c[1]] > 0
    /\ \A s \in Specs : s.strategy \in {"latest", "auto", "pin", "build-pin"}
    /\ UpdateDelay \in Nat /\ MaxEdits \in Nat /\ MaxFaults \in Nat

\* A Plugin has a list of versions; 0 is no version.
ASSUME ProfileAssumption ==
    \A n \in PluginNames : \A p \in Profiles[n] :
        /\ p.versions \in Seq(Range(p.versions))
        /\ \A e \in Range(p.versions) : e.version \in Int \ {0}

\* The catalog is finite: there is a newest among any images, a highest among any builds.
ASSUME NewestAssumption ==
    /\ \A S \in SUBSET Catalog : S # {} => \E i \in S : \A j \in S : Above(i, j)
    /\ \A S \in SUBSET {c[2] : c \in Catalog} : S # {} => \E b \in S : \A c \in S : c <= b

VARIABLES
    api,        \* builds the Paper API lists
    images,     \* tags of the registry
    plugins,    \* the Plugin resources by name
    spec,       \* the server's spec
    status,     \* the server's status
    sts,        \* the image of the StatefulSet
    ready,      \* the pod is ready
    offered,    \* history: ticks the present offer has been on offer
    edits, faults

vars == <<api, images, plugins, spec, status, sts, ready, offered, edits, faults>>

-----------------------------------------------------------------------------
(* Compatibility.                                                          *)

\* A pattern such as 1.21.x stands for every version with that prefix.
MatchesVersionPattern(m, v) ==
    /\ m.glob
    /\ Len(v) > Len(m.v) /\ SubSeq(v, 1, Len(m.v)) = m.v

ContainsVersion(ms, v) ==
    \E m \in ms : (~m.glob /\ m.v = v) \/ MatchesVersionPattern(m, v)

Matched == {n \in PluginNames : plugins[n].matched}

OverrideAllows(p, v) == p.overrideMC = {} \/ ContainsVersion(p.overrideMC, v)

\* isPluginCompatibleWithPaper
PluginAllows(p, v) ==
    IF p.override THEN OverrideAllows(p, v)
    ELSE \E i \in DOMAIN p.versions : ContainsVersion(p.versions[i].mc, v)

\* checkPluginCompatibility: a plugin without any metadata is taken to be compatible.
CheckPluginCompatibility(v) ==
    \A n \in Matched : LET p == plugins[n] IN
        (p.versions = <<>> /\ ~p.override) \/ PluginAllows(p, v)

\* isPluginCompatibleWithServer
PluginVersionCompatible(p, pv, v) ==
    IF p.override THEN OverrideAllows(p, v)
    ELSE pv.mc = {} \/ ContainsVersion(pv.mc, v)

-----------------------------------------------------------------------------
(* The solver.                                                             *)

\* The entries of s at the positions in keep, in their order.
Sublist(s, keep) ==
    LET upto[k \in 0..Len(s)] ==
            IF k = 0 THEN <<>>
            ELSE IF k \in keep THEN Append(upto[k - 1], s[k]) ELSE upto[k - 1]
    IN  upto[Len(s)]

\* Versions that do not parse (their rank is not positive) are never exchanged.
NewerRank(a, b) == a > 0 /\ b > 0 /\ a > b

\* The exchange of entries i and j of a list in L, if they are in the wrong order.
Exchange(L, i, j, rank) ==
    [s \in L |-> IF NewerRank(rank[s[j]], rank[s[i]])
                 THEN [s EXCEPT ![i] = s[j], ![j] = s[i]] ELSE s]

\* The inner loop: entry i is compared with each of the later ones, up to n.
Pass(L, i, n, rank) ==
    [s \in L |-> LET upto[j \in i..n] ==
                        IF j = i THEN s ELSE Exchange(L, i, j, rank)[upto[j - 1]]
                 IN  upto[n]]

\* sortVersionsDesc, sortPaperVersionsDesc: a pass for every entry.
SortDesc(s, rank) ==
    LET n == Len(s)
        L == [1..n -> Range(s)]
        after[i \in 0..n] == IF i = 0 THEN s ELSE Pass(L, i, n, rank)[after[i - 1]]
    IN  after[n]

\* Mutant: the versions stay in the order in which the Paper API lists them.
ListedPaper ==
    [S \in SUBSET {c[1] : c \in Catalog} |->
        Sublist(PaperVersions, {i \in DOMAIN PaperVersions : PaperVersions[i] \in S})]

\* The versions Paper lists of a set, sorted.
SortedPaper ==
    [S \in SUBSET {c[1] : c \in Catalog} |->
        SortDesc(Sublist(PaperVersions, {i \in DOMAIN PaperVersions : PaperVersions[i] \in S}),
                 Weight)]

\* Mutant: versions younger than the delay stay in the list.
Unfiltered(p) == p.versions

\* FilterByUpdateDelay, filterByDelay
Mature(p) == Sublist(p.versions, {i \in DOMAIN p.versions : ~p.delay \/ p.versions[i].aged})

\* The versions of a plugin that are old enough, sorted.
SortedPlugin ==
    [p \in UNION {Profiles[n] : n \in PluginNames} |->
        SortDesc(Mature(p), [e \in Range(p.versions) |-> e.version])]

\* isPaperVersionCompatibleWithAllPlugins
SolverAllows(v) ==
    \A n \in Matched : LET p == plugins[n] IN
        p.versions = <<>> \/ \E i \in DOMAIN p.versions : ContainsVersion(p.versions[i].mc, v)

\* The loop of FindBestPaperVersion: the first version of a list that suits.
FirstAllowed(s) ==
    LET Allowed(i) == SolverAllows(s[i])
    IN  IF \E i \in DOMAIN s : Allowed(i)
        THEN s[CHOOSE i \in DOMAIN s : Allowed(i) /\ \A k \in 1..(i - 1) : ~Allowed(k)]
        ELSE NoVersion

\* FindBestPaperVersion for "latest" and "auto"; NoVersion is an error.
FindBestPaperVersion == FirstAllowed(SortedPaper[{c[1] : c \in api}])

\* The same loop over the versions of a plugin.
FindCompatiblePluginVersion(s, p, v) ==
    LET Suits(i) == PluginVersionCompatible(p, s[i], v)
    IN  IF \E i \in DOMAIN s : Suits(i)
        THEN s[CHOOSE i \in DOMAIN s : Suits(i) /\ \A k \in 1..(i - 1) : ~Suits(k)].version
        ELSE 0

\* FindBestPluginVersion; 0 is an error.
FindBestPluginVersion(p, v) ==
    CASE p.versions = <<>> -> 0
      [] p.versions # <<>> /\ p.strategy = "pin" /\ p.pin # 0 -> p.pin
      [] OTHER -> FindCompatiblePluginVersion(SortedPlugin[p], p, v)

\* resolvePluginVersionForServer; 0 stands for an empty result and for an error.
ResolvePluginVersion(p, v) ==
    IF p.strategy = "pin"
    THEN IF \E i \in DOMAIN p.versions : p.versions[i].version = p.pin THEN p.pin ELSE 0
    ELSE IF Mature(p) = <<>> THEN 0 ELSE FindBestPluginVersion(p, v)

\* buildPluginVersionPairs: without a compatible version, the first one there is.
BuildPluginVersionPairs(v) ==
    [n \in {m \in Matched : plugins[m].versions # <<>>} |->
        LET best == FindBestPluginVersion(plugins[n], v)
        IN  IF best # 0 THEN best ELSE plugins[n].versions[1].version]

-----------------------------------------------------------------------------
(* The update on offer.                                                    *)

Builds == [v \in Versions |-> {c[2] : c \in {d \in api : d[1] = v}}]

Newest(S) == CHOOSE b \in S : \A c \in S : c <= b

Offer(v) ==
    [err |-> FALSE,
     update |-> [version |-> v, build |-> Newest(Builds[v]), age |-> 0,
                 pairs |-> BuildPluginVersionPairs(v)]]

NothingOffered == [err |-> FALSE, update |-> NoUpdate]
OfferError == [err |-> TRUE, update |-> NoUpdate]

\* findVersionUpdate
FindVersionUpdate(current, fail) ==
    LET best == IF fail = "versions" THEN NoVersion ELSE FindBestPaperVersion
    IN  CASE best = NoVersion -> OfferError
          [] best = current[1] -> NothingOffered
          [] OTHER -> IF fail = "build" THEN OfferError ELSE Offer(best)

\* findBuildUpdate
FindBuildUpdate(current, fail) ==
    CASE fail = "build" \/ Builds[spec.version] = {} -> OfferError
      [] OTHER -> IF Newest(Builds[spec.version]) <= current[2]
                  THEN NothingOffered ELSE Offer(spec.version)

FindAvailableUpdate(current, fail) ==
    CASE spec.strategy \in {"latest", "auto"} -> FindVersionUpdate(current, fail)
      [] spec.strategy = "pin" -> FindBuildUpdate(current, fail)
      [] spec.strategy = "build-pin" -> NothingOffered

-----------------------------------------------------------------------------
(* The desired version: ok with an image, or not, and what becomes of      *)
(* status.updateBlocked.                                                   *)

Resolved(i) == [ok |-> TRUE, image |-> i, blocked |-> "no"]
Unresolved(b) == [ok |-> FALSE, image |-> NoImage, blocked |-> b]

CheckDowngrade(v) ==
    status.current[1] \notin {NoVersion, Latest} /\ Weight[v] < Weight[status.current[1]]

\* checkDowngrade, then checkCompatibility: what blocks a version, if anything.
Verdict ==
    [v \in Versions |->
        CASE CheckDowngrade(v) -> "downgrade"
          [] ~CheckDowngrade(v) /\ ~CheckPluginCompatibility(v) -> "plugin"
          [] ~CheckDowngrade(v) /\ CheckPluginCompatibility(v) -> "no"]

Checked(v, rest) == IF Verdict[v] = "no" THEN rest ELSE Unresolved(Verdict[v])

\* findLatestVersionFromTags: only tags with three components count.
FindLatestVersionFromTags ==
    LET tags == {i \in images : Len(i[1]) = 3}
    IN  IF tags = {} THEN NoImage ELSE CHOOSE i \in tags : \A j \in tags : Above(i, j)

ResolveLatestVersion(fail) ==
    LET i == IF fail = "tags" THEN NoImage ELSE FindLatestVersionFromTags
    IN  IF i = NoImage THEN Unresolved(status.blocked) ELSE Checked(i[1], Resolved(i))

\* ImageExists may fail for the image in lost.
ImageExists(i, lost) == i \in images /\ i # lost

\* Mutant: the image is taken for granted.
ResolveAutoUnverified(fail, lost) ==
    LET offer == FindAvailableUpdate(status.current, fail)
        i == <<offer.update.version, offer.update.build>>
    IN  IF offer.err \/ offer.update = NoUpdate THEN Unresolved(status.blocked)
        ELSE Checked(i[1], Resolved(i))

ResolveAutoVersion(fail, lost) ==
    LET offer == FindAvailableUpdate(status.current, fail)
        i == <<offer.update.version, offer.update.build>>
    IN  IF offer.err \/ offer.update = NoUpdate THEN Unresolved(status.blocked)
        ELSE Checked(i[1], IF ImageExists(i, lost) THEN Resolved(i)
                                                   ELSE Unresolved(status.blocked))

\* The newest build with an image; an image that cannot be checked is passed over.
ResolveVersionOnlyMode(fail, lost) ==
    LET found == {b \in Builds[spec.version] : ImageExists(<<spec.version, b>>, lost)}
    IN  Checked(spec.version,
                IF fail = "builds" \/ found = {} THEN Unresolved(status.blocked)
                ELSE Resolved(<<spec.version, Newest(found)>>))

ResolvePinnedVersionBuild(lost) ==
    LET i == <<spec.version, spec.build>>
    IN  Checked(spec.version,
                CASE i = lost -> Unresolved(status.blocked)
                  [] i # lost /\ i \in images -> Resolved(i)
                  [] i # lost /\ i \notin images -> Unresolved("image"))

ResolveDesiredPaperVersion(fail, lost) ==
    CASE spec.strategy = "latest" -> ResolveLatestVersion(fail)
      [] spec.strategy = "auto" -> ResolveAutoVersion(fail, lost)
      [] spec.strategy = "pin" -> ResolveVersionOnlyMode(fail, lost)
      [] spec.strategy = "build-pin" -> ResolvePinnedVersionBuild(lost)

-----------------------------------------------------------------------------
(* The steps.                                                              *)

NewStatus == [desired |-> NoImage, current |-> NoImage, blocked |-> "no",
              resolved |-> [n \in {} |-> 0], update |-> NoUpdate,
              err |-> FALSE, noOffer |-> FALSE, ready |-> FALSE]

PluginStates ==
    {f \in [PluginNames -> UNION {Profiles[n] : n \in PluginNames}] :
        \A n \in PluginNames : f[n] \in Profiles[n]}

Init ==
    /\ api = Published /\ images = Published
    /\ plugins \in PluginStates
    /\ spec \in Specs
    /\ status = NewStatus
    /\ sts \in {NoImage, Legacy}
    /\ ready = FALSE
    /\ offered = 0 /\ edits = 0 /\ faults = 0

\* Mutant: the time of the offer counts as a change.
StatusEqualWithTimes(a, b) == a = b

\* serverStatusEqual: an offer is compared without its times.
ServerStatusEqual(a, b) == [a EXCEPT !.update.age = 0] = [b EXCEPT !.update.age = 0]

SameOffer(u, w) == u.version = w.version /\ u.build = w.build

\* Mutant: the release time of an earlier offer is kept.
StampKept(new) == [new EXCEPT !.update.age = status.update.age]

\* ReleasedAt and FoundAt are the time of this reconcile.
Stamp(new) == [new EXCEPT !.update.age = 0]

\* updateServerStatus: the current version is read off the image just ensured.
StatusAfter(r, image, fail) ==
    LET offer == FindAvailableUpdate(image, fail)
    IN  [desired |-> image, current |-> image, blocked |-> r.blocked,
         resolved |-> [n \in Matched |-> ResolvePluginVersion(plugins[n], image[1])],
         update |-> offer.update, err |-> FALSE, noOffer |-> offer.err, ready |-> ready]

Calls == {"tags", "versions", "builds", "build"}

\* A call that fails after the version has been resolved: the write of the StatefulSet,
\* a later step of ensureInfrastructure, the write of the status.  A crash after the
\* image is out, and a status read too early to be written, have the effect of the last.
Cuts == {"image", "rest", "status"}

\* Mutant: the version found is recorded as the current one whatever fails after it.
RecordAlways(r, image, fail, cut) ==
    CASE image = NoImage -> [status EXCEPT !.blocked = r.blocked, !.err = TRUE]
      [] image # NoImage /\ cut \in {"image", "rest"} ->
            [status EXCEPT !.desired = image, !.current = image,
                           !.blocked = r.blocked, !.err = TRUE]
      [] OTHER -> Stamp(StatusAfter(r, image, fail))

\* The status in memory at the end of a reconcile: with an error only what came before it.
Record(r, image, fail, cut) ==
    CASE image = NoImage -> [status EXCEPT !.blocked = r.blocked, !.err = TRUE]
      [] image # NoImage /\ cut \in {"image", "rest"} ->
            [status EXCEPT !.desired = image, !.blocked = r.blocked, !.err = TRUE]
      [] OTHER -> Stamp(StatusAfter(r, image, fail))

\* Reconcile of the papermcserver controller: the lookup fail, the check of the image
\* lost or the write cut goes wrong in it.  Without a result the version on record is
\* taken (updateDesiredVersion).
Reconcile(fail, lost, cut) ==
    \E r \in {ResolveDesiredPaperVersion(fail, lost)} :
    \E image \in {IF r.ok THEN r.image ELSE status.desired} :
    \E new \in {Record(r, image, fail, cut)} :
        /\ sts' = IF image = NoImage \/ cut = "image" THEN sts ELSE image
        /\ IF cut = "status" \/ ServerStatusEqual(new, status)
           THEN UNCHANGED <<status, offered>>
           ELSE /\ status' = new
                /\ offered' = IF SameOffer(new.update, status.update)
                              THEN offered ELSE 0
        /\ UNCHANGED <<api, images, plugins, spec, ready, edits>>

CleanReconcile == Reconcile("none", NoImage, "none") /\ UNCHANGED faults

FaultyReconcile ==
    /\ faults < MaxFaults
    /\ faults' = faults + 1
    /\ \/ \E fail \in Calls : Reconcile(fail, NoImage, "none")
       \/ \E lost \in images : Reconcile("none", lost, "none")
       \/ \E cut \in Cuts : Reconcile("none", NoImage, cut)

\* shouldApplyUpdate
ShouldApplyUpdate == status.update = NoUpdate \/ status.update.age >= UpdateDelay

\* The update controller restarts the pod and clears the offer.  Where desired and
\* current version differ it writes the image as well.
ApplyUpdate ==
    /\ status.update # NoUpdate
    /\ ShouldApplyUpdate
    /\ sts' = IF status.desired # status.current THEN status.desired ELSE sts
    /\ status' = [status EXCEPT !.update = NoUpdate, !.current = status.desired]
    /\ offered' = 0
    /\ UNCHANGED <<api, images, plugins, spec, ready, edits, faults>>

Tick ==
    /\ status.update # NoUpdate
    /\ status.update.age < UpdateDelay \/ offered < UpdateDelay
    /\ LET Older(t) == IF t < UpdateDelay THEN t + 1 ELSE t
       IN  /\ status' = [status EXCEPT !.update.age = Older(@)]
           /\ offered' = Older(offered)
    /\ UNCHANGED <<api, images, plugins, spec, sts, ready, edits, faults>>

PublishBuild ==
    \E c \in Catalog \ api :
        /\ api' = api \cup {c}
        /\ UNCHANGED <<images, plugins, spec, status, sts, ready, offered, edits, faults>>

PushImage ==
    \E c \in api \ images :
        /\ images' = images \cup {c}
        /\ UNCHANGED <<api, plugins, spec, status, sts, ready, offered, edits, faults>>

\* The user edits the server or a plugin, or the plugin's metadata is synced.
Edit ==
    /\ edits < MaxEdits
    /\ edits' = edits + 1
    /\ \/ /\ \E s \in Specs \ {spec} : spec' = s
          /\ UNCHANGED <<plugins, ready>>
       \/ /\ \E n \in PluginNames : \E p \in Profiles[n] \ {plugins[n]} :
                plugins' = [plugins EXCEPT ![n] = p]
          /\ UNCHANGED <<spec, ready>>
       \/ /\ ready' = ~ready
          /\ UNCHANGED <<spec, plugins>>
    /\ UNCHANGED <<api, images, status, sts, offered, faults>>

Next ==
    CleanReconcile \/ FaultyReconcile \/ ApplyUpdate \/ Tick \/ PublishBuild \/ PushImage \/ Edit

Spec == Init /\ [][Next]_vars

\* The work queue and the clock go on, lookups succeed now and then; the server has no maintenance window.
FairSpec == Spec /\ WF_vars(CleanReconcile) /\ WF_vars(ApplyUpdate) /\ WF_vars(Tick)

-----------------------------------------------------------------------------
(* What resolution promises.                                               *)

Statuses ==
    [desired : images \cup {NoImage}, current : images \cup {NoImage},
     blocked : {"no", "downgrade", "plugin", "image"},
     err : BOOLEAN, noOffer : BOOLEAN, ready : BOOLEAN]

TypeOK ==
    /\ Published \subseteq images /\ images \subseteq api /\ api \subseteq Catalog
    /\ plugins \in PluginStates /\ spec \in Specs
    /\ [f \in DOMAIN status \ {"resolved", "update"} |-> status[f]] \in Statuses
    /\ sts \in images \cup {NoImage, Legacy}
    /\ status.update.age \in 0..UpdateDelay /\ offered \in 0..UpdateDelay
    /\ ready \in BOOLEAN /\ edits \in 0..MaxEdits /\ faults \in 0..MaxFaults

\* A version every matched plugin can run with: by its override if it has one, else
\* by its metadata if it has any.
CanRun(v) ==
    \A n \in Matched :
        IF plugins[n].override THEN OverrideAllows(plugins[n], v)
        ELSE \/ plugins[n].versions = <<>>
             \/ \E i \in DOMAIN plugins[n].versions :
                    ContainsVersion(plugins[n].versions[i].mc, v)

Contract == INSTANCE VersionContract
            WITH image <- sts, promised <- status.desired, floor <- status.current,
                 allowed <- {v \in Versions : CanRun(v)}

\* Every strategy keeps the contract of VersionContract: whatever lookup or write fails
\* and whatever changes between reconciles, the image of the server is replaced only by
\* one just found in the registry that suits every matched plugin and is not older than
\* status.currentVersion, or by the one status.desiredVersion records; and
\* status.currentVersion never goes back.  That is what "does not perform downgrades"
\* (update-strategies.md:933) comes to: an image whose status write was lost may still
\* be replaced by the older one on record (papermcserver_controller.go:155, 233).
ImplementsContract == Contract!Spec

\* The version is in the metadata of every matched plugin that has an override as well.
AlsoListed(v) ==
    \A n \in Matched : LET p == plugins[n] IN
        \/ ~p.override \/ p.versions = <<>>
        \/ \E i \in DOMAIN p.versions : ContainsVersion(p.versions[i].mc, v)

\* "Return the highest Paper version that satisfies all plugin constraints"
\* (docs/configuration/update-strategies.md:113): under auto, an image that is not the
\* one on record leaves no published version that is higher and that all plugins can
\* run with, overrides included.  One exception is the code's: isPaperVersionCompatible-
\* WithAllPlugins never looks at compatibilityOverride (simple_solver.go:191, against
\* solver.md:65), so a version that only an override admits is not found.
AutoTakesTheBest ==
    [][spec.strategy = "auto" /\ sts' \notin {sts, status.desired} =>
         \A c \in api : CanRun(c[1]) /\ AlsoListed(c[1])
                            => Weight[c[1]] <= Weight[sts'[1]]]_vars

\* The version a reconcile resolves for a plugin that follows the latest one is old
\* enough, suits the version the server is given, and no version that is both ranks
\* above it, whatever the order of the list and whatever entries do not parse.
PluginAtItsBest ==
    [][\A n \in DOMAIN status'.resolved :
         LET p == plugins[n]
             Good == {i \in DOMAIN p.versions :
                        /\ ~p.delay \/ p.versions[i].aged
                        /\ PluginVersionCompatible(p, p.versions[i], sts'[1])}
             r == status'.resolved[n]
         IN  status'.resolved # status.resolved /\ p.strategy = "latest" =>
                /\ r = 0 => Good = {}
                /\ r # 0 => \E i \in Good : p.versions[i].version = r
                /\ r > 0 => \A i \in Good : p.versions[i].version <= r]_vars

\* What is left of updateDelay ("Wait 7 days before applying updates", papermcserver.md:68):
\* the update controller backs up, updates plugins and restarts the pod only after the
\* offer stood for the whole delay, although every write of the status stamps it anew.
\* The image does not wait: a reconcile writes it the moment it is resolved, whatever
\* updateDelay says (papermcserver_controller.go:512).
UpdaterWaits == [][ApplyUpdate => offered >= UpdateDelay]_vars

\* An offer is applied or withdrawn in the end: once nothing else changes in the
\* status, reconciles leave its time stamp alone and the delay runs out.
OfferTaken == status.update # NoUpdate ~> status.update = NoUpdate
=============================================================================
