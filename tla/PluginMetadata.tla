----------------------------- MODULE PluginMetadata -----------------------------
(***************************************************************************)
(* The metadata of a plugin: the plugin controller fetches what the source *)
(* offers, from the Hangar repository through a cache or by downloading    *)
(* the JAR of a URL, and keeps it in the status with the list of servers   *)
(* the plugin matches.  A fetch takes time: the user may edit the plugin   *)
(* while it is under way, and the source may change or go down at any      *)
(* time.  Time is counted in ticks; ages beyond the TTL are not told       *)
(* apart.                                                                  *)
(***************************************************************************)
EXTENDS Naturals

CONSTANTS
    None,         \* no version, no checksum, no metadata
    Placeholder,  \* the version "0.0.0"
    Sources,      \* what the user may write under spec.source and spec.version
    Contents,     \* function: what may be found at a reference
    Servers,      \* what the plugin may see of the server
    TTL,          \* urlCacheTTL, in ticks
    MaxEdits,     \* bound: edits of the plugin
    MaxChanges,   \* bound: changes of the source and of the server
    MaxFaults     \* bound: outages and crashes

Refs == DOMAIN Contents
Old == TTL + 1

ASSUME MetadataAssumption ==
    /\ TTL \in Nat /\ MaxEdits \in Nat /\ MaxChanges \in Nat /\ MaxFaults \in Nat
    /\ \A s \in Sources : s.ref \in Refs
    /\ Placeholder # None

VARIABLES
    source,       \* spec.source and spec.version
    upstream,     \* what is found at each reference now
    up,           \* the source can be reached
    server,       \* the server, if it matches, and its verdict on the plugin
    status,       \* the status of the plugin
    cache,        \* CachedPluginClient: by reference, None or an unexpired entry
    pc,           \* "idle", "fetch" or "write"
    snap,         \* the plugin as the reconcile read it
    new,          \* the status it is about to write
    again,        \* how the reconcile ends: "done", "timer" (RequeueAfter) or "error"
    fetched,      \* it has fetched, so LastFetched is new
    queued, timer, stale,
    edits, changes, faults

bounds == <<edits, changes, faults>>
world == <<source, upstream, up, server>>
vars == <<world, status, cache, pc, snap, new, again, fetched, queued, timer, stale, bounds>>

-----------------------------------------------------------------------------
(* Fetching.                                                               *)

\* convertToPluginVersionInfo: a version without a release date is released now.
Info(s, c, version, released) ==
    [type |-> s.type, ref |-> s.ref, hash |-> c.hash, version |-> version, mc |-> c.mc,
     age |-> 0, released |-> released]

\* Mutant: the cached metadata never expires.
URLCacheForever(s, avail) ==
    /\ avail # None /\ avail.ref = s.ref
    /\ s.checksum # None => avail.hash = s.checksum

\* Mutant: the checksum is not compared with the cached hash.
URLCacheAnyChecksum(s, avail) ==
    avail # None /\ avail.ref = s.ref /\ avail.age <= TTL

\* urlCacheValid
URLCacheValid(s, avail) ==
    /\ avail # None /\ avail.ref = s.ref
    /\ avail.age <= TTL
    /\ s.checksum # None => avail.hash = s.checksum

\* Mutant: a JAR without a version has none.
VersionOfJAR(s, c) == c.version

\* resolveVersionWithFallback
VersionOf(s, c) ==
    CASE c.version # None -> c.version
      [] c.version = None /\ s.version # None -> s.version
      [] OTHER -> Placeholder

\* The metadata of a JAR is not nil.
ASSUME NoneAssumption ==
    \A s \in Sources, x \in Refs : \A c \in Contents[x], d \in 0..Old :
        Info(s, c, VersionOf(s, c), d) # None

\* Mutant: the release date of a refreshed JAR is the time of the download.
ReleasedNow(avail, c) == 0

\* The release date of a JAR whose content is the cached one is kept.
Released(avail, c) == IF avail # None /\ avail.hash = c.hash THEN avail.released ELSE 0

Result(kind, avail) == [kind |-> kind, avail |-> avail]

\* fetchURLMetadata: DownloadJAR, the checksum, ParseJARMetadata
FetchURL(s, avail) ==
    LET c == upstream[s.ref]
    IN  CASE ~s.valid -> Result("invalid", avail)
          [] s.valid /\ URLCacheValid(s, avail) -> Result("hit", avail)
          [] OTHER ->
                IF ~up \/ c.big THEN Result("error", avail)
                ELSE IF s.checksum # None /\ s.checksum # c.hash THEN Result("mismatch", avail)
                ELSE Result("ok", Info(s, c, VersionOf(s, c), Released(avail, c)))

\* fetchHangarMetadata through CachedPluginClient.GetVersions: versions come with the
\* date of their release.  A project may have none.
FetchHangar(s, avail) ==
    LET c == IF cache[s.ref] # None THEN cache[s.ref] ELSE upstream[s.ref]
    IN  IF cache[s.ref] = None /\ ~up THEN Result("error", avail)
        ELSE Result("ok", IF c.version = None THEN None ELSE Info(s, c, c.version, Old))

\* fetchPluginMetadata
FetchPluginMetadata(s, avail) ==
    CASE s.type = "url" -> FetchURL(s, avail)
      [] s.type = "hangar" -> FetchHangar(s, avail)
      [] OTHER -> Result("unsupported", avail)

\* syncPluginMetadata, handleRepositoryError
SyncPluginMetadata(st, r) ==
    CASE r.kind = "ok" -> [st EXCEPT !.repo = "available", !.avail = r.avail]
      [] r.kind = "hit" -> st
      [] r.kind = "error" ->
            [st EXCEPT !.repo = IF st.avail # None THEN "orphaned" ELSE "unavailable"]
      [] r.kind \in {"mismatch", "invalid", "unsupported"} ->
            [st EXCEPT !.repo = "unavailable", !.resolved = r.kind]

\* There are versions to go on with: fetched, or cached ones in their place.
HasVersions(st, r) == r.kind \in {"ok", "hit", "error"} /\ r.avail # None

\* setFallbackVersionCondition, for a JAR just downloaded
Fallback(s, r) ==
    IF s.type = "url" /\ r.kind = "ok" THEN r.avail.version = Placeholder ELSE FALSE

\* The condition VersionResolved: the placeholder's is not overwritten.
Resolved(s, st, r) ==
    CASE Fallback(s, r) -> "fallback"
      [] ~Fallback(s, r) /\ HasVersions(st, r) ->
            IF st.resolved = "fallback" /\ (s.type # "url" \/ r.kind # "ok")
            THEN "fallback" ELSE "true"
      [] OTHER -> SyncPluginMetadata(st, r).resolved

\* Mutant: the list of servers is left alone when there are no versions.
MatchedIfVersions(st, r) == IF HasVersions(st, r) THEN server ELSE st.matched

\* buildMatchedInstances, whatever has become of the repository
Matched(st, r) == server

-----------------------------------------------------------------------------
(* The reconcile.                                                          *)

NewStatus == [repo |-> "none", resolved |-> "none", avail |-> None, matched |-> None]

Init ==
    /\ source \in Sources
    /\ upstream \in {f \in [Refs -> UNION {Contents[x] : x \in Refs}] :
                        \A x \in Refs : f[x] \in Contents[x]}
    /\ up = TRUE
    /\ server \in Servers
    /\ status = NewStatus /\ new = NewStatus
    /\ cache = [x \in Refs |-> None]
    /\ pc = "idle" /\ snap = None /\ again = "done" /\ fetched = FALSE
    /\ queued = TRUE /\ timer = FALSE /\ stale = FALSE
    /\ edits = 0 /\ changes = 0 /\ faults = 0

Start ==
    /\ pc = "idle" /\ queued
    /\ pc' = "fetch" /\ queued' = FALSE /\ stale' = FALSE
    /\ snap' = source /\ new' = status
    /\ UNCHANGED <<world, status, cache, again, fetched, timer, bounds>>

\* CachedPluginClient.GetVersions keeps what it fetched.
Cached(s, r) ==
    IF s.type = "hangar" /\ r.kind = "ok" /\ cache[s.ref] = None
    THEN [cache EXCEPT ![s.ref] = upstream[s.ref]] ELSE cache

\* doReconcile
Fetch ==
    /\ pc = "fetch"
    /\ LET r == FetchPluginMetadata(snap, new.avail)
       IN  /\ new' = [SyncPluginMetadata(new, r) EXCEPT
                        !.resolved = Resolved(snap, new, r), !.matched = Matched(new, r)]
           /\ again' = IF HasVersions(new, r) \/ r.kind = "error" THEN "timer" ELSE "done"
           /\ fetched' = (r.kind = "ok")
           /\ cache' = Cached(snap, r)
    /\ pc' = "write"
    /\ UNCHANGED <<world, status, snap, queued, timer, stale, bounds>>

\* doReconcile whose findMatchedServers fails: what was fetched is written all the same.
FetchWithoutServers ==
    /\ pc = "fetch" /\ faults < MaxFaults
    /\ faults' = faults + 1
    /\ LET r == FetchPluginMetadata(snap, new.avail)
           synced == SyncPluginMetadata(new, r)
       IN  /\ new' = IF snap.type = "url" /\ r.kind = "ok"
                     THEN [synced EXCEPT !.resolved = Resolved(snap, new, r)] ELSE synced
           /\ fetched' = (r.kind = "ok")
           /\ cache' = Cached(snap, r)
    /\ again' = "error"
    /\ pc' = "write"
    /\ UNCHANGED <<world, status, snap, queued, timer, stale, edits, changes>>

\* The reconcile is over and its variables are gone.
Idle ==
    /\ pc' = "idle" /\ snap' = None /\ new' = NewStatus
    /\ again' = "done" /\ fetched' = FALSE /\ stale' = FALSE

\* statusEqual: the time of a fetch never equals one that is stored, in whole seconds, so
\* what was fetched counts as a change.
StatusEqual(a, b) == ~fetched /\ a = b

\* The API server refuses a status for a plugin that was edited since it was read; a write
\* is an event of its own unless it stores what is there, to the second.
Write ==
    /\ pc = "write"
    /\ Idle
    /\ IF ~StatusEqual(new, status) /\ stale
       THEN /\ queued' = TRUE /\ UNCHANGED <<status, timer>>
       ELSE /\ status' = new
            /\ \E event \in {new # status, ~StatusEqual(new, status)} :
                queued' = (queued \/ event \/ again = "error")
            /\ timer' = (timer \/ again = "timer")
    /\ UNCHANGED <<world, cache, bounds>>

\* RequeueAfter: 15 minutes, or 5 when there is nothing to go on with
TimerFires ==
    /\ timer /\ ~queued
    /\ timer' = FALSE /\ queued' = TRUE
    /\ UNCHANGED <<world, status, cache, pc, snap, new, again, fetched, stale, bounds>>

Older(avail) ==
    IF avail = None THEN None
    ELSE [avail EXCEPT !.age = IF @ < Old THEN @ + 1 ELSE @,
                       !.released = IF @ < Old THEN @ + 1 ELSE @]

\* The status and the copy of a reconcile under way grow older, the in-memory cache
\* expires.
Tick ==
    /\ status' = [status EXCEPT !.avail = Older(@)]
    /\ new' = [new EXCEPT !.avail = Older(@)]
    /\ cache' = [x \in Refs |-> None]
    /\ UNCHANGED <<world, pc, snap, again, fetched, queued, timer, stale, bounds>>

Edit ==
    /\ edits < MaxEdits
    /\ edits' = edits + 1
    /\ \E s \in Sources \ {source} : source' = s
    /\ queued' = TRUE /\ stale' = (pc # "idle")
    /\ UNCHANGED <<upstream, up, server, status, cache, pc, snap, new, again, fetched, timer, changes, faults>>

Publish ==
    /\ changes < MaxChanges
    /\ changes' = changes + 1
    /\ \E x \in Refs : \E c \in Contents[x] \ {upstream[x]} :
        upstream' = [upstream EXCEPT ![x] = c]
    /\ UNCHANGED <<source, up, server, status, cache, pc, snap, new, again, fetched, queued, timer, stale,
                   edits, faults>>

\* findPluginsForServer: the server is watched, as it was and as it is.
ServerChanges ==
    /\ changes < MaxChanges
    /\ changes' = changes + 1
    /\ \E s \in Servers \ {server} : server' = s
    /\ queued' = TRUE
    /\ UNCHANGED <<source, upstream, up, status, cache, pc, snap, new, again, fetched, timer, stale,
                   edits, faults>>

Outage ==
    /\ up /\ faults < MaxFaults
    /\ faults' = faults + 1
    /\ up' = FALSE
    /\ UNCHANGED <<source, upstream, server, status, cache, pc, snap, new, again, fetched, queued, timer,
                   stale, edits, changes>>

Recovery ==
    /\ ~up /\ up' = TRUE
    /\ UNCHANGED <<source, upstream, server, status, cache, pc, snap, new, again, fetched, queued, timer,
                   stale, bounds>>

Crash ==
    /\ faults < MaxFaults
    /\ faults' = faults + 1
    /\ Idle /\ queued' = TRUE /\ timer' = FALSE
    /\ cache' = [x \in Refs |-> None]
    /\ UNCHANGED <<world, status, edits, changes>>

Next ==
    \/ Start \/ Fetch \/ FetchWithoutServers \/ Write \/ TimerFires \/ Tick
    \/ Edit \/ Publish \/ ServerChanges \/ Outage \/ Recovery \/ Crash

Spec == Init /\ [][Next]_vars

\* The work queue is served and its timers fire, time passes, outages end.
FairSpec ==
    /\ Spec /\ WF_vars(Start \/ Fetch \/ Write) /\ WF_vars(TimerFires)
    /\ WF_vars(Tick) /\ WF_vars(Recovery)

-----------------------------------------------------------------------------
(* What the status promises.                                               *)

Settled == pc = "idle" /\ ~queued

TypeOK ==
    /\ source \in Sources /\ snap \in Sources \cup {None} /\ server \in Servers
    /\ \A x \in Refs : upstream[x] \in Contents[x] /\ cache[x] \in Contents[x] \cup {None}
    /\ status.repo \in {"none", "available", "orphaned", "unavailable"}
    /\ status.resolved \in {"none", "true", "fallback", "mismatch", "invalid", "unsupported"}
    /\ status.avail # None =>
        /\ status.avail.age \in 0..Old /\ status.avail.released \in 0..Old
        /\ status.avail.version # None
    /\ again \in {"done", "timer", "error"}
    /\ {up, fetched, queued, timer, stale} \subseteq BOOLEAN
    /\ edits \in 0..MaxEdits /\ changes \in 0..MaxChanges /\ faults \in 0..MaxFaults

\* What the status calls available is the metadata of the source the plugin names now,
\* with the checksum it asks for, although the plugin may be edited while a JAR is
\* downloaded.
AvailableIsCurrent ==
    Settled /\ status.repo = "available" /\ status.avail # None =>
        /\ status.avail.ref = source.ref
        /\ source.type = "url" /\ source.checksum # None =>
            status.avail.hash = source.checksum

\* "This ensures updateDelay works correctly across cache refreshes"
\* (plugin_controller.go:413): fetching a JAR anew does not make it younger.
ReleaseDateKept ==
    [][(/\ status.avail # None /\ status'.avail # None
        /\ status.avail.type = "url" /\ status'.avail.type = "url"
        /\ status.avail.hash = status'.avail.hash)
            => status'.avail.released >= status.avail.released]_vars

\* The servers that match are listed in the end as they are, even while the repository
\* is out of reach or the source is not valid.
MatchedFollows == <>[](status.matched = server)

\* A source that can be fetched.
Fetchable ==
    /\ source.type \in {"url", "hangar"}
    /\ source.type = "url" => source.valid /\ source.checksum = None /\ ~upstream[source.ref].big

\* A project without any version is not asked again: doReconcile returns no RequeueAfter.
NeverEmpty == source.type = "hangar" => upstream[source.ref].version # None

\* The metadata follows what the source offers and is called available again, through
\* caches, edits, outages and restarts, without anyone touching the plugin.
MetadataFollows ==
    <>[]Fetchable /\ []NeverEmpty =>
        []<>(/\ status.repo = "available" /\ status.avail # None
             /\ status.avail.hash = upstream[source.ref].hash)
=============================================================================
